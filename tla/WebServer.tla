----------------------------- MODULE WebServer -----------------------------
(***************************************************************************)
(* web::WebServer (src/web_server.cpp): accounts, sessions and bulletin    *)
(* posts.  Each request runs in a task of its own with an SQLite           *)
(* connection of its own, no statement is in a transaction with another,   *)
(* and so a handler is one action per SQL statement and requests           *)
(* interleave between statements.                                          *)
(*                                                                         *)
(* SQLite and the browsers are external.  A statement may fail with        *)
(* SQLITE_BUSY while another request is at the database; a statement left  *)
(* on a row and never finalized keeps its connection open and its SHARED   *)
(* lock held, and no write commits beside that.  Rows are in id order: a   *)
(* row's id is its index (nothing deletes rows), and a SELECT steps to the *)
(* least matching id.                                                      *)
(***************************************************************************)
EXTENDS Naturals, Sequences, FiniteSets

CONSTANTS
    Requests,    \* requests browsers may make
    Browsers,
    Names,       \* account names and passwords
    Asks,        \* Asks[r]: what request r may be
    CookieMod,   \* 2^32, the values of unsigned int
    Lifetime,    \* 259200, the seconds added to a cookie's time
    MaxTime,     \* bound on the clock
    Contention,  \* whether statements may time out on each other
    None

Kinds == {"login", "signup", "whoami", "get", "logout"}
Ask == [browser : Browsers, kind : Kinds, account : Names, password : Names,
        complete : BOOLEAN]  \* all fields of the form are there

ASSUME WebAssumption ==
    /\ CookieMod \in Nat \ {0} /\ CookieMod % 2 = 0
    /\ Lifetime \in Nat /\ MaxTime \in Nat
    /\ Contention \in BOOLEAN
    /\ Asks \in [Requests -> SUBSET Ask]
    /\ None \notin Requests \cup Nat

(* None is neither a request that was made nor an answer to one. *)
ASSUME NoneAssumption == None \notin Ask /\ None # "try again later"

VARIABLES
    user,      \* table user: account, password, id_cookie; and the history
               \* from: the signup, seen: rows at its SELECT, by: last UPDATE
    bulletin,  \* table bulletin: user_id; from: the request (history)
    leaked,    \* some connection holds a SHARED lock for ever
    now,       \* time(), in seconds
    jar,       \* each browser's cookie `uuid`, with its account and request
    req,       \* the state of each request's handler
    down       \* an exception ended the process

tables == <<user, bulletin>>
vars == <<user, bulletin, leaked, now, jar, req, down>>

NoCookie == [uuid |-> None, account |-> None, by |-> None]
Unsent == [pc |-> "none", ask |-> None, cookie |-> NoCookie,
           uid |-> None, time |-> None, seen |-> None, set |-> None, answer |-> None]

Init == /\ user = <<>> /\ bulletin = <<>>
        /\ leaked = FALSE
        /\ now = 0
        /\ jar = [b \in Browsers |-> NoCookie]
        /\ req = [r \in Requests |-> Unsent]
        /\ down = FALSE

At(r, pc) == req[r].pc = pc
Goto(r, pc) == req' = [req EXCEPT ![r].pc = pc]
Answer(r, a) == req' = [req EXCEPT ![r].pc = "reply", ![r].answer = a]
Account(r) == req[r].ask.account

Least(S) == CHOOSE i \in S : \A j \in S : i <= j
WithAccount(a) == {i \in DOMAIN user : user[i].account = a}
WithCookie(c) == {i \in DOMAIN user : user[i].id_cookie = c}

Others(r) == \E s \in Requests \ {r} : req[s].pc \notin {"none", "done"}
ReadBusy(r) == Contention /\ Others(r)
WriteBusy(r) == leaked \/ ReadBusy(r)

MutNewCookie(time, uid) == (time + Lifetime + uid) % CookieMod  \* mutant: no shift

(* updateCookieByAccount: now + lifetime, shifted, plus the user's id. *)
NewCookie(time, uid) == (2 * (time + Lifetime) + uid) % CookieMod

-----------------------------------------------------------------------------
Tick == /\ now < MaxTime
        /\ now' = now + 1
        /\ UNCHANGED <<tables, leaked, jar, req, down>>

(* A browser submits a form with the cookie it has; render picks the handler. *)
Send(r, a) ==
    /\ At(r, "none")
    /\ req' = [req EXCEPT ![r] = [Unsent EXCEPT !.pc = a.kind, !.ask = a,
                                                !.cookie = jar[a.browser]]]
    /\ UNCHANGED <<tables, leaked, now, jar, down>>

(* The answer reaches the browser, which keeps the cookie set by it, or the *)
(* browser is gone.                                                         *)
Reply(r) ==
    /\ At(r, "reply")
    /\ req' = [req EXCEPT ![r] = [Unsent EXCEPT !.pc = "done", !.ask = req[r].ask,
                                     !.cookie = req[r].cookie, !.answer = req[r].answer]]
    /\ LET b == req[r].ask.browser
           c == IF req[r].answer = "logged out" THEN NoCookie
                ELSE IF req[r].set = None THEN jar[b]
                ELSE [uuid |-> req[r].set, account |-> Account(r), by |-> r]
       IN  jar' = [jar EXCEPT ![b] = c] \/ UNCHANGED jar
    /\ UNCHANGED <<tables, leaked, now, down>>

-----------------------------------------------------------------------------
(* The POST handlers first look for their fields, which a body cut short by *)
(* the server's single recv lacks.                                          *)
WrongArguments(r) ==
    /\ req[r].pc \in {"login", "signup", "whoami"} /\ ~req[r].ask.complete
    /\ Answer(r, "wrong arguments")
    /\ UNCHANGED <<tables, leaked, now, jar, down>>

FormAt(r, pc) == At(r, pc) /\ req[r].ask.complete

MutSelectPassword(r) ==  \* mutant: the statement is not finalized on a row either
    /\ FormAt(r, "login") /\ ~ReadBusy(r)
    /\ LET ids == WithAccount(Account(r))
       IN  IF ids # {} /\ user[Least(ids)].password = req[r].ask.password
           THEN req' = [req EXCEPT ![r].pc = "uid", ![r].answer = "index"]
           ELSE Answer(r, "wrong password")
    /\ leaked' = (leaked \/ WithAccount(Account(r)) # {})
    /\ UNCHANGED <<tables, now, jar, down>>

(* login_post: the SELECT of the password; any result of sqlite3_step but   *)
(* SQLITE_DONE is taken for a row, and on SQLITE_BUSY there is none to read. *)
SelectPassword(r) ==
    /\ FormAt(r, "login")
    /\ LET ids == WithAccount(Account(r))
       IN  \/ ids = {} /\ Answer(r, "no account") /\ UNCHANGED down
           \/ /\ ids # {} /\ UNCHANGED down
              /\ IF user[Least(ids)].password = req[r].ask.password
                 THEN req' = [req EXCEPT ![r].pc = "uid", ![r].answer = "index"]
                 ELSE Answer(r, "wrong password")
           \/ ReadBusy(r) /\ Answer(r, "500") /\ UNCHANGED down
           \/ ReadBusy(r) /\ down' = TRUE /\ UNCHANGED req
    /\ UNCHANGED <<tables, leaked, now, jar>>

MutSelectId(r) ==  \* mutant: whether the account exists is not looked at
    /\ FormAt(r, "signup")
    /\ req' = [req EXCEPT ![r].pc = "insert", ![r].seen = Len(user)]
    /\ UNCHANGED <<tables, leaked, now, jar, down>>

(* signup_post: a row means the account exists; so does SQLITE_BUSY.  The   *)
(* statement is not finalized, which matters when it stands on a row.       *)
SelectId(r) ==
    /\ FormAt(r, "signup")
    /\ \/ /\ WithAccount(Account(r)) # {}
          /\ leaked' = TRUE
          /\ Answer(r, "exists")
       \/ /\ WithAccount(Account(r)) = {}
          /\ req' = [req EXCEPT ![r].pc = "insert", ![r].seen = Len(user)]
          /\ UNCHANGED leaked
       \/ /\ ReadBusy(r)
          /\ Answer(r, "exists") \/ Answer(r, "500")
          /\ UNCHANGED leaked
    /\ UNCHANGED <<tables, now, jar, down>>

(* insertNewUser: the row has cookie 0 until updateCookieByAccount. *)
InsertUser(r) ==
    /\ At(r, "insert")
    /\ \/ /\ ~leaked
          /\ user' = Append(user, [account |-> Account(r), password |-> req[r].ask.password,
                                   id_cookie |-> 0, from |-> r, seen |-> req[r].seen, by |-> None])
          /\ req' = [req EXCEPT ![r].pc = "uid", ![r].answer = "success"]
       \/ WriteBusy(r) /\ Answer(r, "500") /\ UNCHANGED user
    /\ UNCHANGED <<bulletin, leaked, now, jar, down>>

MutUpdateFailed(r) == Answer(r, "500")  \* mutant: signup reports the failed update

(* When updateCookieByAccount fails, login leaves the cookie out of its     *)
(* answer; signup does not look at the result.                              *)
UpdateFailed(r) ==
    IF req[r].answer = "success" THEN Goto(r, "cookie") ELSE Goto(r, "reply")

MutSelectUid(r) ==  \* mutant: the result of getIDByAccount is not looked at
    /\ At(r, "uid")
    /\ \/ req' = [req EXCEPT ![r].pc = "update", ![r].time = now,
                             ![r].uid = Least(WithAccount(Account(r)))]
       \/ ReadBusy(r) /\ req' = [req EXCEPT ![r].pc = "update", ![r].time = now]
    /\ UNCHANGED <<tables, leaked, now, jar, down>>

(* updateCookieByAccount: getIDByAccount and time(), *)
SelectUid(r) ==
    /\ At(r, "uid")
    /\ \/ req' = [req EXCEPT ![r].pc = "update", ![r].time = now,
                             ![r].uid = Least(WithAccount(Account(r)))]
       \/ ReadBusy(r) /\ UpdateFailed(r)
    /\ UNCHANGED <<tables, leaked, now, jar, down>>

(* and the UPDATE, of every row with the account. *)
UpdateCookie(r) ==
    /\ At(r, "update")
    /\ \/ /\ ~leaked
          /\ user' = [i \in DOMAIN user |->
                        IF user[i].account = Account(r)
                        THEN [user[i] EXCEPT !.id_cookie = NewCookie(req[r].time, req[r].uid),
                                             !.by = r]
                        ELSE user[i]]
          /\ Goto(r, "cookie")
       \/ WriteBusy(r) /\ UpdateFailed(r) /\ UNCHANGED user
    /\ UNCHANGED <<bulletin, leaked, now, jar, down>>

(* getCookieByAccount reads back what the answer sets. *)
SelectCookie(r) ==
    /\ At(r, "cookie")
    /\ \/ req' = [req EXCEPT ![r].pc = "reply",
                             ![r].set = user[Least(WithAccount(Account(r)))].id_cookie]
       \/ ReadBusy(r) /\ Goto(r, "reply")
    /\ UNCHANGED <<tables, leaked, now, jar, down>>

(* login_get and signup_get: a recognised visitor is sent to the index. *)
Get(r) ==
    /\ At(r, "get")
    /\ \/ WithCookie(req[r].cookie.uuid) # {} /\ Answer(r, "index")
       \/ /\ WithCookie(req[r].cookie.uuid) = {} \/ ReadBusy(r)
          /\ Answer(r, "form")
    /\ UNCHANGED <<tables, leaked, now, jar, down>>

Logout(r) ==
    /\ At(r, "logout")
    /\ Answer(r, "logged out")
    /\ UNCHANGED <<tables, leaked, now, jar, down>>

(* bulletin_post: who is it, by getIDByCookie, *)
SelectAuthor(r) ==
    /\ FormAt(r, "whoami")
    /\ LET ids == WithCookie(req[r].cookie.uuid)
       IN  \/ /\ ids # {}
              /\ req' = [req EXCEPT ![r].pc = "post", ![r].uid = Least(ids)]
           \/ req[r].cookie = NoCookie /\ Answer(r, "login first")
           \/ /\ req[r].cookie # NoCookie
              /\ ids = {} \/ ReadBusy(r)
              /\ Answer(r, "invalid cookie")
    /\ UNCHANGED <<tables, leaked, now, jar, down>>

(* and insertNewMsgToBulletin. *)
InsertPost(r) ==
    /\ At(r, "post")
    /\ \/ /\ ~leaked
          /\ bulletin' = Append(bulletin, [user_id |-> req[r].uid, from |-> r])
          /\ Answer(r, "bulletin")
       \/ WriteBusy(r) /\ Answer(r, "try again later") /\ UNCHANGED bulletin
    /\ UNCHANGED <<user, leaked, now, jar, down>>

-----------------------------------------------------------------------------
Handler(r) == \/ WrongArguments(r)
              \/ SelectPassword(r) \/ SelectId(r) \/ InsertUser(r)
              \/ SelectUid(r) \/ UpdateCookie(r) \/ SelectCookie(r)
              \/ Get(r) \/ Logout(r) \/ SelectAuthor(r) \/ InsertPost(r)

Next == /\ ~down
        /\ \/ Tick
           \/ \E r \in Requests : \/ Handler(r) \/ Reply(r)
                                  \/ \E a \in Asks[r] : Send(r, a)

Spec == Init /\ [][Next]_vars

-----------------------------------------------------------------------------
Cookies == 0..(CookieMod - 1)
Cookie == [uuid : Cookies \cup {None}, account : Names \cup {None}, by : Requests \cup {None}]
Pcs == Kinds \cup {"none", "insert", "uid", "update", "cookie", "post", "reply", "done"}
Answers == {None, "wrong arguments", "no account", "wrong password", "index", "500", "exists",
            "success", "form", "logged out", "login first", "invalid cookie", "bulletin", "try again later"}

TypeOK ==
    /\ user \in Seq([account : Names, password : Names, id_cookie : Cookies,
                     from : Requests, seen : Nat, by : Requests \cup {None}])
    /\ bulletin \in Seq([user_id : Nat, from : Requests])
    /\ \A i \in DOMAIN bulletin : bulletin[i].user_id \in DOMAIN user
    /\ leaked \in BOOLEAN /\ down \in BOOLEAN /\ now \in Nat
    /\ jar \in [Browsers -> Cookie]
    /\ req \in [Requests ->
          [pc : Pcs, ask : Ask \cup {None}, cookie : Cookie,
           uid : Nat \cup {None}, time : Nat \cup {None}, seen : Nat \cup {None},
           set : Cookies \cup {None}, answer : Answers]]
    /\ \A r \in Requests :
          /\ req[r].pc # "none" => req[r].ask \in Ask
          /\ req[r].pc = "insert" => req[r].seen \in Nat
          /\ req[r].pc \in {"uid", "update", "cookie"} => WithAccount(Account(r)) # {}
          /\ req[r].pc = "update" => req[r].time \in Nat
          /\ req[r].pc \in {"update", "post"} => req[r].uid \in DOMAIN user

(* Two rows of one account come from signups whose handlers overlapped: the *)
(* later row's SELECT ran before the earlier row's INSERT.                  *)
DuplicatesOnlyFromOverlap ==
    \A i, j \in DOMAIN user :
        i < j /\ user[i].account = user[j].account => user[j].seen < i

(* What a request is told is what it did, whichever statement of it failed: *)
(* told of success, its row is there, once; told of failure, it is not.     *)
AnswersTellTheOutcome ==
    \A r \in Requests : req[r].pc \in {"reply", "done"} =>
        /\ Cardinality({i \in DOMAIN user : user[i].from = r})
              = IF req[r].answer = "success" THEN 1 ELSE 0
        /\ Cardinality({i \in DOMAIN bulletin : bulletin[i].from = r})
              = IF req[r].answer = "bulletin" THEN 1 ELSE 0

(* A message is listed under the account whose session its browser had. *)
Author(i) == user[bulletin[i].user_id].account
EveryPostCarriesItsAuthor ==
    \A i \in DOMAIN bulletin : Author(i) = req[bulletin[i].from].cookie.account

(* Two users have ids 1 and 2, and cookies of different parity. *)
TwoUsers == Len(user) <= 2

(* So it is with two users, unless a cookie was the 0 of a failed UPDATE. *)
PostsCarryTheirAuthor == TwoUsers =>
    \A i \in DOMAIN bulletin :
        LET c == req[bulletin[i].from].cookie
        IN  c.uuid = 0 \/ Author(i) = c.account

(* With two users, a browser whose login or signup was the last to set an  *)
(* account's cookie is recognised as that account, however logins           *)
(* interleaved and whatever else they set.                                  *)
SessionOfLastLogin == TwoUsers =>
    \A b \in Browsers : \A i \in DOMAIN user :
        jar[b].by # None /\ user[i].account = jar[b].account /\ user[i].by = jar[b].by
            => LET ids == WithCookie(jar[b].uuid)
               IN  ids # {} /\ user[Least(ids)].account = jar[b].account

PostFails(r) == At(r, "post") /\ req'[r].answer = "try again later"
Refused(s) == req[s].ask # None /\ req[s].ask.kind = "signup" /\ req[s].answer = "exists"

(* With nobody else at the database a post fails only after some signup was *)
(* refused: no other path through the handlers leaves a lock behind.        *)
LoneFailureFollowsRefusal ==
    [][\A r \in Requests : PostFails(r) => Others(r) \/ \E s \in Requests : Refused(s)]_vars

(* "please try again later": a post that fails did so because of others. *)
FailuresAreTransient == [][\A r \in Requests : PostFails(r) => Others(r)]_vars
=============================================================================
