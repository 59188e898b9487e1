--------------------------- MODULE SessionProofs ---------------------------
(***************************************************************************)
(* More theorems about WebServer: who is left with a lock, under whose     *)
(* name a post is listed, and whom a cookie recognises.  They rest on one  *)
(* description of what a statement does to its request (Moves).            *)
(***************************************************************************)
EXTENDS WebServerProofs

Ended == {"reply", "done"}

(* A statement that writes no table and learns nothing of one but what it   *)
(* answers.  The signup refused is the one that leaves its lock behind.     *)
Quietly(r, pc, a) ==
    /\ pc \in {"reply", "uid", "cookie"} /\ a \in Answers
    /\ req[r].pc \notin Ended \cup {"none"}
    /\ pc = "reply" \/ req[r].pc # "cookie"
    /\ req' = [req EXCEPT ![r] = [req[r] EXCEPT !.pc = pc, !.answer = a]]
    /\ UNCHANGED <<tables, jar, now>>
    /\ leaked' # leaked => leaked' /\ pc = "reply" /\ a = "exists" /\ req[r].pc = "signup"
    /\ req[r].pc = "post" /\ a = "try again later" => leaked \/ Others(r)

ToInsert(r) ==
    /\ req[r].pc = "signup"
    /\ req' = [req EXCEPT ![r] = [req[r] EXCEPT !.pc = "insert", !.seen = Len(user)]]
    /\ UNCHANGED <<tables, jar, now, leaked>>

NewRow(r) == [account |-> Account(r), password |-> req[r].ask.password, id_cookie |-> 0,
              from |-> r, seen |-> req[r].seen, by |-> None]

Inserts(r) ==
    /\ req[r].pc = "insert"
    /\ user' = Append(user, NewRow(r))
    /\ req' = [req EXCEPT ![r] = [req[r] EXCEPT !.pc = "uid", !.answer = "success"]]
    /\ UNCHANGED <<bulletin, jar, now, leaked>>

ToUpdate(r) ==
    /\ req[r].pc = "uid"
    /\ req' = [req EXCEPT ![r] = [req[r] EXCEPT !.pc = "update", !.time = now,
                                                !.uid = Least(WithAccount(Account(r)))]]
    /\ UNCHANGED <<tables, jar, now, leaked>>

Updates(r) ==
    /\ req[r].pc = "update"
    /\ user' = [i \in DOMAIN user |->
                  IF user[i].account = Account(r)
                  THEN [user[i] EXCEPT !.id_cookie = NewCookie(req[r].time, req[r].uid),
                                       !.by = r]
                  ELSE user[i]]
    /\ req' = [req EXCEPT ![r] = [req[r] EXCEPT !.pc = "cookie"]]
    /\ UNCHANGED <<bulletin, jar, now, leaked>>

Reads(r) ==
    /\ req[r].pc = "cookie"
    /\ req' = [req EXCEPT ![r] = [req[r] EXCEPT !.pc = "reply",
                  !.set = user[Least(WithAccount(Account(r)))].id_cookie]]
    /\ UNCHANGED <<tables, jar, now, leaked>>

ToPost(r) ==
    /\ req[r].pc = "whoami" /\ WithCookie(req[r].cookie.uuid) # {}
    /\ req' = [req EXCEPT ![r] = [req[r] EXCEPT !.pc = "post",
                  !.uid = Least(WithCookie(req[r].cookie.uuid))]]
    /\ UNCHANGED <<tables, jar, now, leaked>>

AddsPost(r) ==
    /\ req[r].pc = "post"
    /\ bulletin' = Append(bulletin, [user_id |-> req[r].uid, from |-> r])
    /\ req' = [req EXCEPT ![r] = [req[r] EXCEPT !.pc = "reply", !.answer = "bulletin"]]
    /\ UNCHANGED <<user, jar, now, leaked>>

Moves(r) == \/ \E pc, a : Quietly(r, pc, a)
            \/ ToInsert(r) \/ Inserts(r) \/ ToUpdate(r) \/ Updates(r)
            \/ Reads(r) \/ ToPost(r) \/ AddsPost(r)

-----------------------------------------------------------------------------
LEMMA Requested ==
    ASSUME TypeOK, NEW r \in Requests
    PROVE  /\ req \in [Requests -> State] /\ req[r] \in State /\ Known(req[r], user)
           /\ req[r].answer \in Answers
BY TypeOKParts DEF Shape, State

(* The ways a statement ends a request or goes on without writing. *)
LEMMA QuietAnswer ==
    ASSUME TypeOK, NEW r \in Requests, NEW a \in Answers, Answer(r, a),
           req[r].pc \notin Ended \cup {"none"}, UNCHANGED <<tables, jar, now>>,
           leaked' = leaked \/ (leaked' = TRUE /\ a = "exists" /\ req[r].pc = "signup"),
           req[r].pc = "post" /\ a = "try again later" => leaked \/ Others(r)
    PROVE  Moves(r)
<1>1. req' = [req EXCEPT ![r] = [req[r] EXCEPT !.pc = "reply", !.answer = a]]
  BY Requested DEF Answer
<1>2. Quietly(r, "reply", a)
  BY <1>1 DEF Quietly
<1>. QED  BY <1>2 DEF Moves

LEMMA QuietGoto ==
    ASSUME TypeOK, NEW r \in Requests, NEW pc \in {"reply", "cookie"}, Goto(r, pc),
           req[r].pc \in {"uid", "update", "cookie"}, pc = "reply" \/ req[r].pc # "cookie",
           UNCHANGED <<tables, jar, now, leaked>>
    PROVE  Moves(r)
<1>1. req' = [req EXCEPT ![r] = [req[r] EXCEPT !.pc = pc, !.answer = req[r].answer]]
  <2>1. [req[r] EXCEPT !.pc = pc, !.answer = req[r].answer] = [req[r] EXCEPT !.pc = pc]
    BY Requested DEF State
  <2>. QED  BY <2>1, Requested DEF Goto
<1>2. Quietly(r, pc, req[r].answer)
  BY <1>1, Requested DEF Quietly, Ended
<1>. QED  BY <1>2 DEF Moves

LEMMA QuietUpdateFailed ==
    ASSUME TypeOK, NEW r \in Requests, UpdateFailed(r), req[r].pc \in {"uid", "update"},
           UNCHANGED <<tables, jar, now, leaked>>
    PROVE  Moves(r)
<1>1. \E pc \in {"reply", "cookie"} : Goto(r, pc)
  BY DEF UpdateFailed
<1>. QED  BY <1>1, QuietGoto

(* What each statement of a handler does, but for the one that ends the     *)
(* process.                                                                 *)
LEMMA HandlerMoves ==
    ASSUME TypeOK, NEW r \in Requests, Handler(r)
    PROVE  Moves(r) \/ (UNCHANGED <<tables, jar, now, leaked, req>>)
<1>0. leaked \in BOOLEAN
  BY TypeOKParts DEF Shape
<1>1. CASE WrongArguments(r)
  <2>1. "wrong arguments" \in Answers /\ "wrong arguments" # "try again later"
    BY DEF Answers
  <2>. QED  BY <1>1, <2>1, QuietAnswer DEF WrongArguments, Ended
<1>2. CASE SelectPassword(r)
  <2>1. req[r].pc = "login" /\ UNCHANGED <<tables, jar, now, leaked>>
    BY <1>2 DEF SelectPassword, FormAt, At
  <2>2. \/ \E a \in {"no account", "wrong password", "500"} : Answer(r, a)
        \/ req' = [req EXCEPT ![r].pc = "uid", ![r].answer = "index"]
        \/ req' = req
    BY <1>2, Zenon DEF SelectPassword
  <2>3. ASSUME NEW a \in {"no account", "wrong password", "500"}, Answer(r, a) PROVE Moves(r)
    <3>1. a \in Answers
      BY DEF Answers
    <3>. QED  BY <2>1, <2>3, <3>1, QuietAnswer DEF Ended
  <2>4. ASSUME req' = [req EXCEPT ![r].pc = "uid", ![r].answer = "index"] PROVE Moves(r)
    <3>1. req' = [req EXCEPT ![r] = [req[r] EXCEPT !.pc = "uid", !.answer = "index"]]
      BY <2>4, Requested
    <3>2. Quietly(r, "uid", "index")
      BY <2>1, <3>1 DEF Quietly, Ended, Answers
    <3>. QED  BY <3>2 DEF Moves
  <2>. QED  BY <2>1, <2>2, <2>3, <2>4
<1>3. CASE SelectId(r)
  <2>1. req[r].pc = "signup" /\ UNCHANGED <<tables, jar, now>>
    BY <1>3 DEF SelectId, FormAt, At
  <2>2. \/ Answer(r, "exists") /\ (leaked' = TRUE \/ leaked' = leaked)
        \/ Answer(r, "500") /\ leaked' = leaked
        \/ req' = [req EXCEPT ![r].pc = "insert", ![r].seen = Len(user)] /\ leaked' = leaked
    BY <1>3, Zenon DEF SelectId
  <2>3. ASSUME NEW a \in {"exists", "500"}, Answer(r, a),
               leaked' = leaked \/ (leaked' = TRUE /\ a = "exists")
        PROVE  Moves(r)
    <3>1. a \in Answers
      BY DEF Answers
    <3>. QED  BY <2>1, <2>3, <3>1, QuietAnswer DEF Ended
  <2>4. ASSUME req' = [req EXCEPT ![r].pc = "insert", ![r].seen = Len(user)], leaked' = leaked
        PROVE  Moves(r)
    <3>1. req' = [req EXCEPT ![r] = [req[r] EXCEPT !.pc = "insert", !.seen = Len(user)]]
      BY <2>4, Requested
    <3>. QED  BY <2>1, <2>4, <3>1 DEF Moves, ToInsert
  <2>. QED  BY <2>2, <2>3, <2>4
<1>4. CASE InsertUser(r)
  <2>1. req[r].pc = "insert" /\ UNCHANGED <<bulletin, leaked, jar, now>>
    BY <1>4 DEF InsertUser, At
  <2>2. \/ /\ user' = Append(user, NewRow(r))
           /\ req' = [req EXCEPT ![r].pc = "uid", ![r].answer = "success"]
        \/ Answer(r, "500") /\ user' = user
    BY <1>4, Zenon DEF InsertUser, NewRow
  <2>3. ASSUME user' = Append(user, NewRow(r)),
               req' = [req EXCEPT ![r].pc = "uid", ![r].answer = "success"]
        PROVE  Moves(r)
    <3>1. req' = [req EXCEPT ![r] = [req[r] EXCEPT !.pc = "uid", !.answer = "success"]]
      BY <2>3, Requested
    <3>. QED  BY <2>1, <2>3, <3>1 DEF Moves, Inserts
  <2>4. ASSUME Answer(r, "500"), user' = user PROVE Moves(r)
    <3>1. "500" \in Answers /\ "500" # "try again later"
      BY DEF Answers
    <3>. QED  BY <2>1, <2>4, <3>1, QuietAnswer DEF Ended, tables
  <2>. QED  BY <2>2, <2>3, <2>4
<1>5. CASE SelectUid(r)
  <2>1. req[r].pc = "uid" /\ UNCHANGED <<tables, leaked, jar, now>>
    BY <1>5 DEF SelectUid, At
  <2>2. \/ req' = [req EXCEPT ![r].pc = "update", ![r].time = now,
                              ![r].uid = Least(WithAccount(Account(r)))]
        \/ UpdateFailed(r)
    BY <1>5, Zenon DEF SelectUid
  <2>3. ASSUME req' = [req EXCEPT ![r].pc = "update", ![r].time = now,
                                  ![r].uid = Least(WithAccount(Account(r)))]
        PROVE  Moves(r)
    <3>1. req' = [req EXCEPT ![r] = [req[r] EXCEPT !.pc = "update", !.time = now,
                                          !.uid = Least(WithAccount(Account(r)))]]
      BY <2>3, Requested
    <3>. QED  BY <2>1, <3>1 DEF Moves, ToUpdate
  <2>. QED  BY <2>1, <2>2, <2>3, QuietUpdateFailed
<1>6. CASE UpdateCookie(r)
  <2>1. req[r].pc = "update" /\ UNCHANGED <<bulletin, leaked, jar, now>>
    BY <1>6 DEF UpdateCookie, At
  <2>2. \/ /\ user' = [i \in DOMAIN user |->
                  IF user[i].account = Account(r)
                  THEN [user[i] EXCEPT !.id_cookie = NewCookie(req[r].time, req[r].uid),
                                       !.by = r]
                  ELSE user[i]]
           /\ Goto(r, "cookie")
        \/ UpdateFailed(r) /\ user' = user
    BY <1>6, Zenon DEF UpdateCookie
  <2>3. ASSUME Goto(r, "cookie")
        PROVE  req' = [req EXCEPT ![r] = [req[r] EXCEPT !.pc = "cookie"]]
    BY <2>3, Requested DEF Goto
  <2>4. ASSUME UpdateFailed(r), user' = user PROVE Moves(r)
    BY <2>1, <2>4, QuietUpdateFailed DEF tables
  <2>. QED  BY <2>1, <2>2, <2>3, <2>4 DEF Moves, Updates
<1>7. CASE SelectCookie(r)
  <2>1. req[r].pc = "cookie" /\ UNCHANGED <<tables, leaked, jar, now>>
    BY <1>7 DEF SelectCookie, At
  <2>2. \/ req' = [req EXCEPT ![r].pc = "reply",
                              ![r].set = user[Least(WithAccount(Account(r)))].id_cookie]
        \/ Goto(r, "reply")
    BY <1>7, Zenon DEF SelectCookie
  <2>3. ASSUME req' = [req EXCEPT ![r].pc = "reply",
                              ![r].set = user[Least(WithAccount(Account(r)))].id_cookie]
        PROVE  Moves(r)
    <3>1. req' = [req EXCEPT ![r] = [req[r] EXCEPT !.pc = "reply",
                    !.set = user[Least(WithAccount(Account(r)))].id_cookie]]
      BY <2>3, Requested
    <3>. QED  BY <2>1, <3>1 DEF Moves, Reads
  <2>. QED  BY <2>1, <2>2, <2>3, QuietGoto
<1>8. CASE Get(r) \/ Logout(r)
  <2>1. req[r].pc \in {"get", "logout"} /\ UNCHANGED <<tables, leaked, jar, now>>
    BY <1>8 DEF Get, Logout, At
  <2>2. \E a \in {"index", "form", "logged out"} : Answer(r, a)
    BY <1>8, Zenon DEF Get, Logout
  <2>3. ASSUME NEW a \in {"index", "form", "logged out"}, Answer(r, a) PROVE Moves(r)
    <3>1. a \in Answers
      BY DEF Answers
    <3>. QED  BY <2>1, <2>3, <3>1, QuietAnswer DEF Ended
  <2>. QED  BY <2>2, <2>3
<1>9. CASE SelectAuthor(r)
  <2>1. req[r].pc = "whoami" /\ UNCHANGED <<tables, leaked, jar, now>>
    BY <1>9 DEF SelectAuthor, FormAt, At
  <2>2. \/ /\ WithCookie(req[r].cookie.uuid) # {}
           /\ req' = [req EXCEPT ![r].pc = "post", ![r].uid = Least(WithCookie(req[r].cookie.uuid))]
        \/ \E a \in {"login first", "invalid cookie"} : Answer(r, a)
    BY <1>9, Zenon DEF SelectAuthor
  <2>3. ASSUME WithCookie(req[r].cookie.uuid) # {},
               req' = [req EXCEPT ![r].pc = "post", ![r].uid = Least(WithCookie(req[r].cookie.uuid))]
        PROVE  Moves(r)
    <3>1. req' = [req EXCEPT ![r] = [req[r] EXCEPT !.pc = "post",
                    !.uid = Least(WithCookie(req[r].cookie.uuid))]]
      BY <2>3, Requested
    <3>. QED  BY <2>1, <2>3, <3>1 DEF Moves, ToPost
  <2>4. ASSUME NEW a \in {"login first", "invalid cookie"}, Answer(r, a) PROVE Moves(r)
    <3>1. a \in Answers
      BY DEF Answers
    <3>. QED  BY <2>1, <2>4, <3>1, QuietAnswer DEF Ended
  <2>. QED  BY <2>2, <2>3, <2>4
<1>10. CASE InsertPost(r)
  <2>1. req[r].pc = "post" /\ UNCHANGED <<user, leaked, jar, now>>
    BY <1>10 DEF InsertPost, At
  <2>2. \/ /\ bulletin' = Append(bulletin, [user_id |-> req[r].uid, from |-> r])
           /\ Answer(r, "bulletin")
        \/ (leaked \/ Others(r)) /\ Answer(r, "try again later") /\ bulletin' = bulletin
    BY <1>10, Zenon DEF InsertPost, WriteBusy, ReadBusy
  <2>3. ASSUME Answer(r, "bulletin")
        PROVE  req' = [req EXCEPT ![r] = [req[r] EXCEPT !.pc = "reply", !.answer = "bulletin"]]
    BY <2>3, Requested DEF Answer
  <2>4. ASSUME leaked \/ Others(r), Answer(r, "try again later"), bulletin' = bulletin
        PROVE  Moves(r)
    <3>1. "try again later" \in Answers
      BY DEF Answers
    <3>. QED  BY <2>1, <2>4, <3>1, QuietAnswer DEF Ended, tables
  <2>. QED  BY <2>1, <2>2, <2>3, <2>4 DEF Moves, AddsPost
<1>. QED  BY <1>1, <1>2, <1>3, <1>4, <1>5, <1>6, <1>7, <1>8, <1>9, <1>10 DEF Handler

-----------------------------------------------------------------------------
(* Who is left with a lock.  A request is of the kind of its first          *)
(* statement, a post has no answer yet, and a lock was left by a signup     *)
(* that was refused and has answered.                                       *)
FormOk(s) == /\ s.pc \in Kinds => s.ask.kind = s.pc
             /\ s.pc \in {"whoami", "post"} => s.answer = None
Leaver(s) == s.pc \in Ended /\ s.ask # None /\ s.ask.kind = "signup" /\ s.answer = "exists"

Locks == /\ \A r \in Requests : FormOk(req[r])
         /\ leaked => \E r \in Requests : Leaver(req[r])
LInv == TypeOK /\ Locks

(* One request moves: its own state is all there is to look at. *)
LEMMA LockStep ==
    ASSUME LInv, NEW r \in Requests, NEW s, req' = [req EXCEPT ![r] = s], FormOk(s),
           Leaver(req[r]) => Leaver(s), leaked' => leaked \/ Leaver(s)
    PROVE  Locks'
<1>1. req \in [Requests -> State]
  BY TypeOKParts DEF LInv, Shape
<1>2. req'[r] = s /\ \A q \in Requests \ {r} : req'[q] = req[q]
  BY <1>1
<1>3. \A q \in Requests : FormOk(req'[q])
  BY <1>2 DEF LInv, Locks
<1>4. leaked' => \E q \in Requests : Leaver(req'[q])
  BY <1>2 DEF LInv, Locks
<1>5. Locks' <=> /\ \A q \in Requests : FormOk(req'[q])
                 /\ leaked' => \E q \in Requests : Leaver(req'[q])
  BY DEF Locks
<1>. QED  BY <1>3, <1>4, <1>5

LEMMA MoveLocks ==
    ASSUME LInv, NEW r \in Requests, Moves(r)
    PROVE  Locks'
<1>0. req[r] \in State /\ TypeOK /\ Known(req[r], user) /\ FormOk(req[r])
  BY Requested DEF LInv, Locks
<1>1. ASSUME NEW pc, NEW a, Quietly(r, pc, a) PROVE Locks'
  <2>. DEFINE s == [req[r] EXCEPT !.pc = pc, !.answer = a]
  <2>1. s.pc = pc /\ s.answer = a /\ s.ask = req[r].ask
    BY <1>0 DEF State
  <2>2. /\ req' = [req EXCEPT ![r] = s] /\ pc \in {"reply", "uid", "cookie"}
        /\ req[r].pc \notin Ended \cup {"none"}
        /\ leaked' # leaked => pc = "reply" /\ a = "exists" /\ req[r].pc = "signup"
    BY <1>1 DEF Quietly
  <2>. HIDE DEF s
  <2>3. FormOk(s)
    BY <2>1, <2>2 DEF FormOk, Kinds
  <2>4. ~Leaver(req[r])
    BY <2>2 DEF Leaver
  <2>5. req[r].ask \in Ask
    BY <1>0, <2>2 DEF Known
  <2>6. leaked' => leaked \/ Leaver(s)
    BY <1>0, <2>1, <2>2, <2>5, NoneAssumption DEF Leaver, FormOk, Kinds, Ended
  <2>. QED  BY <2>2, <2>3, <2>4, <2>6, LockStep
<1>2. CASE ToInsert(r)
  <2>. DEFINE s == [req[r] EXCEPT !.pc = "insert", !.seen = Len(user)]
  <2>1. s.pc = "insert"
    BY <1>0 DEF State
  <2>2. req' = [req EXCEPT ![r] = s] /\ leaked' = leaked /\ req[r].pc \notin Ended
    BY <1>2 DEF ToInsert, Ended
  <2>. HIDE DEF s
  <2>3. FormOk(s) /\ ~Leaver(req[r])
    BY <2>1, <2>2 DEF FormOk, Leaver, Kinds
  <2>. QED  BY <2>2, <2>3, LockStep
<1>3. CASE Inserts(r)
  <2>. DEFINE s == [req[r] EXCEPT !.pc = "uid", !.answer = "success"]
  <2>1. s.pc = "uid"
    BY <1>0 DEF State
  <2>2. req' = [req EXCEPT ![r] = s] /\ leaked' = leaked /\ req[r].pc \notin Ended
    BY <1>3 DEF Inserts, Ended
  <2>. HIDE DEF s
  <2>3. FormOk(s) /\ ~Leaver(req[r])
    BY <2>1, <2>2 DEF FormOk, Leaver, Kinds
  <2>. QED  BY <2>2, <2>3, LockStep
<1>4. CASE ToUpdate(r)
  <2>. DEFINE s == [req[r] EXCEPT !.pc = "update", !.time = now,
                                  !.uid = Least(WithAccount(Account(r)))]
  <2>1. s.pc = "update"
    BY <1>0 DEF State
  <2>2. req' = [req EXCEPT ![r] = s] /\ leaked' = leaked /\ req[r].pc \notin Ended
    BY <1>4 DEF ToUpdate, Ended
  <2>. HIDE DEF s
  <2>3. FormOk(s) /\ ~Leaver(req[r])
    BY <2>1, <2>2 DEF FormOk, Leaver, Kinds
  <2>. QED  BY <2>2, <2>3, LockStep
<1>5. CASE Updates(r)
  <2>. DEFINE s == [req[r] EXCEPT !.pc = "cookie"]
  <2>1. s.pc = "cookie"
    BY <1>0 DEF State
  <2>2. req' = [req EXCEPT ![r] = s] /\ leaked' = leaked /\ req[r].pc \notin Ended
    BY <1>5 DEF Updates, Ended
  <2>. HIDE DEF s
  <2>3. FormOk(s) /\ ~Leaver(req[r])
    BY <2>1, <2>2 DEF FormOk, Leaver, Kinds
  <2>. QED  BY <2>2, <2>3, LockStep
<1>6. CASE Reads(r)
  <2>. DEFINE s == [req[r] EXCEPT !.pc = "reply",
                       !.set = user[Least(WithAccount(Account(r)))].id_cookie]
  <2>1. s.pc = "reply"
    BY <1>0 DEF State
  <2>2. req' = [req EXCEPT ![r] = s] /\ leaked' = leaked /\ req[r].pc \notin Ended
    BY <1>6 DEF Reads, Ended
  <2>. HIDE DEF s
  <2>3. FormOk(s) /\ ~Leaver(req[r])
    BY <2>1, <2>2 DEF FormOk, Leaver, Kinds
  <2>. QED  BY <2>2, <2>3, LockStep
<1>7. CASE ToPost(r)
  <2>. DEFINE s == [req[r] EXCEPT !.pc = "post", !.uid = Least(WithCookie(req[r].cookie.uuid))]
  <2>1. s.pc = "post" /\ s.answer = req[r].answer
    BY <1>0 DEF State
  <2>2. req' = [req EXCEPT ![r] = s] /\ leaked' = leaked /\ req[r].pc = "whoami"
    BY <1>7 DEF ToPost
  <2>. HIDE DEF s
  <2>3. FormOk(s) /\ ~Leaver(req[r])
    BY <1>0, <2>1, <2>2 DEF FormOk, Leaver, Kinds, Ended
  <2>. QED  BY <2>2, <2>3, LockStep
<1>8. CASE AddsPost(r)
  <2>. DEFINE s == [req[r] EXCEPT !.pc = "reply", !.answer = "bulletin"]
  <2>1. s.pc = "reply"
    BY <1>0 DEF State
  <2>2. req' = [req EXCEPT ![r] = s] /\ leaked' = leaked /\ req[r].pc \notin Ended
    BY <1>8 DEF AddsPost, Ended
  <2>. HIDE DEF s
  <2>3. FormOk(s) /\ ~Leaver(req[r])
    BY <2>1, <2>2 DEF FormOk, Leaver, Kinds
  <2>. QED  BY <2>2, <2>3, LockStep
<1>. QED  BY <1>1, <1>2, <1>3, <1>4, <1>5, <1>6, <1>7, <1>8 DEF Moves

LEMMA SendLocks ==
    ASSUME LInv, NEW r \in Requests, NEW a \in Asks[r], Send(r, a)
    PROVE  Locks'
<1>. DEFINE s == [Unsent EXCEPT !.pc = a.kind, !.ask = a, !.cookie = jar[a.browser]]
<1>1. a \in Ask
  BY WebAssumption
<1>2. s.pc = a.kind /\ s.ask = a /\ s.answer = None
  BY DEF Unsent
<1>3. req' = [req EXCEPT ![r] = s] /\ leaked' = leaked /\ req[r].pc = "none"
  BY DEF Send, At
<1>. HIDE DEF s
<1>4. FormOk(s) /\ ~Leaver(req[r])
  BY <1>1, <1>2, <1>3 DEF FormOk, Leaver, Ask, Ended
<1>. QED  BY <1>3, <1>4, LockStep

LEMMA ReplyLocks ==
    ASSUME LInv, NEW r \in Requests, Reply(r)
    PROVE  Locks'
<1>. DEFINE s == [Unsent EXCEPT !.pc = "done", !.ask = req[r].ask,
                                !.cookie = req[r].cookie, !.answer = req[r].answer]
<1>1. s.pc = "done" /\ s.ask = req[r].ask /\ s.answer = req[r].answer
  BY DEF Unsent
<1>2. req' = [req EXCEPT ![r] = s] /\ leaked' = leaked
  BY DEF Reply
<1>. HIDE DEF s
<1>3. FormOk(s) /\ (Leaver(req[r]) => Leaver(s))
  BY <1>1 DEF FormOk, Leaver, Kinds, Ended
<1>. QED  BY <1>2, <1>3, LockStep

LEMMA LockInit == Init => LInv
<1>. SUFFICES ASSUME Init PROVE LInv
  OBVIOUS
<1>1. \A r \in Requests : req[r] = Unsent
  BY DEF Init
<1>2. FormOk(Unsent) /\ leaked = FALSE
  BY DEF FormOk, Unsent, Kinds, Init
<1>. QED  BY <1>1, <1>2, InitTypes DEF LInv, Locks

LEMMA LockNext == LInv /\ [Next]_vars => LInv'
<1>. SUFFICES ASSUME LInv, [Next]_vars PROVE LInv'
  OBVIOUS
<1>1. TypeOK'
  BY NextTypes DEF LInv
<1>2. CASE UNCHANGED <<req, leaked>>
  <2>1. Locks'
    BY <1>2 DEF LInv, Locks
  <2>. QED  BY <1>1, <2>1 DEF LInv
<1>3. CASE Tick \/ UNCHANGED vars
  BY <1>2, <1>3 DEF Tick, vars
<1>4. ASSUME NEW r \in Requests, Handler(r) PROVE LInv'
  <2>1. Moves(r) \/ UNCHANGED <<req, leaked>>
    BY <1>4, HandlerMoves DEF LInv
  <2>. QED  BY <1>1, <1>2, <2>1, MoveLocks DEF LInv
<1>5. ASSUME NEW r \in Requests, Reply(r) \/ \E a \in Asks[r] : Send(r, a) PROVE Locks'
  BY <1>5, ReplyLocks, SendLocks
<1>. QED  BY <1>1, <1>2, <1>3, <1>4, <1>5 DEF Next, LInv

(* A post that is told to try again later was told so by its INSERT. *)
LEMMA PostFailure ==
    ASSUME LInv, [Next]_vars, NEW r \in Requests, PostFails(r), ~UNCHANGED vars
    PROVE  leaked \/ Others(r)
<1>1. /\ req \in [Requests -> State] /\ req[r].pc = "post" /\ req[r].answer = None
      /\ req'[r].answer = "try again later" /\ TypeOK
  BY TypeOKParts DEF LInv, Locks, Shape, PostFails, At, FormOk
<1>2. req'[r] # req[r]
  BY <1>1, NoneAssumption
<1>3. ASSUME NEW q \in Requests, NEW s, req' = [req EXCEPT ![q] = s] PROVE q = r
  BY <1>1, <1>2, <1>3
<1>4. CASE Tick
  BY <1>2, <1>4 DEF Tick
<1>5. ASSUME NEW q \in Requests, Reply(q) \/ \E a \in Asks[q] : Send(q, a) PROVE FALSE
  <2>1. req[q].pc \in {"reply", "none"} /\ \E s : req' = [req EXCEPT ![q] = s]
    BY <1>5 DEF Reply, Send, At
  <2>. QED  BY <1>1, <1>3, <2>1
<1>6. ASSUME NEW q \in Requests, Moves(q) PROVE leaked \/ Others(r)
  <2>1. \E s : req' = [req EXCEPT ![q] = s]
    BY <1>6 DEF Moves, Quietly, ToInsert, Inserts, ToUpdate, Updates, Reads, ToPost, AddsPost
  <2>2. q = r
    BY <1>3, <2>1
  <2>3. CASE AddsPost(r)
    <3>1. req'[r].answer = "bulletin"
      BY <1>1, <2>3 DEF AddsPost, State
    <3>. QED  BY <1>1, <3>1
  <2>4. CASE \E pc, a : Quietly(r, pc, a)
    <3>1. PICK pc, a : Quietly(r, pc, a)
      BY <2>4
    <3>2. req'[r].answer = a
      BY <1>1, <3>1 DEF Quietly, State
    <3>. QED  BY <1>1, <3>1, <3>2 DEF Quietly
  <2>. QED  BY <1>1, <1>6, <2>2, <2>3, <2>4 DEF Moves, ToInsert, Inserts, ToUpdate, Updates, Reads, ToPost
<1>7. ASSUME NEW q \in Requests, Handler(q) PROVE leaked \/ Others(r)
  BY <1>1, <1>2, <1>6, <1>7, HandlerMoves
<1>. QED  BY <1>4, <1>5, <1>7 DEF Next

(* With nobody else at the database, a post fails only after some signup    *)
(* was refused: no other path through the handlers leaves a lock behind.    *)
THEOREM LoneFailures == Spec => LoneFailureFollowsRefusal
<1>1. LInv /\ [Next]_vars =>
        [\A r \in Requests : PostFails(r) => Others(r) \/ \E s \in Requests : Refused(s)]_vars
  <2>. SUFFICES ASSUME LInv, [Next]_vars, ~UNCHANGED vars, NEW r \in Requests, PostFails(r)
                PROVE  Others(r) \/ \E s \in Requests : Refused(s)
    OBVIOUS
  <2>1. leaked \/ Others(r)
    BY PostFailure
  <2>2. leaked => \E s \in Requests : Refused(s)
    BY DEF LInv, Locks, Leaver, Refused
  <2>. QED  BY <2>1, <2>2
<1>. QED  BY <1>1, LockInit, LockNext, PTL DEF Spec, LoneFailureFollowsRefusal

-----------------------------------------------------------------------------
(* Whose cookie it is.  A cookie has the parity of the id it was made from, *)
(* the least id of its account, which stays the least as rows are appended. *)
RowsOf(u, a) == {i \in DOMAIN u : u[i].account = a}
Marks(u, a, c) == RowsOf(u, a) # {} /\ c % 2 = Least(RowsOf(u, a)) % 2
Marked(u, a, c) == c \in {None, 0} \/ Marks(u, a, c)

(* Tables in which request r, and no other, has written.  *)
Grows(u, w) == /\ u \in Seq(Row) /\ w \in Seq(Row) /\ Len(u) <= Len(w)
               /\ \A i \in DOMAIN u : i \in DOMAIN w /\ w[i].account = u[i].account
Alters(u, w, r) ==
    /\ Grows(u, w)
    /\ \A i \in DOMAIN w : w[i].by \in {None, r} \/ (i \in DOMAIN u /\ w[i] = u[i])

LEMMA Parity ==
    ASSUME NEW t \in Nat, NEW id \in Nat
    PROVE  NewCookie(t, id) % 2 = id % 2
<1>. DEFINE x == 2 * (t + Lifetime) + id
<1>1. CookieMod \in Nat /\ CookieMod > 0 /\ CookieMod % 2 = 0 /\ Lifetime \in Nat
  BY WebAssumption
<1>2. PICK h \in Nat : CookieMod = 2 * h
  <2>1. CookieMod = 2 * (CookieMod \div 2) /\ CookieMod \div 2 \in Nat
    BY <1>1
  <2>. QED  BY <2>1
<1>3. x \in Nat /\ x % 2 = id % 2
  BY <1>1
<1>. HIDE DEF x
<1>. DEFINE q == x \div CookieMod
            rest == x % CookieMod
<1>4. rest \in Nat /\ q \in Int /\ x = CookieMod * q + rest
  <2>1. rest \in Nat
    BY <1>1, <1>3
  <2>2. q \in Int
    BY <1>1, <1>3
  <2>3. x = CookieMod * q + rest
    BY <1>1, <1>3
  <2>. QED  BY <2>1, <2>2, <2>3
<1>. HIDE DEF q, rest
<1>5. PICK k \in Int : k = h * q
  BY <1>2, <1>4
<1>6. x = 2 * k + rest
  BY <1>2, <1>4, <1>5
<1>7. rest % 2 = x % 2
  BY <1>3, <1>4, <1>6
<1>. QED  BY <1>3, <1>7 DEF NewCookie, x, rest

LEMMA LeastRow ==
    ASSUME NEW u \in Seq(Row), NEW a, RowsOf(u, a) # {}
    PROVE  /\ Least(RowsOf(u, a)) \in DOMAIN u /\ u[Least(RowsOf(u, a))].account = a
           /\ Least(RowsOf(u, a)) \in 1..Len(u)
           /\ \A i \in DOMAIN u : u[i].account = a => Least(RowsOf(u, a)) <= i
<1>1. RowsOf(u, a) \in SUBSET Nat /\ DOMAIN u = 1..Len(u)
  BY DEF RowsOf
<1>2. Least(RowsOf(u, a)) \in RowsOf(u, a) /\ \A j \in RowsOf(u, a) : Least(RowsOf(u, a)) <= j
  BY <1>1, LeastIsThere
<1>. HIDE DEF Least
<1>. QED  BY <1>1, <1>2 DEF RowsOf

LEMMA LeastStays ==
    ASSUME NEW u, NEW w, Grows(u, w), NEW a, RowsOf(u, a) # {}
    PROVE  RowsOf(w, a) # {} /\ Least(RowsOf(w, a)) = Least(RowsOf(u, a))
<1>. DEFINE l == Least(RowsOf(u, a))
            m == Least(RowsOf(w, a))
<1>1. u \in Seq(Row) /\ w \in Seq(Row)
  BY DEF Grows
<1>2. /\ l \in DOMAIN u /\ u[l].account = a /\ l \in 1..Len(u)
      /\ \A i \in DOMAIN u : u[i].account = a => l <= i
  BY <1>1, LeastRow
<1>. HIDE DEF l
<1>3. l \in RowsOf(w, a)
  BY <1>2 DEF RowsOf, Grows
<1>4. /\ m \in DOMAIN w /\ w[m].account = a /\ m \in 1..Len(w)
      /\ \A i \in DOMAIN w : w[i].account = a => m <= i
  BY <1>1, <1>3, LeastRow
<1>. HIDE DEF m
<1>5. m <= l
  BY <1>3, <1>4 DEF RowsOf
<1>6. m \in DOMAIN u
  BY <1>1, <1>2, <1>4, <1>5
<1>7. l <= m
  BY <1>2, <1>4, <1>6 DEF Grows
<1>8. l = m
  BY <1>2, <1>4, <1>5, <1>7
<1>. QED  BY <1>3, <1>8 DEF l, m

LEMMA MarkStays ==
    ASSUME NEW u, NEW w, Grows(u, w), NEW a, NEW c, Marked(u, a, c)
    PROVE  Marked(w, a, c)
BY LeastStays DEF Marked, Marks

(* Of two users, one cookie marks one account. *)
LEMMA SameAccount ==
    ASSUME NEW u \in Seq(Row), Len(u) <= 2, NEW a, NEW b, NEW c, Marks(u, a, c), Marks(u, b, c)
    PROVE  a = b
<1>1. /\ Least(RowsOf(u, a)) \in 1..Len(u) /\ u[Least(RowsOf(u, a))].account = a
      /\ Least(RowsOf(u, b)) \in 1..Len(u) /\ u[Least(RowsOf(u, b))].account = b
  BY LeastRow DEF Marks
<1>2. Least(RowsOf(u, a)) % 2 = Least(RowsOf(u, b)) % 2
  BY DEF Marks
<1>3. Len(u) \in Nat
  OBVIOUS
<1>. HIDE DEF Least
<1>4. ASSUME NEW i \in 1..Len(u), NEW j \in 1..Len(u), i % 2 = j % 2 PROVE i = j
  <2>1. i \in {1, 2} /\ j \in {1, 2}
    BY <1>3
  <2>. QED  BY <1>4, <2>1
<1>5. Least(RowsOf(u, a)) = Least(RowsOf(u, b))
  BY <1>1, <1>2, <1>4
<1>. QED  BY <1>1, <1>5

(* No cookie wraps round to 0, the cookie of a new row: so it is of two     *)
(* users with 32 bits until January 2038.                                   *)
NoWrap == 2 * (MaxTime + Lifetime) + 2 < CookieMod

(* Every cookie there is marks its account: in the rows, *)
RowOk(u, i) ==
    /\ u[i].id_cookie = 0 \/ Marks(u, u[i].account, u[i].id_cookie)
    /\ u[i].by # None => /\ NoWrap /\ Len(u) <= 2 => u[i].id_cookie # 0
                         /\ \A l \in DOMAIN u : l < i /\ u[l].account = u[i].account =>
                                u[l].by = u[i].by /\ u[l].id_cookie = u[i].id_cookie

(* with the requests, where the id a handler learned is the one that made   *)
(* or marks the cookie, and what a request wrote stays until another does,  *)
Wrote(s, r, u) ==
    \A i \in DOMAIN u : u[i].by = r =>
        /\ s.pc \in Ended \cup {"cookie"}
        /\ s.set # None /\ u[i].account = s.ask.account => u[i].id_cookie = s.set
RequestOk(s, r, u) ==
    /\ Marked(u, s.cookie.account, s.cookie.uuid)
    /\ Marked(u, s.ask.account, s.set)
    /\ s.set # None => s.pc = "reply"
    /\ s.pc = "update" => s.uid = Least(RowsOf(u, s.ask.account)) /\ s.time <= MaxTime
    /\ s.pc = "post" /\ Len(u) <= 2 =>
           s.cookie.uuid = 0 \/ u[s.uid].account = s.cookie.account
    /\ Wrote(s, r, u)

(* and in the browsers, whose cookies ended requests have set. *)
JarOk(c, q, u) ==
    /\ Marked(u, c.account, c.uuid)
    /\ c.by # None => /\ q[c.by].pc = "done"
                      /\ \A i \in DOMAIN u : u[i].by = c.by /\ u[i].account = c.account =>
                             u[i].id_cookie = c.uuid

PostOk(p, q, u) ==
    /\ q[p.from].pc \in Ended
    /\ Len(u) <= 2 =>
           q[p.from].cookie.uuid = 0 \/ u[p.user_id].account = q[p.from].cookie.account

Sessions == /\ now <= MaxTime
            /\ \A i \in DOMAIN user : RowOk(user, i)
            /\ \A r \in Requests : RequestOk(req[r], r, user)
            /\ \A b \in Browsers : JarOk(jar[b], req, user)
            /\ \A i \in DOMAIN bulletin : PostOk(bulletin[i], req, user)
SInv == TypeOK /\ Sessions

LEMMA Parts ==
    ASSUME SInv
    PROVE  /\ TypeOK /\ Sessions /\ user \in Seq(Row) /\ bulletin \in Seq(PostRow) /\ Authors
           /\ now \in Nat /\ jar \in [Browsers -> Cookie] /\ req \in [Requests -> State]
           /\ \A r \in Requests : Known(req[r], user)
           /\ None \notin Requests /\ None \notin Nat
BY TypeOKParts, WebAssumption DEF SInv, Shape

(* What request q knows is not changed by what request r writes. *)
LEMMA OthersOk ==
    ASSUME NEW u, NEW w, NEW r \in Requests, NEW q \in Requests, q # r, Alters(u, w, r),
           NEW s \in State, Known(s, u), RequestOk(s, q, u)
    PROVE  RequestOk(s, q, w)
<1>1. Grows(u, w) /\ u \in Seq(Row) /\ w \in Seq(Row) /\ None \notin Requests
  BY WebAssumption DEF Alters, Grows
<1>2. Marked(w, s.cookie.account, s.cookie.uuid) /\ Marked(w, s.ask.account, s.set)
  BY <1>1, MarkStays DEF RequestOk
<1>3. s.pc = "update" => s.uid = Least(RowsOf(w, s.ask.account)) /\ s.time <= MaxTime
  <2>. SUFFICES ASSUME s.pc = "update" PROVE s.uid = Least(RowsOf(w, s.ask.account))
    BY DEF RequestOk
  <2>1. RowsOf(u, s.ask.account) # {}
    BY DEF Known, RowsOf
  <2>. QED  BY <1>1, <2>1, LeastStays DEF RequestOk
<1>4. s.pc = "post" /\ Len(w) <= 2 =>
           s.cookie.uuid = 0 \/ w[s.uid].account = s.cookie.account
  <2>. SUFFICES ASSUME s.pc = "post", Len(w) <= 2
                PROVE  s.cookie.uuid = 0 \/ w[s.uid].account = s.cookie.account
    OBVIOUS
  <2>1. s.uid \in DOMAIN u
    BY DEF Known
  <2>2. w[s.uid].account = u[s.uid].account
    BY <2>1 DEF Alters, Grows
  <2>3. Len(u) <= 2
    BY <1>1 DEF Grows
  <2>. QED  BY <2>2, <2>3 DEF RequestOk
<1>5. Wrote(s, q, w)
  <2>. SUFFICES ASSUME NEW i \in DOMAIN w, w[i].by = q
                PROVE  /\ s.pc \in Ended \cup {"cookie"}
                       /\ s.set # None /\ w[i].account = s.ask.account => w[i].id_cookie = s.set
    BY DEF Wrote
  <2>1. i \in DOMAIN u /\ w[i] = u[i]
    BY <1>1 DEF Alters
  <2>. QED  BY <2>1 DEF RequestOk, Wrote
<1>6. s.set # None => s.pc = "reply"
  BY DEF RequestOk
<1>. QED  BY <1>2, <1>3, <1>4, <1>5, <1>6 DEF RequestOk

LEMMA JarsOk ==
    ASSUME SInv, NEW r \in Requests, NEW s, req' = [req EXCEPT ![r] = s],
           Alters(user, user', r), req[r].pc # "done", NEW b \in Browsers
    PROVE  JarOk(jar[b], req', user')
<1>. DEFINE c == jar[b]
<1>1. JarOk(c, req, user) /\ c \in Cookie /\ None \notin Requests /\ req \in [Requests -> State]
  BY Parts DEF Sessions
<1>2. Marked(user', c.account, c.uuid)
  BY <1>1, MarkStays DEF JarOk, Alters
<1>3. ASSUME c.by # None
      PROVE  /\ req'[c.by].pc = "done"
             /\ \A i \in DOMAIN user' : user'[i].by = c.by /\ user'[i].account = c.account =>
                    user'[i].id_cookie = c.uuid
  <2>1. c.by \in Requests /\ c.by # r
    BY <1>1, <1>3 DEF JarOk, Cookie
  <2>2. req'[c.by] = req[c.by]
    BY <1>1, <2>1
  <2>3. ASSUME NEW i \in DOMAIN user', user'[i].by = c.by
        PROVE  i \in DOMAIN user /\ user'[i] = user[i]
    BY <1>3, <2>1, <2>3 DEF Alters
  <2>. QED  BY <1>1, <1>3, <2>2, <2>3 DEF JarOk
<1>. QED  BY <1>2, <1>3 DEF JarOk

LEMMA PostsOk ==
    ASSUME SInv, NEW r \in Requests, NEW s, req' = [req EXCEPT ![r] = s],
           Alters(user, user', r), req[r].pc \in Ended => s.pc \in Ended /\ s.cookie = req[r].cookie,
           NEW i \in DOMAIN bulletin
    PROVE  PostOk(bulletin[i], req', user')
<1>. DEFINE p == bulletin[i]
<1>1. PostOk(p, req, user) /\ p \in PostRow /\ req \in [Requests -> State]
      /\ p.user_id \in DOMAIN user /\ user \in Seq(Row)
  BY Parts DEF Sessions, Authors
<1>2. p.from \in Requests
  BY <1>1 DEF PostRow
<1>3. req'[p.from].pc \in Ended /\ req'[p.from].cookie = req[p.from].cookie
  BY <1>1, <1>2 DEF PostOk
<1>4. user'[p.user_id].account = user[p.user_id].account /\ (Len(user') <= 2 => Len(user) <= 2)
  BY <1>1 DEF Alters, Grows
<1>. QED  BY <1>1, <1>3, <1>4 DEF PostOk

(* So a step of request r need only be right about r, its rows, and a       *)
(* cookie it sets or a post it adds.                                        *)
LEMMA SessionMove ==
    ASSUME SInv, NEW r \in Requests, NEW s \in State, req' = [req EXCEPT ![r] = s],
           Alters(user, user', r), \A i \in DOMAIN user' : RowOk(user', i),
           RequestOk(s, r, user'), req[r].pc # "done",
           req[r].pc \in Ended => s.pc \in Ended /\ s.cookie = req[r].cookie,
           now' = now,
           \A b \in Browsers : jar'[b] = jar[b] \/ JarOk(jar'[b], req', user'),
           \A i \in DOMAIN bulletin' : \/ i \in DOMAIN bulletin /\ bulletin'[i] = bulletin[i]
                                       \/ PostOk(bulletin'[i], req', user')
    PROVE  Sessions'
<1>1. req \in [Requests -> State] /\ \A q \in Requests : Known(req[q], user)
      /\ now <= MaxTime
  BY Parts DEF Sessions
<1>2. ASSUME NEW q \in Requests PROVE RequestOk(req'[q], q, user')
  <2>1. CASE q = r
    BY <1>1, <2>1
  <2>2. CASE q # r
    <3>1. req'[q] = req[q] /\ req[q] \in State /\ RequestOk(req[q], q, user)
      BY <1>1, <2>2, Parts DEF Sessions
    <3>. QED  BY <1>1, <2>2, <3>1, OthersOk
  <2>. QED  BY <2>1, <2>2
<1>3. ASSUME NEW b \in Browsers PROVE JarOk(jar'[b], req', user')
  <2>1. JarOk(jar[b], req', user')
    BY JarsOk
  <2>. QED  BY <2>1
<1>4. ASSUME NEW i \in DOMAIN bulletin' PROVE PostOk(bulletin'[i], req', user')
  <2>1. i \in DOMAIN bulletin => PostOk(bulletin[i], req', user')
    BY PostsOk
  <2>. QED  BY <2>1
<1>5. Sessions' <=> /\ now' <= MaxTime
                    /\ \A i \in DOMAIN user' : RowOk(user', i)
                    /\ \A q \in Requests : RequestOk(req'[q], q, user')
                    /\ \A b \in Browsers : JarOk(jar'[b], req', user')
                    /\ \A i \in DOMAIN bulletin' : PostOk(bulletin'[i], req', user')
  BY DEF Sessions, RowOk, RequestOk, JarOk, PostOk, Wrote
<1>. QED  BY <1>1, <1>2, <1>3, <1>4, <1>5

(* Most steps do neither. *)
LEMMA SessionStep ==
    ASSUME SInv, NEW r \in Requests, NEW s \in State, req' = [req EXCEPT ![r] = s],
           Alters(user, user', r), \A i \in DOMAIN user' : RowOk(user', i),
           RequestOk(s, r, user'), req[r].pc # "done",
           req[r].pc \in Ended => s.pc \in Ended /\ s.cookie = req[r].cookie,
           now' = now, jar' = jar, bulletin' = bulletin
    PROVE  Sessions'
BY SessionMove

(* Nothing is written. *)
LEMMA Unaltered ==
    ASSUME SInv, NEW r, user' = user
    PROVE  Alters(user, user', r) /\ \A i \in DOMAIN user' : RowOk(user', i)
<1>1. user \in Seq(Row) /\ (\A i \in DOMAIN user : RowOk(user, i)) /\ Len(user) \in Nat
  BY Parts DEF Sessions
<1>2. Alters(user, user, r)
  BY <1>1 DEF Alters, Grows
<1>. QED  BY <1>1, <1>2

(* A request that writes nothing keeps its cookie and what it has set; it   *)
(* leaves a place after its UPDATE only for another one there.              *)
LEMMA ReadStep ==
    ASSUME SInv, NEW r \in Requests, NEW s \in State, req' = [req EXCEPT ![r] = s],
           req[r].pc \notin Ended, s.cookie = req[r].cookie, s.ask = req[r].ask, s.set = req[r].set,
           s.pc \notin {"update", "post"}, req[r].pc = "cookie" => s.pc \in Ended,
           UNCHANGED <<tables, jar, now>>
    PROVE  Sessions'
<1>1. RequestOk(req[r], r, user) /\ user' = user /\ bulletin' = bulletin
  BY Parts DEF Sessions, tables
<1>2. Wrote(s, r, user)
  BY <1>1 DEF RequestOk, Wrote, Ended
<1>3. RequestOk(s, r, user')
  BY <1>1, <1>2 DEF RequestOk, Ended
<1>. QED  BY <1>1, <1>3, Unaltered, SessionStep DEF Ended

LEMMA QuietSessions ==
    ASSUME SInv, NEW r \in Requests, NEW pc, NEW a, Quietly(r, pc, a)
    PROVE  Sessions'
<1>. DEFINE s == [req[r] EXCEPT !.pc = pc, !.answer = a]
<1>1. req[r] \in State
  BY Parts
<1>2. /\ pc \in {"reply", "uid", "cookie"} /\ a \in Answers /\ req' = [req EXCEPT ![r] = s]
      /\ req[r].pc \notin Ended /\ (pc = "reply" \/ req[r].pc # "cookie")
      /\ UNCHANGED <<tables, jar, now>>
  BY DEF Quietly
<1>3. /\ s \in State /\ s.cookie = req[r].cookie /\ s.ask = req[r].ask /\ s.set = req[r].set
      /\ s.pc = pc
  BY <1>1, <1>2 DEF State, Pcs
<1>. HIDE DEF s
<1>4. s.pc \notin {"update", "post"} /\ (req[r].pc = "cookie" => s.pc \in Ended)
  BY <1>2, <1>3 DEF Ended
<1>. QED  BY <1>2, <1>3, <1>4, ReadStep

LEMMA ToInsertSessions ==
    ASSUME SInv, NEW r \in Requests, ToInsert(r)
    PROVE  Sessions'
<1>. DEFINE s == [req[r] EXCEPT !.pc = "insert", !.seen = Len(user)]
<1>1. req[r] \in State /\ Len(user) \in Nat
  BY Parts
<1>2. req' = [req EXCEPT ![r] = s] /\ req[r].pc = "signup" /\ UNCHANGED <<tables, jar, now>>
  BY DEF ToInsert
<1>3. /\ s \in State /\ s.cookie = req[r].cookie /\ s.ask = req[r].ask /\ s.set = req[r].set
      /\ s.pc = "insert"
  BY <1>1 DEF State, Pcs
<1>. HIDE DEF s
<1>. QED  BY <1>2, <1>3, ReadStep DEF Ended

(* The new row has cookie 0, and its id is greater than those there are. *)
LEMMA InsertsSessions ==
    ASSUME SInv, NEW r \in Requests, Inserts(r)
    PROVE  Sessions'
<1>. DEFINE s == [req[r] EXCEPT !.pc = "uid", !.answer = "success"]
            row == NewRow(r)
<1>1. /\ req[r] \in State /\ Known(req[r], user) /\ user \in Seq(Row) /\ RequestOk(req[r], r, user)
      /\ \A i \in DOMAIN user : RowOk(user, i)
  BY Parts DEF Sessions
<1>2. /\ req' = [req EXCEPT ![r] = s] /\ req[r].pc = "insert" /\ user' = Append(user, row)
      /\ UNCHANGED <<bulletin, jar, now>>
  BY DEF Inserts
<1>3. row \in Row
  BY <1>1, <1>2, WebAssumption DEF Known, Row, NewRow, Account, Ask, Cookies
<1>4. row.by = None /\ row.id_cookie = 0
  BY DEF NewRow
<1>. HIDE DEF row
<1>5. /\ user' \in Seq(Row) /\ Len(user) \in Nat /\ Len(user') = Len(user) + 1
      /\ DOMAIN user = 1..Len(user) /\ DOMAIN user' = 1..(Len(user) + 1)
      /\ user'[Len(user) + 1] = row
      /\ \A i \in DOMAIN user : i \in DOMAIN user' /\ user'[i] = user[i]
  BY <1>1, <1>2, <1>3
<1>6. \A i \in DOMAIN user' : i \in DOMAIN user \/ i = Len(user) + 1
  BY <1>5
<1>7. Grows(user, user')
  BY <1>1, <1>5 DEF Grows
<1>8. Alters(user, user', r)
  BY <1>4, <1>5, <1>6, <1>7 DEF Alters
<1>9. ASSUME NEW i \in DOMAIN user' PROVE RowOk(user', i)
  <2>1. CASE i \in DOMAIN user
    <3>1. user'[i] = user[i] /\ RowOk(user, i) /\ (Len(user') <= 2 => Len(user) <= 2)
      BY <1>1, <1>5, <2>1
    <3>2. user'[i].id_cookie = 0 \/ Marks(user', user'[i].account, user'[i].id_cookie)
      BY <1>7, <3>1, LeastStays DEF RowOk, Marks
    <3>3. ASSUME NEW l \in DOMAIN user', l < i PROVE l \in DOMAIN user /\ user'[l] = user[l]
      BY <1>5, <2>1, <3>3
    <3>. QED  BY <3>1, <3>2, <3>3 DEF RowOk
  <2>2. CASE i = Len(user) + 1
    BY <1>4, <1>5, <2>2 DEF RowOk
  <2>. QED  BY <1>6, <2>1, <2>2
<1>10. /\ s \in State /\ s.cookie = req[r].cookie /\ s.ask = req[r].ask /\ s.set = req[r].set
       /\ s.pc = "uid"
  BY <1>1 DEF State, Pcs, Answers
<1>. HIDE DEF s
<1>11. Wrote(s, r, user')
  <2>1. \A i \in DOMAIN user : user[i].by # r
    BY <1>1, <1>2 DEF RequestOk, Wrote, Ended
  <2>2. None # r
    BY WebAssumption
  <2>. QED  BY <1>4, <1>5, <1>6, <2>1, <2>2 DEF Wrote
<1>12. RequestOk(s, r, user')
  <2>1. req[r].set = None
    BY <1>1, <1>2 DEF RequestOk
  <2>2. Marked(user', s.cookie.account, s.cookie.uuid) /\ Marked(user', s.ask.account, s.set)
    BY <1>1, <1>7, <1>10, MarkStays DEF RequestOk
  <2>. QED  BY <1>10, <1>11, <2>1, <2>2 DEF RequestOk
<1>. QED  BY <1>2, <1>8, <1>9, <1>10, <1>12, SessionStep DEF Ended

LEMMA ToUpdateSessions ==
    ASSUME SInv, NEW r \in Requests, ToUpdate(r)
    PROVE  Sessions'
<1>. DEFINE id == Least(WithAccount(Account(r)))
            s == [req[r] EXCEPT !.pc = "update", !.time = now, !.uid = id]
<1>1. /\ req[r] \in State /\ Known(req[r], user) /\ RequestOk(req[r], r, user) /\ now <= MaxTime
      /\ now \in Nat /\ user \in Seq(Row)
  BY Parts DEF Sessions
<1>2. req' = [req EXCEPT ![r] = s] /\ req[r].pc = "uid" /\ UNCHANGED <<tables, jar, now>>
  BY DEF ToUpdate
<1>3. id = Least(RowsOf(user, req[r].ask.account)) /\ RowsOf(user, req[r].ask.account) # {}
  BY <1>1, <1>2 DEF WithAccount, Account, RowsOf, Known
<1>4. id \in Nat
  BY <1>1, <1>3, LeastRow
<1>. HIDE DEF id
<1>5. /\ s \in State /\ s.cookie = req[r].cookie /\ s.ask = req[r].ask /\ s.set = req[r].set
      /\ s.pc = "update" /\ s.uid = id /\ s.time = now
  BY <1>1, <1>4 DEF State, Pcs
<1>. HIDE DEF s
<1>6. RequestOk(s, r, user)
  BY <1>1, <1>2, <1>3, <1>5 DEF RequestOk, Wrote, Ended
<1>7. user' = user /\ bulletin' = bulletin /\ RequestOk(s, r, user')
  BY <1>2, <1>6 DEF tables
<1>. QED  BY <1>2, <1>5, <1>7, Unaltered, SessionStep DEF Ended

(* The UPDATE gives all rows of its account one cookie, which marks it. *)
LEMMA UpdatesSessions ==
    ASSUME SInv, NEW r \in Requests, Updates(r)
    PROVE  Sessions'
<1>. DEFINE s == [req[r] EXCEPT !.pc = "cookie"]
            a == Account(r)
            c == NewCookie(req[r].time, req[r].uid)
<1>1. /\ req[r] \in State /\ Known(req[r], user) /\ user \in Seq(Row) /\ RequestOk(req[r], r, user)
      /\ \A i \in DOMAIN user : RowOk(user, i)
  BY Parts DEF Sessions
<1>2. /\ req' = [req EXCEPT ![r] = s] /\ req[r].pc = "update"
      /\ user' = [i \in DOMAIN user |-> IF user[i].account = a
                                        THEN [user[i] EXCEPT !.id_cookie = c, !.by = r]
                                        ELSE user[i]]
      /\ UNCHANGED <<bulletin, jar, now>>
  BY DEF Updates
<1>3. /\ req[r].time \in Nat /\ req[r].time <= MaxTime /\ req[r].uid \in DOMAIN user
      /\ req[r].uid \in Nat /\ req[r].uid = Least(RowsOf(user, a)) /\ RowsOf(user, a) # {}
  <2>1. req[r].time \in Nat /\ req[r].uid \in DOMAIN user /\ RowsOf(user, a) # {}
    BY <1>1, <1>2 DEF Known, Account, RowsOf
  <2>2. req[r].time <= MaxTime /\ req[r].uid = Least(RowsOf(user, a))
    BY <1>1, <1>2 DEF RequestOk, Account
  <2>3. DOMAIN user \subseteq Nat
    BY <1>1
  <2>. QED  BY <2>1, <2>2, <2>3
<1>4. c \in Cookies /\ c % 2 = Least(RowsOf(user, a)) % 2 /\ c \in Nat
  <2>1. c \in Cookies
    BY <1>3, CookieRange
  <2>2. c % 2 = req[r].uid % 2
    BY <1>3, Parity
  <2>3. Cookies \subseteq Nat
    BY WebAssumption DEF Cookies
  <2>. HIDE DEF c
  <2>. QED  BY <1>3, <2>1, <2>2, <2>3
<1>5. NoWrap /\ Len(user) <= 2 => c # 0
  <2>. SUFFICES ASSUME NoWrap, Len(user) <= 2 PROVE c # 0
    OBVIOUS
  <2>. DEFINE x == 2 * (req[r].time + Lifetime) + req[r].uid
  <2>1. /\ req[r].uid >= 1 /\ req[r].uid <= 2 /\ Lifetime \in Nat /\ MaxTime \in Nat
        /\ CookieMod \in Nat
    BY <1>1, <1>3, WebAssumption
  <2>2. x \in Nat /\ x > 0 /\ x < CookieMod
    <3>1. 2 * (MaxTime + Lifetime) + 2 < CookieMod
      BY DEF NoWrap
    <3>2. \A time \in Nat, uid \in Nat : time <= MaxTime /\ uid >= 1 /\ uid <= 2 =>
            LET y == 2 * (time + Lifetime) + uid IN y \in Nat /\ y > 0 /\ y < CookieMod
      BY <2>1, <3>1
    <3>. QED  BY <1>3, <2>1, <3>2
  <2>. HIDE DEF x
  <2>3. x % CookieMod = x
    BY <2>1, <2>2
  <2>. QED  BY <2>2, <2>3 DEF NewCookie, x
<1>. HIDE DEF c
<1>6. /\ DOMAIN user = 1..Len(user) /\ Len(user) \in Nat /\ DOMAIN user' = DOMAIN user
      /\ \A i \in DOMAIN user : user[i] \in Row
  <2>1. DOMAIN user' = DOMAIN user
    BY <1>2
  <2>. QED  BY <1>1, <2>1
<1>7. ASSUME NEW i \in DOMAIN user
      PROVE  /\ user'[i] \in Row /\ user'[i].account = user[i].account
             /\ user[i].account = a => user'[i].id_cookie = c /\ user'[i].by = r
             /\ user[i].account # a => user'[i] = user[i]
  <2>1. user[i] \in Row
    BY <1>6
  <2>2. CASE user[i].account = a
    <3>1. user'[i] = [user[i] EXCEPT !.id_cookie = c, !.by = r]
      BY <1>2, <2>2
    <3>. QED  BY <1>4, <2>1, <2>2, <3>1 DEF Row
  <2>3. CASE user[i].account # a
    BY <1>2, <2>1, <2>3
  <2>. QED  BY <2>2, <2>3
<1>8. user' \in Seq(Row) /\ Len(user') = Len(user)
  <2>1. user' \in [1..Len(user) -> Row]
    BY <1>2, <1>6, <1>7
  <2>. QED  BY <1>6, <2>1
<1>9. Grows(user, user')
  BY <1>1, <1>6, <1>7, <1>8 DEF Grows
<1>10. Alters(user, user', r)
  BY <1>6, <1>7, <1>9 DEF Alters
<1>11. RowsOf(user', a) # {} /\ Marks(user', a, c)
  BY <1>3, <1>4, <1>9, LeastStays DEF Marks
<1>12. ASSUME NEW i \in DOMAIN user' PROVE RowOk(user', i)
  <2>1. i \in DOMAIN user /\ RowOk(user, i)
    BY <1>1, <1>6
  <2>2. CASE user[i].account = a
    <3>1. /\ user'[i].account = a /\ user'[i].id_cookie = c /\ user'[i].by = r
      BY <1>7, <2>1, <2>2
    <3>2. ASSUME NEW l \in DOMAIN user', user'[l].account = a
          PROVE  user'[l].id_cookie = c /\ user'[l].by = r
      BY <1>6, <1>7, <3>2
    <3>. QED  BY <1>5, <1>8, <1>11, <3>1, <3>2 DEF RowOk
  <2>3. CASE user[i].account # a
    <3>1. user'[i] = user[i]
      BY <1>7, <2>1, <2>3
    <3>2. user'[i].id_cookie = 0 \/ Marks(user', user'[i].account, user'[i].id_cookie)
      BY <1>9, <2>1, <3>1, LeastStays DEF RowOk, Marks
    <3>3. ASSUME NEW l \in DOMAIN user', user'[l].account = user'[i].account
          PROVE  l \in DOMAIN user /\ user'[l] = user[l]
      BY <1>6, <1>7, <2>3, <3>1, <3>3
    <3>. QED  BY <1>8, <2>1, <3>1, <3>2, <3>3 DEF RowOk
  <2>. QED  BY <2>2, <2>3
<1>13. /\ s \in State /\ s.cookie = req[r].cookie /\ s.ask = req[r].ask /\ s.set = req[r].set
       /\ s.pc = "cookie"
  BY <1>1 DEF State, Pcs
<1>. HIDE DEF s
<1>14. RequestOk(s, r, user')
  <2>1. s.set = None
    BY <1>1, <1>2, <1>13 DEF RequestOk
  <2>2. Wrote(s, r, user')
    BY <1>13, <2>1 DEF Wrote
  <2>. QED  BY <1>1, <1>9, <1>13, <2>1, <2>2, MarkStays DEF RequestOk
<1>. QED  BY <1>2, <1>10, <1>12, <1>13, <1>14, SessionStep DEF Ended

(* What is read back is the cookie of the least row, which all rows of its  *)
(* account share that were there at their last UPDATE.                      *)
LEMMA ReadsSessions ==
    ASSUME SInv, NEW r \in Requests, Reads(r)
    PROVE  Sessions'
<1>. DEFINE l == Least(WithAccount(Account(r)))
            s == [req[r] EXCEPT !.pc = "reply", !.set = user[l].id_cookie]
<1>1. /\ req[r] \in State /\ Known(req[r], user) /\ user \in Seq(Row) /\ RequestOk(req[r], r, user)
      /\ \A i \in DOMAIN user : RowOk(user, i)
  BY Parts DEF Sessions
<1>2. req' = [req EXCEPT ![r] = s] /\ req[r].pc = "cookie" /\ UNCHANGED <<tables, jar, now>>
  BY DEF Reads
<1>3. l = Least(RowsOf(user, req[r].ask.account)) /\ RowsOf(user, req[r].ask.account) # {}
  BY <1>1, <1>2 DEF WithAccount, Account, RowsOf, Known
<1>4. /\ l \in DOMAIN user /\ user[l].account = req[r].ask.account
      /\ \A i \in DOMAIN user : user[i].account = req[r].ask.account => l <= i
  BY <1>1, <1>3, LeastRow
<1>. HIDE DEF l
<1>5. user[l] \in Row /\ user[l].id_cookie \in Cookies /\ RowOk(user, l)
  <2>1. user[l] \in Row
    BY <1>1, <1>4
  <2>. QED  BY <1>1, <1>4, <2>1 DEF Row
<1>6. /\ s \in State /\ s.cookie = req[r].cookie /\ s.ask = req[r].ask
      /\ s.set = user[l].id_cookie /\ s.pc = "reply"
  BY <1>1, <1>5 DEF State, Pcs
<1>. HIDE DEF s
<1>7. Marked(user, s.ask.account, s.set)
  BY <1>4, <1>5, <1>6 DEF RowOk, Marked
<1>8. Wrote(s, r, user)
  <2>. SUFFICES ASSUME NEW i \in DOMAIN user, user[i].by = r,
                       user[i].account = s.ask.account
                PROVE  user[i].id_cookie = s.set
    BY <1>6 DEF Wrote, Ended
  <2>1. l <= i /\ i \in Nat /\ l \in Nat
    BY <1>1, <1>4, <1>6
  <2>2. CASE l = i
    BY <1>6, <2>2
  <2>3. CASE l < i
    <3>1. RowOk(user, i) /\ r # None
      BY <1>1, WebAssumption
    <3>. QED  BY <1>4, <1>6, <2>3, <3>1 DEF RowOk
  <2>. QED  BY <2>1, <2>2, <2>3
<1>9. RequestOk(s, r, user)
  BY <1>1, <1>6, <1>7, <1>8 DEF RequestOk
<1>10. user' = user /\ bulletin' = bulletin /\ RequestOk(s, r, user')
  BY <1>2, <1>9 DEF tables
<1>. QED  BY <1>2, <1>6, <1>10, Unaltered, SessionStep DEF Ended

(* The row found by a cookie is of the account the cookie was set for. *)
LEMMA FoundByCookie ==
    ASSUME SInv, NEW a, NEW c \in Cookies \cup {None}, c # 0, Marked(user, a, c),
           WithCookie(c) # {}, Len(user) <= 2
    PROVE  user[Least(WithCookie(c))].account = a
<1>. DEFINE j == Least(WithCookie(c))
<1>1. user \in Seq(Row) /\ \A i \in DOMAIN user : RowOk(user, i)
  BY Parts DEF Sessions
<1>2. Shape
  BY TypeOKParts DEF SInv
<1>3. j \in WithCookie(c)
  BY <1>2, SelectedRows
<1>. HIDE DEF j
<1>4. j \in DOMAIN user /\ user[j].id_cookie = c /\ user[j] \in Row
  BY <1>1, <1>3 DEF WithCookie
<1>5. c \in Cookies /\ c # None
  BY <1>4, WebAssumption DEF Row, Cookies
<1>6. Marks(user, a, c) /\ Marks(user, user[j].account, c)
  BY <1>1, <1>4, <1>5 DEF RowOk, Marked
<1>. QED  BY <1>1, <1>6, SameAccount DEF j

LEMMA ToPostSessions ==
    ASSUME SInv, NEW r \in Requests, ToPost(r)
    PROVE  Sessions'
<1>. DEFINE j == Least(WithCookie(req[r].cookie.uuid))
            s == [req[r] EXCEPT !.pc = "post", !.uid = j]
<1>1. /\ req[r] \in State /\ user \in Seq(Row) /\ RequestOk(req[r], r, user)
      /\ req[r].cookie \in Cookie
  BY Parts DEF Sessions, State
<1>2. /\ req' = [req EXCEPT ![r] = s] /\ req[r].pc = "whoami" /\ UNCHANGED <<tables, jar, now>>
      /\ WithCookie(req[r].cookie.uuid) # {}
  BY DEF ToPost
<1>3. j \in Nat
  <2>1. Shape
    BY TypeOKParts DEF SInv
  <2>. QED  BY <1>2, <2>1, SelectedRows
<1>4. Len(user) <= 2 => req[r].cookie.uuid = 0 \/ user[j].account = req[r].cookie.account
  BY <1>1, <1>2, FoundByCookie DEF RequestOk, Cookie
<1>. HIDE DEF j
<1>5. /\ s \in State /\ s.cookie = req[r].cookie /\ s.ask = req[r].ask /\ s.set = req[r].set
      /\ s.pc = "post" /\ s.uid = j
  BY <1>1, <1>3 DEF State, Pcs
<1>. HIDE DEF s
<1>6. RequestOk(s, r, user)
  BY <1>1, <1>2, <1>4, <1>5 DEF RequestOk, Wrote, Ended
<1>7. user' = user /\ bulletin' = bulletin /\ RequestOk(s, r, user')
  BY <1>2, <1>6 DEF tables
<1>. QED  BY <1>2, <1>5, <1>7, Unaltered, SessionStep DEF Ended

LEMMA PostsSessions ==
    ASSUME SInv, NEW r \in Requests, AddsPost(r)
    PROVE  Sessions'
<1>. DEFINE s == [req[r] EXCEPT !.pc = "reply", !.answer = "bulletin"]
            post == [user_id |-> req[r].uid, from |-> r]
<1>1. /\ req[r] \in State /\ req \in [Requests -> State] /\ Known(req[r], user)
      /\ RequestOk(req[r], r, user) /\ bulletin \in Seq(PostRow) /\ user \in Seq(Row)
  BY Parts DEF Sessions
<1>2. /\ req' = [req EXCEPT ![r] = s] /\ req[r].pc = "post" /\ UNCHANGED <<user, jar, now>>
      /\ bulletin' = Append(bulletin, post)
  BY DEF AddsPost
<1>3. /\ s \in State /\ s.cookie = req[r].cookie /\ s.ask = req[r].ask /\ s.set = req[r].set
      /\ s.pc = "reply"
  BY <1>1 DEF State, Pcs, Answers
<1>. HIDE DEF s
<1>4. RequestOk(s, r, user')
  BY <1>1, <1>2, <1>3 DEF RequestOk, Wrote, Ended
<1>5. req'[r] = s
  BY <1>1, <1>2
<1>6. post.from = r /\ post.user_id = req[r].uid /\ post \in PostRow
  BY <1>1, <1>2 DEF PostRow, Known
<1>. HIDE DEF post
<1>7. PostOk(post, req', user')
  BY <1>1, <1>2, <1>3, <1>5, <1>6 DEF PostOk, RequestOk, Ended
<1>8. ASSUME NEW i \in DOMAIN bulletin'
      PROVE  \/ i \in DOMAIN bulletin /\ bulletin'[i] = bulletin[i]
             \/ bulletin'[i] = post
  BY <1>1, <1>2, <1>6
<1>9. Alters(user, user', r) /\ \A i \in DOMAIN user' : RowOk(user', i)
  BY <1>2, Unaltered
<1>10. \A i \in DOMAIN bulletin' : \/ i \in DOMAIN bulletin /\ bulletin'[i] = bulletin[i]
                                   \/ PostOk(bulletin'[i], req', user')
  BY <1>7, <1>8
<1>11. \A b \in Browsers : jar'[b] = jar[b] \/ JarOk(jar'[b], req', user')
  BY <1>2
<1>. QED  BY <1>2, <1>3, <1>4, <1>9, <1>10, <1>11, SessionMove DEF Ended

LEMMA SendSessions ==
    ASSUME SInv, NEW r \in Requests, NEW a \in Asks[r], Send(r, a)
    PROVE  Sessions'
<1>. DEFINE s == [Unsent EXCEPT !.pc = a.kind, !.ask = a, !.cookie = jar[a.browser]]
<1>1. /\ a \in Ask /\ a.browser \in Browsers /\ a.kind \in Kinds
      /\ jar[a.browser] \in Cookie /\ JarOk(jar[a.browser], req, user)
      /\ RequestOk(req[r], r, user)
  <2>1. a \in Ask
    BY WebAssumption
  <2>2. a.browser \in Browsers /\ a.kind \in Kinds
    BY <2>1 DEF Ask
  <2>. QED  BY <2>1, <2>2, Parts DEF Sessions
<1>2. /\ req' = [req EXCEPT ![r] = s] /\ req[r].pc = "none"
      /\ user' = user /\ bulletin' = bulletin /\ jar' = jar /\ now' = now
  BY DEF Send, At, tables
<1>3. /\ s \in State /\ s.cookie = jar[a.browser] /\ s.ask = a /\ s.set = None /\ s.pc = a.kind
  BY <1>1 DEF State, Unsent, Pcs, Answers
<1>. HIDE DEF s
<1>4. s.pc \notin {"update", "post", "none", "reply", "done"}
  BY <1>1, <1>3 DEF Kinds
<1>5. Wrote(s, r, user)
  BY <1>1, <1>2 DEF RequestOk, Wrote, Ended
<1>6. RequestOk(s, r, user')
  BY <1>1, <1>2, <1>3, <1>4, <1>5 DEF RequestOk, JarOk, Marked
<1>. QED  BY <1>2, <1>3, <1>6, Unaltered, SessionStep DEF Ended

LEMMA ReplySessions ==
    ASSUME SInv, NEW r \in Requests, Reply(r)
    PROVE  Sessions'
<1>. DEFINE s == [Unsent EXCEPT !.pc = "done", !.ask = req[r].ask,
                                !.cookie = req[r].cookie, !.answer = req[r].answer]
            b0 == req[r].ask.browser
            c == IF req[r].answer = "logged out" THEN NoCookie
                 ELSE IF req[r].set = None THEN jar[b0]
                 ELSE [uuid |-> req[r].set, account |-> Account(r), by |-> r]
<1>1. /\ req[r] \in State /\ req \in [Requests -> State] /\ Known(req[r], user)
      /\ RequestOk(req[r], r, user) /\ jar \in [Browsers -> Cookie]
  BY Parts DEF Sessions
<1>2. /\ req' = [req EXCEPT ![r] = s] /\ req[r].pc = "reply"
      /\ user' = user /\ bulletin' = bulletin /\ now' = now
      /\ jar' = [jar EXCEPT ![b0] = c] \/ jar' = jar
  BY DEF Reply, At, tables
<1>3. /\ s \in State /\ s.cookie = req[r].cookie /\ s.ask = req[r].ask /\ s.set = None
      /\ s.pc = "done"
  BY <1>1 DEF State, Unsent, Pcs, Answers
<1>. HIDE DEF s
<1>4. Wrote(s, r, user)
  BY <1>3 DEF Wrote, Ended
<1>5. RequestOk(s, r, user')
  BY <1>1, <1>2, <1>3, <1>4 DEF RequestOk, Marked
<1>6. Alters(user, user', r) /\ \A i \in DOMAIN user' : RowOk(user', i)
  BY <1>2, Unaltered
<1>7. req'[r] = s
  BY <1>1, <1>2
<1>8. c = jar[b0] \/ JarOk(c, req', user')
  <2>1. CASE c = NoCookie
    <3>1. NoCookie.uuid = None /\ NoCookie.by = None
      BY DEF NoCookie
    <3>. QED  BY <2>1, <3>1 DEF JarOk, Marked
  <2>2. CASE c = [uuid |-> req[r].set, account |-> Account(r), by |-> r] /\ req[r].set # None
    <3>. HIDE DEF c
    <3>1. c.uuid = req[r].set /\ c.account = req[r].ask.account /\ c.by = r
      BY <2>2 DEF Account
    <3>2. Marked(user, c.account, c.uuid)
      BY <1>1, <3>1 DEF RequestOk
    <3>3. \A i \in DOMAIN user : user[i].by = c.by /\ user[i].account = c.account =>
             user[i].id_cookie = c.uuid
      BY <1>1, <2>2, <3>1 DEF RequestOk, Wrote
    <3>. QED  BY <1>2, <1>3, <1>7, <3>1, <3>2, <3>3 DEF JarOk
  <2>. QED  BY <2>1, <2>2
<1>. HIDE DEF c, b0
<1>9. \A b \in Browsers : jar'[b] = jar[b] \/ JarOk(jar'[b], req', user')
  BY <1>1, <1>2, <1>8
<1>10. \A i \in DOMAIN bulletin' : \/ i \in DOMAIN bulletin /\ bulletin'[i] = bulletin[i]
                                   \/ PostOk(bulletin'[i], req', user')
  BY <1>2
<1>. QED  BY <1>2, <1>3, <1>5, <1>6, <1>9, <1>10, SessionMove DEF Ended

LEMMA SessionInit == Init => SInv
<1>. SUFFICES ASSUME Init PROVE SInv
  OBVIOUS
<1>1. /\ user = <<>> /\ bulletin = <<>> /\ now = 0
      /\ \A r \in Requests : req[r] = Unsent
      /\ \A b \in Browsers : jar[b] = NoCookie
  BY DEF Init
<1>2. DOMAIN user = {} /\ DOMAIN bulletin = {}
  BY <1>1
<1>3. /\ Unsent.cookie = NoCookie /\ Unsent.set = None /\ Unsent.pc = "none"
      /\ NoCookie.uuid = None /\ NoCookie.by = None
  BY DEF Unsent, NoCookie
<1>4. \A r \in Requests : RequestOk(req[r], r, user)
  BY <1>1, <1>2, <1>3 DEF RequestOk, Wrote, Marked
<1>5. \A b \in Browsers : JarOk(jar[b], req, user)
  BY <1>1, <1>3 DEF JarOk, Marked
<1>6. now <= MaxTime
  BY <1>1, WebAssumption
<1>. QED  BY <1>2, <1>4, <1>5, <1>6, InitTypes DEF SInv, Sessions

LEMMA SessionNext == SInv /\ [Next]_vars => SInv'
<1>. SUFFICES ASSUME SInv, [Next]_vars PROVE SInv'
  OBVIOUS
<1>1. TypeOK /\ TypeOK'
  BY NextTypes DEF SInv
<1>2. ASSUME UNCHANGED <<tables, jar, req>>, now' = now \/ now' <= MaxTime PROVE Sessions'
  <2>1. user' = user /\ bulletin' = bulletin /\ jar' = jar /\ req' = req
    BY <1>2 DEF tables
  <2>2. Sessions
    BY DEF SInv
  <2>. QED  BY <1>2, <2>1, <2>2 DEF Sessions, RowOk, RequestOk, JarOk, PostOk, Wrote
<1>3. CASE Tick
  <2>1. now' <= MaxTime
    BY <1>3, Parts, WebAssumption DEF Tick
  <2>. QED  BY <1>1, <1>2, <1>3, <2>1 DEF Tick, SInv
<1>4. CASE UNCHANGED vars
  BY <1>1, <1>2, <1>4 DEF vars, tables, SInv
<1>5. ASSUME NEW r \in Requests, Handler(r) PROVE Sessions'
  <2>1. Moves(r) => Sessions'
    BY QuietSessions, ToInsertSessions, InsertsSessions, ToUpdateSessions, UpdatesSessions,
       ReadsSessions, ToPostSessions, PostsSessions DEF Moves
  <2>. QED  BY <1>1, <1>2, <1>5, <2>1, HandlerMoves
<1>6. ASSUME NEW r \in Requests, Reply(r) \/ \E a \in Asks[r] : Send(r, a) PROVE Sessions'
  BY <1>6, ReplySessions, SendSessions
<1>. QED  BY <1>1, <1>3, <1>4, <1>5, <1>6 DEF Next, SInv

(* Of two users, however their requests interleave and fail: a message is   *)
(* listed under the account whose session its browser had.                  *)
THEOREM AuthorsAreRight == Spec => []PostsCarryTheirAuthor
<1>1. SInv => PostsCarryTheirAuthor
  BY DEF SInv, Sessions, PostOk, PostsCarryTheirAuthor, TwoUsers, Author
<1>. QED  BY <1>1, SessionInit, SessionNext, PTL DEF Spec

(* Of two users, while no cookie wraps round to 0: the browser whose login  *)
(* or signup was the last to set an account's cookie is recognised as it.   *)
THEOREM LastLoginIsKnown ==
    ASSUME NoWrap
    PROVE  Spec => []SessionOfLastLogin
<1>1. SInv => SessionOfLastLogin
  <2>. SUFFICES ASSUME SInv, TwoUsers, NEW b \in Browsers, NEW i \in DOMAIN user,
                       jar[b].by # None, user[i].account = jar[b].account,
                       user[i].by = jar[b].by
                PROVE  /\ WithCookie(jar[b].uuid) # {}
                       /\ user[Least(WithCookie(jar[b].uuid))].account = jar[b].account
    BY DEF SessionOfLastLogin
  <2>1. /\ JarOk(jar[b], req, user) /\ RowOk(user, i) /\ Len(user) <= 2
        /\ jar[b].uuid \in Cookies \cup {None}
    BY Parts DEF Sessions, TwoUsers, Cookie
  <2>2. user[i].id_cookie = jar[b].uuid
    BY <2>1 DEF JarOk
  <2>3. jar[b].uuid # 0
    BY <2>1, <2>2 DEF RowOk
  <2>4. i \in WithCookie(jar[b].uuid)
    BY <2>2 DEF WithCookie
  <2>5. Marked(user, jar[b].account, jar[b].uuid)
    BY <2>1 DEF JarOk
  <2>. QED  BY <2>1, <2>3, <2>4, <2>5, FoundByCookie
<1>. QED  BY <1>1, SessionInit, SessionNext, PTL DEF Spec
=============================================================================
