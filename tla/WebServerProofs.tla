-------------------------- MODULE WebServerProofs --------------------------
(* Theorems about WebServer, for any requests, browsers, names and clock. *)
EXTENDS WebServer, TLAPS, WellFoundedInduction, FiniteSetTheorems

Row == [account : Names, password : Names, id_cookie : Cookies,
        from : Requests, seen : Nat, by : Requests \cup {None}]
PostRow == [user_id : Nat, from : Requests]
State == [pc : Pcs, ask : Ask \cup {None}, cookie : Cookie,
          uid : Nat \cup {None}, time : Nat \cup {None}, seen : Nat \cup {None},
          set : Cookies \cup {None}, answer : Answers]

(* The parts of TypeOK: the shape of the variables, ... *)
Shape == /\ user \in Seq(Row)
         /\ bulletin \in Seq(PostRow)
         /\ leaked \in BOOLEAN /\ down \in BOOLEAN /\ now \in Nat
         /\ jar \in [Browsers -> Cookie]
         /\ req \in [Requests -> State]

(* ... what a handler knows at each of its steps, and who wrote the posts. *)
Known(s, u) ==
    /\ s.pc # "none" => s.ask \in Ask
    /\ s.pc = "insert" => s.seen \in Nat
    /\ s.pc \in {"uid", "update", "cookie"} => \E i \in DOMAIN u : u[i].account = s.ask.account
    /\ s.pc = "update" => s.time \in Nat
    /\ s.pc \in {"update", "post"} => s.uid \in DOMAIN u
Authors == \A i \in DOMAIN bulletin : bulletin[i].user_id \in DOMAIN user

LEMMA TypeOKParts ==
    TypeOK <=> Shape /\ Authors /\ \A r \in Requests : Known(req[r], user)
BY DEF TypeOK, Shape, Authors, Known, Row, PostRow, State, WithAccount, Account

(* The least of a set of ids is one of them, and least. *)
LEMMA LeastIsThere ==
    ASSUME NEW S \in SUBSET Nat, S # {}
    PROVE  Least(S) \in S /\ \A j \in S : Least(S) <= j
<1>. DEFINE R == OpToRel(<, Nat)
<1>1. IsWellFoundedOn(R, Nat)
  BY NatLessThanWellFounded
<1>2. ASSUME NEW i \in Nat, NEW j \in Nat, j < i PROVE <<j, i>> \in R
  BY <1>2 DEF OpToRel
<1>. HIDE DEF R
<1>3. PICK i \in S : \A j \in S : <<j, i>> \notin R
  BY <1>1, WFMin
<1>4. ASSUME NEW j \in S PROVE i <= j
  <2>1. i \in Nat /\ j \in Nat
    OBVIOUS
  <2>2. ~ (j < i)
    BY <1>2, <1>3, <2>1
  <2>. QED  BY <2>1, <2>2
<1>. QED  BY <1>4 DEF Least

(* The rows a SELECT finds. *)
LEMMA SelectedRows ==
    ASSUME Shape, NEW x
    PROVE  /\ WithAccount(x) # {} => Least(WithAccount(x)) \in WithAccount(x)
           /\ WithCookie(x) # {} => Least(WithCookie(x)) \in WithCookie(x)
           /\ WithAccount(x) \subseteq DOMAIN user /\ WithCookie(x) \subseteq DOMAIN user
           /\ DOMAIN user \subseteq Nat
<1>1. DOMAIN user \subseteq Nat
  BY DEF Shape
<1>2. WithAccount(x) \subseteq DOMAIN user /\ WithCookie(x) \subseteq DOMAIN user
  BY DEF WithAccount, WithCookie
<1>3. WithAccount(x) \in SUBSET Nat /\ WithCookie(x) \in SUBSET Nat
  BY <1>1, <1>2
<1>. QED  BY <1>1, <1>2, <1>3, LeastIsThere

(* Rows are added or updated, never removed or renamed. *)
Keeps == /\ user' \in Seq(Row)
         /\ DOMAIN user \subseteq DOMAIN user'
         /\ \A i \in DOMAIN user : user'[i].account = user[i].account

(* What a handler knows stays true of tables that only grow, so a step of   *)
(* request r need only be right about r.                                    *)
LEMMA StepTypes ==
    ASSUME TypeOK, NEW r \in Requests, NEW s \in State, req' = [req EXCEPT ![r] = s],
           Keeps, Known(s, user'), bulletin' \in Seq(PostRow), Authors',
           leaked' \in BOOLEAN, down' \in BOOLEAN, now' = now, jar' \in [Browsers -> Cookie]
    PROVE  TypeOK'
<1>0. Shape /\ Authors /\ \A q \in Requests : Known(req[q], user)
  BY TypeOKParts
<1>1. Shape'
  BY <1>0 DEF Shape, Keeps
<1>2. ASSUME NEW q \in Requests PROVE Known(req'[q], user')
  <2>1. CASE q = r
    BY <1>0, <2>1 DEF Shape
  <2>2. CASE q # r
    <3>1. req'[q] = req[q] /\ Known(req[q], user)
      BY <1>0, <2>2 DEF Shape
    <3>. QED  BY <3>1 DEF Known, Keeps
  <2>. QED  BY <2>1, <2>2
<1>3. TypeOK' <=> Shape' /\ Authors' /\ \A q \in Requests : Known(req'[q], user')
  BY DEF TypeOK, Shape, Authors, Known, Row, PostRow, State, WithAccount, Account
<1>. QED  BY <1>1, <1>2, <1>3

(* A step that touches no table. *)
LEMMA ReadTypes ==
    ASSUME TypeOK, NEW r \in Requests, NEW s \in State, req' = [req EXCEPT ![r] = s],
           Known(s, user), UNCHANGED <<tables, now, jar>>,
           leaked' \in BOOLEAN, down' \in BOOLEAN
    PROVE  TypeOK'
<1>1. Shape /\ Authors
  BY TypeOKParts
<1>2. Keeps /\ bulletin' \in Seq(PostRow) /\ Authors' /\ jar' \in [Browsers -> Cookie]
  BY <1>1 DEF Shape, Authors, Keeps, tables
<1>3. Known(s, user') /\ now' = now
  BY DEF tables, Known
<1>. QED  BY <1>2, <1>3, StepTypes

LEMMA AnswerTypes ==
    ASSUME TypeOK, NEW r \in Requests, req[r].pc # "none",
           NEW a \in Answers, Answer(r, a), UNCHANGED <<tables, now, jar>>,
           leaked' \in BOOLEAN, down' \in BOOLEAN
    PROVE  TypeOK'
<1>1. Shape /\ Known(req[r], user)
  BY TypeOKParts
<1>. DEFINE s == [req[r] EXCEPT !.pc = "reply", !.answer = a]
<1>2. s \in State /\ Known(s, user)
  BY <1>1 DEF Shape, State, Known, Pcs
<1>3. req' = [req EXCEPT ![r] = s]
  BY <1>1 DEF Answer, Shape
<1>. QED  BY <1>2, <1>3, ReadTypes

LEMMA GotoTypes ==
    ASSUME TypeOK, NEW r \in Requests, NEW pc \in {"cookie", "reply"}, Goto(r, pc),
           req[r].pc \in {"uid", "update", "cookie"},
           UNCHANGED <<tables, leaked, now, jar, down>>
    PROVE  TypeOK'
<1>1. Shape /\ Known(req[r], user)
  BY TypeOKParts
<1>. DEFINE s == [req[r] EXCEPT !.pc = pc]
<1>2. s \in State /\ Known(s, user)
  BY <1>1 DEF Shape, State, Known, Pcs
<1>3. req' = [req EXCEPT ![r] = s]
  BY <1>1 DEF Goto, Shape
<1>4. leaked' \in BOOLEAN /\ down' \in BOOLEAN
  BY <1>1 DEF Shape
<1>. QED  BY <1>2, <1>3, <1>4, ReadTypes

-----------------------------------------------------------------------------
(* Each statement of a handler leaves the variables well-typed. *)

LEMMA SelectPasswordTypes ==
    ASSUME TypeOK, NEW r \in Requests, SelectPassword(r)
    PROVE  TypeOK'
<1>0. Shape /\ Known(req[r], user) /\ req[r] \in State
  BY TypeOKParts DEF Shape
<1>1. req[r].pc = "login" /\ UNCHANGED <<tables, leaked, now, jar>>
  BY DEF SelectPassword, FormAt, At
<1>2. leaked' \in BOOLEAN /\ down \in BOOLEAN
  BY <1>0, <1>1 DEF Shape
<1>3. ASSUME NEW a \in {"no account", "wrong password", "500"}, Answer(r, a), down' = down
      PROVE  TypeOK'
  <2>1. a \in Answers
    BY DEF Answers
  <2>. QED  BY <1>1, <1>2, <1>3, <2>1, AnswerTypes
<1>4. ASSUME WithAccount(Account(r)) # {}, down' = down,
             req' = [req EXCEPT ![r].pc = "uid", ![r].answer = "index"]
      PROVE  TypeOK'
  <2>. DEFINE s == [req[r] EXCEPT !.pc = "uid", !.answer = "index"]
  <2>1. s \in State
    BY <1>0 DEF State, Pcs, Answers
  <2>2. \E i \in DOMAIN user : user[i].account = req[r].ask.account
    BY <1>4 DEF WithAccount, Account
  <2>3. Known(s, user)
    BY <1>0, <1>1, <2>2 DEF Known, State
  <2>4. req' = [req EXCEPT ![r] = s]
    BY <1>0, <1>4 DEF Shape
  <2>. QED  BY <1>1, <1>2, <1>4, <2>1, <2>3, <2>4, ReadTypes
<1>5. ASSUME down' = TRUE, req' = req PROVE TypeOK'
  <2>1. req' = [req EXCEPT ![r] = req[r]] /\ down' \in BOOLEAN
    BY <1>0, <1>5 DEF Shape
  <2>. QED  BY <1>0, <1>1, <1>2, <2>1, ReadTypes
<1>6. \/ \E a \in {"no account", "wrong password", "500"} : Answer(r, a) /\ down' = down
      \/ /\ WithAccount(Account(r)) # {} /\ down' = down
         /\ req' = [req EXCEPT ![r].pc = "uid", ![r].answer = "index"]
      \/ down' = TRUE /\ req' = req
  BY Zenon DEF SelectPassword
<1>. QED  BY <1>3, <1>4, <1>5, <1>6

LEMMA SelectIdTypes ==
    ASSUME TypeOK, NEW r \in Requests, SelectId(r)
    PROVE  TypeOK'
<1>0. Shape /\ Known(req[r], user) /\ req[r] \in State
  BY TypeOKParts DEF Shape
<1>1. req[r].pc = "signup" /\ UNCHANGED <<tables, now, jar, down>>
  BY DEF SelectId, FormAt, At
<1>2. leaked' \in BOOLEAN /\ down' \in BOOLEAN
  BY <1>0, <1>1 DEF Shape, SelectId
<1>3. ASSUME NEW a \in {"exists", "500"}, Answer(r, a) PROVE TypeOK'
  <2>1. a \in Answers
    BY DEF Answers
  <2>. QED  BY <1>1, <1>2, <1>3, <2>1, AnswerTypes
<1>4. ASSUME req' = [req EXCEPT ![r].pc = "insert", ![r].seen = Len(user)]
      PROVE  TypeOK'
  <2>. DEFINE s == [req[r] EXCEPT !.pc = "insert", !.seen = Len(user)]
  <2>0. Len(user) \in Nat
    BY <1>0 DEF Shape
  <2>1. s \in State
    BY <1>0, <2>0 DEF State, Pcs
  <2>2. Known(s, user)
    BY <1>0, <1>1, <2>0 DEF Known, State
  <2>3. req' = [req EXCEPT ![r] = s]
    BY <1>0, <1>4 DEF Shape
  <2>. QED  BY <1>1, <1>2, <2>1, <2>2, <2>3, ReadTypes
<1>5. \/ \E a \in {"exists", "500"} : Answer(r, a)
      \/ req' = [req EXCEPT ![r].pc = "insert", ![r].seen = Len(user)]
  BY Zenon DEF SelectId
<1>. QED  BY <1>3, <1>4, <1>5

LEMMA InsertUserTypes ==
    ASSUME TypeOK, NEW r \in Requests, InsertUser(r)
    PROVE  TypeOK'
<1>0. Shape /\ Authors /\ Known(req[r], user) /\ req[r] \in State
  BY TypeOKParts DEF Shape
<1>1. req[r].pc = "insert" /\ UNCHANGED <<bulletin, leaked, now, jar, down>>
  BY DEF InsertUser, At
<1>2. leaked' \in BOOLEAN /\ down' \in BOOLEAN
  BY <1>0, <1>1 DEF Shape
<1>3. ASSUME Answer(r, "500"), user' = user PROVE TypeOK'
  BY <1>1, <1>2, <1>3, AnswerTypes DEF tables, Answers
<1>. DEFINE row == [account |-> Account(r), password |-> req[r].ask.password, id_cookie |-> 0,
                    from |-> r, seen |-> req[r].seen, by |-> None]
            s == [req[r] EXCEPT !.pc = "uid", !.answer = "success"]
<1>4. ASSUME user' = Append(user, row),
             req' = [req EXCEPT ![r].pc = "uid", ![r].answer = "success"]
      PROVE  TypeOK'
  <2>1. row \in Row
    BY <1>0, <1>1, WebAssumption DEF Known, Row, Account, Ask, Cookies
  <2>2. Keeps /\ Len(user) + 1 \in DOMAIN user' /\ user'[Len(user) + 1] = row
    BY <1>0, <1>4, <2>1 DEF Shape, Keeps
  <2>3. s \in State
    BY <1>0 DEF State, Pcs, Answers
  <2>4. \E i \in DOMAIN user' : user'[i].account = req[r].ask.account
    BY <2>2 DEF Account
  <2>5. Known(s, user')
    BY <1>0, <1>1, <2>4 DEF Known, State
  <2>6. req' = [req EXCEPT ![r] = s]
    BY <1>0, <1>4 DEF Shape
  <2>7. bulletin' \in Seq(PostRow) /\ Authors' /\ jar' \in [Browsers -> Cookie] /\ now' = now
    BY <1>0, <1>1, <2>2 DEF Shape, Authors, Keeps
  <2>. QED  BY <1>2, <2>2, <2>3, <2>5, <2>6, <2>7, StepTypes
<1>5. \/ Answer(r, "500") /\ user' = user
      \/ user' = Append(user, row) /\ req' = [req EXCEPT ![r].pc = "uid", ![r].answer = "success"]
  BY Zenon DEF InsertUser
<1>. QED  BY <1>3, <1>4, <1>5

LEMMA UpdateFailedTypes ==
    ASSUME TypeOK, NEW r \in Requests, req[r].pc \in {"uid", "update"}, UpdateFailed(r),
           UNCHANGED <<tables, leaked, now, jar, down>>
    PROVE  TypeOK'
<1>1. \E pc \in {"cookie", "reply"} : Goto(r, pc)
  BY DEF UpdateFailed
<1>. QED  BY <1>1, GotoTypes

LEMMA SelectUidTypes ==
    ASSUME TypeOK, NEW r \in Requests, SelectUid(r)
    PROVE  TypeOK'
<1>0. Shape /\ Known(req[r], user) /\ req[r] \in State
  BY TypeOKParts DEF Shape
<1>1. req[r].pc = "uid" /\ UNCHANGED <<tables, leaked, now, jar, down>>
  BY DEF SelectUid, At
<1>. DEFINE id == Least(WithAccount(Account(r)))
            s == [req[r] EXCEPT !.pc = "update", !.time = now, !.uid = id]
<1>2. ASSUME req' = [req EXCEPT ![r].pc = "update", ![r].time = now, ![r].uid = id]
      PROVE  TypeOK'
  <2>1. WithAccount(Account(r)) # {}
    BY <1>0, <1>1 DEF Known, WithAccount, Account
  <2>2. id \in DOMAIN user /\ id \in Nat
    BY <1>0, <2>1, SelectedRows
  <2>. HIDE DEF id
  <2>3. s \in State
    BY <1>0, <2>2 DEF State, Pcs, Shape
  <2>4. Known(s, user)
    BY <1>0, <1>1, <2>2 DEF Known, State, Shape
  <2>5. req' = [req EXCEPT ![r] = s]
    BY <1>0, <1>2 DEF Shape
  <2>6. leaked' \in BOOLEAN /\ down' \in BOOLEAN
    BY <1>0, <1>1 DEF Shape
  <2>. QED  BY <1>1, <2>3, <2>4, <2>5, <2>6, ReadTypes
<1>3. \/ UpdateFailed(r)
      \/ req' = [req EXCEPT ![r].pc = "update", ![r].time = now, ![r].uid = id]
  BY Zenon DEF SelectUid
<1>. QED  BY <1>1, <1>2, <1>3, UpdateFailedTypes

(* A cookie fits in CookieMod values. *)
LEMMA CookieRange ==
    ASSUME NEW t \in Nat, NEW id \in Nat
    PROVE  NewCookie(t, id) \in Cookies
BY WebAssumption DEF NewCookie, Cookies

LEMMA UpdateCookieTypes ==
    ASSUME TypeOK, NEW r \in Requests, UpdateCookie(r)
    PROVE  TypeOK'
<1>0. Shape /\ Authors /\ Known(req[r], user) /\ req[r] \in State
  BY TypeOKParts DEF Shape
<1>1. req[r].pc = "update" /\ UNCHANGED <<bulletin, leaked, now, jar, down>>
  BY DEF UpdateCookie, At
<1>. DEFINE c == NewCookie(req[r].time, req[r].uid)
            updated == [i \in DOMAIN user |->
                          IF user[i].account = Account(r)
                          THEN [user[i] EXCEPT !.id_cookie = c, !.by = r]
                          ELSE user[i]]
            s == [req[r] EXCEPT !.pc = "cookie"]
<1>2. ASSUME user' = updated, Goto(r, "cookie") PROVE TypeOK'
  <2>1. req[r].time \in Nat /\ req[r].uid \in DOMAIN user /\ req[r].uid \in Nat
    BY <1>0, <1>1 DEF Known, Shape
  <2>2. c \in Cookies
    BY <2>1, CookieRange
  <2>. HIDE DEF c
  <2>3. ASSUME NEW i \in DOMAIN user
        PROVE  updated[i] \in Row /\ updated[i].account = user[i].account
    <3>1. user[i] \in Row
      BY <1>0 DEF Shape
    <3>2. [user[i] EXCEPT !.id_cookie = c, !.by = r] \in Row
      BY <2>2, <3>1 DEF Row
    <3>3. [user[i] EXCEPT !.id_cookie = c, !.by = r].account = user[i].account
      BY <3>1 DEF Row
    <3>. QED  BY <3>1, <3>2, <3>3
  <2>4. /\ updated = [i \in 1..Len(user) |-> updated[i]]
        /\ Len(user) \in Nat /\ DOMAIN user = 1..Len(user)
    BY <1>0 DEF Shape
  <2>. HIDE DEF updated
  <2>5. Keeps
    <3>1. updated \in [1..Len(user) -> Row]
      BY <2>3, <2>4
    <3>2. updated \in Seq(Row)
      BY <2>4, <3>1
    <3>. QED  BY <1>2, <2>3, <2>4, <3>1, <3>2 DEF Keeps
  <2>6. s \in State
    BY <1>0 DEF State, Pcs
  <2>7. Known(s, user')
    BY <1>0, <1>1, <2>5 DEF Known, State, Keeps
  <2>8. req' = [req EXCEPT ![r] = s]
    BY <1>0, <1>2 DEF Goto, Shape
  <2>9. /\ bulletin' \in Seq(PostRow) /\ Authors' /\ jar' \in [Browsers -> Cookie]
        /\ leaked' \in BOOLEAN /\ down' \in BOOLEAN /\ now' = now
    BY <1>0, <1>1, <2>5 DEF Shape, Authors, Keeps
  <2>. QED  BY <2>5, <2>6, <2>7, <2>8, <2>9, StepTypes
<1>3. ASSUME UpdateFailed(r), user' = user PROVE TypeOK'
  BY <1>1, <1>3, UpdateFailedTypes DEF tables
<1>4. \/ user' = updated /\ Goto(r, "cookie")
      \/ UpdateFailed(r) /\ user' = user
  BY Zenon DEF UpdateCookie
<1>. QED  BY <1>2, <1>3, <1>4

LEMMA SelectCookieTypes ==
    ASSUME TypeOK, NEW r \in Requests, SelectCookie(r)
    PROVE  TypeOK'
<1>0. Shape /\ Known(req[r], user) /\ req[r] \in State
  BY TypeOKParts DEF Shape
<1>1. req[r].pc = "cookie" /\ UNCHANGED <<tables, leaked, now, jar, down>>
  BY DEF SelectCookie, At
<1>. DEFINE id == Least(WithAccount(Account(r)))
            s == [req[r] EXCEPT !.pc = "reply", !.set = user[id].id_cookie]
<1>2. ASSUME req' = [req EXCEPT ![r].pc = "reply", ![r].set = user[id].id_cookie]
      PROVE  TypeOK'
  <2>1. WithAccount(Account(r)) # {}
    BY <1>0, <1>1 DEF Known, WithAccount, Account
  <2>2. id \in DOMAIN user
    BY <1>0, <2>1, SelectedRows
  <2>. HIDE DEF id
  <2>3. user[id].id_cookie \in Cookies
    <3>1. user[id] \in Row
      BY <1>0, <2>2 DEF Shape
    <3>. QED  BY <3>1 DEF Row
  <2>4. s \in State
    BY <1>0, <2>3 DEF State, Pcs
  <2>5. Known(s, user)
    BY <1>0, <1>1 DEF Known, State
  <2>6. req' = [req EXCEPT ![r] = s]
    BY <1>0, <1>2 DEF Shape
  <2>7. leaked' \in BOOLEAN /\ down' \in BOOLEAN
    BY <1>0, <1>1 DEF Shape
  <2>. QED  BY <1>1, <2>4, <2>5, <2>6, <2>7, ReadTypes
<1>3. \/ Goto(r, "reply")
      \/ req' = [req EXCEPT ![r].pc = "reply", ![r].set = user[id].id_cookie]
  BY Zenon DEF SelectCookie
<1>. QED  BY <1>1, <1>2, <1>3, GotoTypes

LEMMA SelectAuthorTypes ==
    ASSUME TypeOK, NEW r \in Requests, SelectAuthor(r)
    PROVE  TypeOK'
<1>0. Shape /\ Known(req[r], user) /\ req[r] \in State
  BY TypeOKParts DEF Shape
<1>1. req[r].pc = "whoami" /\ UNCHANGED <<tables, leaked, now, jar, down>>
  BY DEF SelectAuthor, FormAt, At
<1>2. leaked' \in BOOLEAN /\ down' \in BOOLEAN
  BY <1>0, <1>1 DEF Shape
<1>3. ASSUME NEW a \in {"login first", "invalid cookie"}, Answer(r, a) PROVE TypeOK'
  <2>1. a \in Answers
    BY DEF Answers
  <2>. QED  BY <1>1, <1>2, <1>3, <2>1, AnswerTypes
<1>. DEFINE ids == WithCookie(req[r].cookie.uuid)
            s == [req[r] EXCEPT !.pc = "post", !.uid = Least(ids)]
<1>4. ASSUME ids # {}, req' = [req EXCEPT ![r].pc = "post", ![r].uid = Least(ids)]
      PROVE  TypeOK'
  <2>1. Least(ids) \in DOMAIN user /\ Least(ids) \in Nat
    BY <1>0, <1>4, SelectedRows
  <2>. HIDE DEF ids
  <2>2. s \in State
    BY <1>0, <2>1 DEF State, Pcs
  <2>3. Known(s, user)
    BY <1>0, <1>1, <2>1 DEF Known, State
  <2>4. req' = [req EXCEPT ![r] = s]
    BY <1>0, <1>4 DEF Shape
  <2>. QED  BY <1>1, <1>2, <2>2, <2>3, <2>4, ReadTypes
<1>5. \/ \E a \in {"login first", "invalid cookie"} : Answer(r, a)
      \/ ids # {} /\ req' = [req EXCEPT ![r].pc = "post", ![r].uid = Least(ids)]
  BY Zenon DEF SelectAuthor
<1>. QED  BY <1>3, <1>4, <1>5

LEMMA InsertPostTypes ==
    ASSUME TypeOK, NEW r \in Requests, InsertPost(r)
    PROVE  TypeOK'
<1>0. Shape /\ Authors /\ Known(req[r], user) /\ req[r] \in State
  BY TypeOKParts DEF Shape
<1>1. req[r].pc = "post" /\ UNCHANGED <<user, leaked, now, jar, down>>
  BY DEF InsertPost, At
<1>2. leaked' \in BOOLEAN /\ down' \in BOOLEAN
  BY <1>0, <1>1 DEF Shape
<1>3. ASSUME Answer(r, "try again later"), bulletin' = bulletin PROVE TypeOK'
  BY <1>1, <1>2, <1>3, AnswerTypes DEF tables, Answers
<1>. DEFINE post == [user_id |-> req[r].uid, from |-> r]
            s == [req[r] EXCEPT !.pc = "reply", !.answer = "bulletin"]
<1>4. ASSUME bulletin' = Append(bulletin, post), Answer(r, "bulletin") PROVE TypeOK'
  <2>1. req[r].uid \in DOMAIN user /\ req[r].uid \in Nat
    BY <1>0, <1>1 DEF Known, Shape
  <2>2. post \in PostRow /\ post.user_id \in DOMAIN user
    BY <2>1 DEF PostRow
  <2>. HIDE DEF post
  <2>3. bulletin' \in Seq(PostRow)
    BY <1>0, <1>4, <2>2 DEF Shape
  <2>4. Authors'
    <3>1. /\ DOMAIN bulletin' = 1..(Len(bulletin) + 1) /\ bulletin'[Len(bulletin) + 1] = post
          /\ Len(bulletin) \in Nat /\ DOMAIN bulletin = 1..Len(bulletin)
          /\ \A i \in 1..Len(bulletin) : bulletin'[i] = bulletin[i]
      BY <1>0, <1>4 DEF Shape
    <3>2. ASSUME NEW i \in DOMAIN bulletin' PROVE bulletin'[i].user_id \in DOMAIN user
      <4>1. CASE i = Len(bulletin) + 1
        BY <2>2, <3>1, <4>1
      <4>2. CASE i # Len(bulletin) + 1
        <5>1. i \in DOMAIN bulletin /\ bulletin'[i] = bulletin[i]
          BY <3>1, <4>2
        <5>. QED  BY <1>0, <5>1 DEF Authors
      <4>. QED  BY <4>1, <4>2
    <3>. QED  BY <1>1, <3>2 DEF Authors
  <2>5. s \in State
    BY <1>0 DEF State, Pcs, Answers
  <2>6. Known(s, user')
    BY <1>0, <1>1 DEF Known, State
  <2>7. req' = [req EXCEPT ![r] = s]
    BY <1>0, <1>4 DEF Answer, Shape
  <2>8. Keeps /\ jar' \in [Browsers -> Cookie] /\ now' = now
    BY <1>0, <1>1 DEF Shape, Keeps
  <2>. QED  BY <1>2, <2>3, <2>4, <2>5, <2>6, <2>7, <2>8, StepTypes
<1>5. \/ Answer(r, "try again later") /\ bulletin' = bulletin
      \/ bulletin' = Append(bulletin, post) /\ Answer(r, "bulletin")
  BY Zenon DEF InsertPost
<1>. QED  BY <1>3, <1>4, <1>5

LEMMA HandlerTypes ==
    ASSUME TypeOK, NEW r \in Requests, Handler(r)
    PROVE  TypeOK'
<1>0. leaked \in BOOLEAN /\ down \in BOOLEAN
  BY TypeOKParts DEF Shape
<1>1. ASSUME NEW a \in {"wrong arguments", "index", "form", "logged out"}, Answer(r, a),
             req[r].pc # "none", UNCHANGED <<tables, leaked, now, jar, down>>
      PROVE  TypeOK'
  <2>1. a \in Answers
    BY DEF Answers
  <2>. QED  BY <1>0, <1>1, <2>1, AnswerTypes
<1>2. CASE WrongArguments(r)
  BY <1>1, <1>2 DEF WrongArguments
<1>3. CASE Get(r)
  BY <1>1, <1>3 DEF Get, At
<1>4. CASE Logout(r)
  BY <1>1, <1>4 DEF Logout, At
<1>. QED
  BY <1>2, <1>3, <1>4, SelectPasswordTypes, SelectIdTypes, InsertUserTypes, SelectUidTypes,
     UpdateCookieTypes, SelectCookieTypes, SelectAuthorTypes, InsertPostTypes DEF Handler

LEMMA SendTypes ==
    ASSUME TypeOK, NEW r \in Requests, NEW a \in Asks[r], Send(r, a)
    PROVE  TypeOK'
<1>0. Shape
  BY TypeOKParts
<1>. DEFINE s == [Unsent EXCEPT !.pc = a.kind, !.ask = a, !.cookie = jar[a.browser]]
<1>1. a \in Ask
  BY WebAssumption
<1>2. jar[a.browser] \in Cookie /\ a.kind \in Kinds
  BY <1>0, <1>1 DEF Shape, Ask
<1>3. s \in State /\ Known(s, user)
  BY <1>1, <1>2 DEF Unsent, State, Known, Pcs, Kinds, Answers
<1>4. req' = [req EXCEPT ![r] = s] /\ UNCHANGED <<tables, leaked, now, jar, down>>
  BY DEF Send
<1>. QED  BY <1>0, <1>3, <1>4, ReadTypes DEF Shape

LEMMA ReplyTypes ==
    ASSUME TypeOK, NEW r \in Requests, Reply(r)
    PROVE  TypeOK'
<1>0. Shape /\ Authors /\ Known(req[r], user) /\ req[r] \in State
  BY TypeOKParts DEF Shape
<1>1. req[r].pc = "reply" /\ UNCHANGED <<tables, leaked, now, down>>
  BY DEF Reply, At
<1>. DEFINE s == [Unsent EXCEPT !.pc = "done", !.ask = req[r].ask,
                                !.cookie = req[r].cookie, !.answer = req[r].answer]
            c == IF req[r].answer = "logged out" THEN NoCookie
                 ELSE IF req[r].set = None THEN jar[req[r].ask.browser]
                 ELSE [uuid |-> req[r].set, account |-> Account(r), by |-> r]
<1>2. req[r].ask \in Ask /\ req[r].cookie \in Cookie /\ req[r].answer \in Answers
  BY <1>0, <1>1 DEF Known, State
<1>3. s \in State /\ Known(s, user)
  BY <1>2 DEF Unsent, State, Known, Pcs
<1>4. c \in Cookie
  <2>1. NoCookie \in Cookie
    BY DEF NoCookie, Cookie
  <2>2. jar[req[r].ask.browser] \in Cookie
    BY <1>0, <1>2 DEF Shape, Ask
  <2>3. ASSUME req[r].set # None
        PROVE  [uuid |-> req[r].set, account |-> Account(r), by |-> r] \in Cookie
    BY <1>0, <1>2, <2>3 DEF State, Ask, Account, Cookie
  <2>. QED  BY <2>1, <2>2, <2>3
<1>5. jar' \in [Browsers -> Cookie]
  <2>1. jar' = [jar EXCEPT ![req[r].ask.browser] = c] \/ jar' = jar
    BY DEF Reply
  <2>. QED  BY <1>0, <1>4, <2>1 DEF Shape
<1>6. req' = [req EXCEPT ![r] = s]
  BY DEF Reply
<1>7. Keeps /\ bulletin' \in Seq(PostRow) /\ Authors' /\ Known(s, user')
  BY <1>0, <1>1, <1>3 DEF Shape, Authors, Keeps, tables
<1>. QED  BY <1>0, <1>1, <1>3, <1>5, <1>6, <1>7, StepTypes DEF Shape

LEMMA InitTypes == Init => TypeOK
<1>. SUFFICES ASSUME Init PROVE TypeOK
  OBVIOUS
<1>1. Unsent \in State /\ NoCookie \in Cookie /\ Known(Unsent, user)
  BY DEF Unsent, State, NoCookie, Cookie, Known, Pcs, Answers
<1>2. Shape /\ Authors
  <2>1. user = <<>> /\ bulletin = <<>>
    BY DEF Init
  <2>2. user \in Seq(Row) /\ bulletin \in Seq(PostRow) /\ DOMAIN bulletin = {}
    BY <2>1
  <2>3. jar \in [Browsers -> Cookie] /\ req \in [Requests -> State]
    BY <1>1 DEF Init
  <2>4. leaked \in BOOLEAN /\ down \in BOOLEAN /\ now \in Nat
    BY DEF Init
  <2>. QED  BY <2>2, <2>3, <2>4 DEF Shape, Authors
<1>3. \A r \in Requests : Known(req[r], user)
  BY <1>1 DEF Init
<1>. QED  BY <1>2, <1>3, TypeOKParts

LEMMA NextTypes == TypeOK /\ [Next]_vars => TypeOK'
<1>. SUFFICES ASSUME TypeOK, [Next]_vars PROVE TypeOK'
  OBVIOUS
<1>1. CASE Tick
  BY <1>1 DEF Tick, TypeOK, tables, WithAccount, Account
<1>2. CASE UNCHANGED vars
  BY <1>2 DEF vars, tables, TypeOK, WithAccount, Account
<1>. QED  BY <1>1, <1>2, HandlerTypes, SendTypes, ReplyTypes DEF Next

(* The tables, the browsers' jars and the handlers keep their types; in     *)
(* particular a handler past its SELECT works on rows that exist, and every *)
(* post has an author.                                                      *)
THEOREM TypeCorrect == Spec => []TypeOK
<1>. QED  BY InitTypes, NextTypes, PTL DEF Spec

-----------------------------------------------------------------------------
(* Duplicated accounts.  A signup past its SELECT remembers how many rows   *)
(* that SELECT saw, and none of them has its account.                       *)
Checked ==
    \A r \in Requests : req[r].pc = "insert" =>
        \A i \in 1..req[r].seen : i \in DOMAIN user /\ user[i].account # Account(r)

DInv == TypeOK /\ Checked /\ DuplicatesOnlyFromOverlap

(* The ids, accounts and histories of the rows stay, and no handler arrives *)
(* at its INSERT.                                                           *)
Quiet ==
    /\ DOMAIN user' = DOMAIN user
    /\ \A i \in DOMAIN user : user'[i].account = user[i].account /\ user'[i].seen = user[i].seen
    /\ \A r \in Requests : req'[r].pc = "insert" => req'[r] = req[r]

LEMMA QuietKeeps ==
    ASSUME DInv, Quiet
    PROVE  Checked' /\ DuplicatesOnlyFromOverlap'
BY DEF DInv, Quiet, Checked, Account, DuplicatesOnlyFromOverlap

(* A step of one handler, to a place other than its INSERT. *)
LEMMA StepIsQuiet ==
    ASSUME TypeOK, NEW r \in Requests, NEW s, s.pc # "insert",
           req' = [req EXCEPT ![r] = s], user' = user
    PROVE  Quiet
<1>1. req \in [Requests -> State]
  BY TypeOKParts DEF Shape
<1>. QED  BY <1>1 DEF Quiet

LEMMA AnswerIsQuiet ==
    ASSUME TypeOK, NEW r \in Requests, NEW a, Answer(r, a), user' = user
    PROVE  Quiet
<1>1. req \in [Requests -> State]
  BY TypeOKParts DEF Shape
<1>2. req' = [req EXCEPT ![r] = [req[r] EXCEPT !.pc = "reply", !.answer = a]]
  BY <1>1 DEF Answer
<1>3. [req[r] EXCEPT !.pc = "reply", !.answer = a].pc # "insert"
  BY <1>1 DEF State
<1>. QED  BY <1>2, <1>3, StepIsQuiet

LEMMA GotoIsQuiet ==
    ASSUME TypeOK, NEW r \in Requests, NEW pc, pc # "insert", Goto(r, pc), user' = user
    PROVE  Quiet
<1>1. req \in [Requests -> State]
  BY TypeOKParts DEF Shape
<1>2. req' = [req EXCEPT ![r] = [req[r] EXCEPT !.pc = pc]]
  BY <1>1 DEF Goto
<1>3. [req[r] EXCEPT !.pc = pc].pc # "insert"
  BY <1>1 DEF State
<1>. QED  BY <1>2, <1>3, StepIsQuiet

LEMMA UpdateFailedIsQuiet ==
    ASSUME TypeOK, NEW r \in Requests, UpdateFailed(r), user' = user
    PROVE  Quiet
BY GotoIsQuiet DEF UpdateFailed

(* The SELECT of a signup saw every row there is, and none with its account. *)
LEMMA SelectIdChecks ==
    ASSUME DInv, NEW r \in Requests, SelectId(r)
    PROVE  Checked' /\ DuplicatesOnlyFromOverlap'
<1>0. TypeOK /\ Checked /\ DuplicatesOnlyFromOverlap /\ user' = user
  BY DEF DInv, SelectId, tables
<1>1. CASE Answer(r, "exists") \/ Answer(r, "500")
  BY <1>0, <1>1, AnswerIsQuiet, QuietKeeps
<1>. DEFINE s == [req[r] EXCEPT !.pc = "insert", !.seen = Len(user)]
<1>2. CASE WithAccount(Account(r)) = {} /\ req' = [req EXCEPT ![r].pc = "insert", ![r].seen = Len(user)]
  <2>1. req \in [Requests -> State]
    BY <1>0, TypeOKParts DEF Shape
  <2>2. req' = [req EXCEPT ![r] = s]
    BY <1>2, <2>1
  <2>3. s.ask = req[r].ask
    BY <2>1 DEF State
  <2>4. \A i \in DOMAIN user : user[i].account # req[r].ask.account
    BY <1>2 DEF WithAccount, Account
  <2>5. s.seen = Len(user) /\ 1..Len(user) = DOMAIN user
    BY <1>0, <2>1, TypeOKParts DEF Shape, State
  <2>6. ASSUME NEW q \in Requests, req'[q].pc = "insert",
               NEW i \in 1..req'[q].seen
        PROVE  i \in DOMAIN user /\ user[i].account # req'[q].ask.account
    <3>1. CASE q = r
      BY <2>1, <2>2, <2>3, <2>4, <2>5, <2>6, <3>1
    <3>2. CASE q # r
      <4>1. req'[q] = req[q]
        BY <2>1, <2>2, <3>2
      <4>. QED  BY <1>0, <2>6, <4>1 DEF Checked, Account
    <3>. QED  BY <3>1, <3>2
  <2>. QED  BY <1>0, <2>6 DEF Checked, Account, DuplicatesOnlyFromOverlap
<1>. QED  BY <1>1, <1>2 DEF SelectId

(* The new row differs from those its SELECT saw. *)
LEMMA InsertUserChecks ==
    ASSUME DInv, NEW r \in Requests, InsertUser(r)
    PROVE  Checked' /\ DuplicatesOnlyFromOverlap'
<1>0. TypeOK /\ Checked /\ DuplicatesOnlyFromOverlap /\ req[r].pc = "insert"
  BY DEF DInv, InsertUser, At
<1>1. Shape /\ Known(req[r], user)
  BY <1>0, TypeOKParts
<1>. DEFINE row == [account |-> Account(r), password |-> req[r].ask.password, id_cookie |-> 0,
                    from |-> r, seen |-> req[r].seen, by |-> None]
            s == [req[r] EXCEPT !.pc = "uid", !.answer = "success"]
<1>2. CASE Answer(r, "500") /\ user' = user
  BY <1>0, <1>2, AnswerIsQuiet, QuietKeeps
<1>3. CASE user' = Append(user, row) /\ req' = [req EXCEPT ![r].pc = "uid", ![r].answer = "success"]
  <2>1. req' = [req EXCEPT ![r] = s] /\ s.pc = "uid" /\ req \in [Requests -> State]
    BY <1>1, <1>3 DEF Shape, State
  <2>2. DOMAIN user = 1..Len(user) /\ DOMAIN user' = 1..(Len(user) + 1) /\ Len(user) \in Nat
    BY <1>1, <1>3 DEF Shape
  <2>3. /\ \A i \in DOMAIN user : user'[i] = user[i]
        /\ user'[Len(user) + 1] = row
    BY <1>1, <1>3 DEF Shape
  <2>4. row.seen = req[r].seen /\ row.account = req[r].ask.account /\ req[r].seen \in Nat
    BY <1>0, <1>1 DEF Known, Account
  <2>5. ASSUME NEW q \in Requests, req'[q].pc = "insert"
        PROVE  q # r /\ req'[q] = req[q] /\ req[q].pc = "insert" /\ req[q].seen \in Nat
    BY <1>0, <2>1, <2>5, TypeOKParts DEF Known
  <2>6. DuplicatesOnlyFromOverlap'
    <3>. SUFFICES ASSUME NEW i \in DOMAIN user', NEW j \in DOMAIN user', i < j,
                         user'[i].account = user'[j].account
                  PROVE  user'[j].seen < i
      BY DEF DuplicatesOnlyFromOverlap
    <3>1. i \in DOMAIN user /\ i \in Nat
      BY <2>2
    <3>2. CASE j \in DOMAIN user
      BY <1>0, <2>3, <3>1, <3>2 DEF DuplicatesOnlyFromOverlap
    <3>3. CASE j = Len(user) + 1
      <4>1. user[i].account = req[r].ask.account /\ user'[j].seen = req[r].seen
        BY <2>3, <2>4, <3>1, <3>3
      <4>2. i \notin 1..req[r].seen
        BY <1>0, <3>1, <4>1 DEF Checked, Account
      <4>. QED  BY <2>2, <2>4, <3>1, <4>1, <4>2
    <3>. QED  BY <2>2, <3>2, <3>3
  <2>7. Checked'
    <3>. SUFFICES ASSUME NEW q \in Requests, req'[q].pc = "insert", NEW i \in 1..req'[q].seen
                  PROVE  i \in DOMAIN user' /\ user'[i].account # req'[q].ask.account
      BY DEF Checked, Account
    <3>1. req'[q] = req[q] /\ req[q].pc = "insert"
      BY <2>5
    <3>2. i \in DOMAIN user /\ user[i].account # req[q].ask.account
      BY <1>0, <3>1 DEF Checked, Account
    <3>. QED  BY <2>2, <2>3, <3>1, <3>2
  <2>. QED  BY <2>6, <2>7
<1>. QED  BY <1>2, <1>3 DEF InsertUser

LEMMA UpdateCookieIsQuiet ==
    ASSUME TypeOK, NEW r \in Requests, UpdateCookie(r)
    PROVE  Quiet
<1>1. CASE UpdateFailed(r) /\ user' = user
  BY <1>1, UpdateFailedIsQuiet
<1>. DEFINE c == NewCookie(req[r].time, req[r].uid)
<1>2. CASE /\ user' = [i \in DOMAIN user |->
                         IF user[i].account = Account(r)
                         THEN [user[i] EXCEPT !.id_cookie = c, !.by = r] ELSE user[i]]
           /\ Goto(r, "cookie")
  <2>1. /\ req \in [Requests -> State] /\ \A i \in DOMAIN user : user[i] \in Row
    BY TypeOKParts DEF Shape
  <2>2. DOMAIN user' = DOMAIN user
    BY <1>2
  <2>3. ASSUME NEW i \in DOMAIN user
        PROVE  user'[i].account = user[i].account /\ user'[i].seen = user[i].seen
    BY <1>2, <2>1 DEF Row
  <2>4. req' = [req EXCEPT ![r] = [req[r] EXCEPT !.pc = "cookie"]]
    BY <1>2, <2>1 DEF Goto
  <2>5. [req[r] EXCEPT !.pc = "cookie"].pc = "cookie"
    BY <2>1 DEF State
  <2>6. ASSUME NEW q \in Requests, req'[q].pc = "insert" PROVE req'[q] = req[q]
    BY <2>1, <2>4, <2>5, <2>6
  <2>. QED  BY <2>2, <2>3, <2>6 DEF Quiet
<1>. QED  BY <1>1, <1>2 DEF UpdateCookie

LEMMA HandlerChecks ==
    ASSUME DInv, NEW r \in Requests, Handler(r)
    PROVE  Checked' /\ DuplicatesOnlyFromOverlap'
<1>0. TypeOK /\ req \in [Requests -> State]
  BY TypeOKParts DEF DInv, Shape
<1>1. CASE \E a : Answer(r, a) /\ user' = user
  BY <1>0, <1>1, AnswerIsQuiet, QuietKeeps
<1>2. CASE \E s : s.pc # "insert" /\ req' = [req EXCEPT ![r] = s] /\ user' = user
  BY <1>0, <1>2, StepIsQuiet, QuietKeeps
<1>3. CASE SelectId(r)
  BY <1>3, SelectIdChecks
<1>4. CASE InsertUser(r)
  BY <1>4, InsertUserChecks
<1>5. CASE UpdateCookie(r)
  BY <1>0, <1>5, UpdateCookieIsQuiet, QuietKeeps
<1>6. CASE WrongArguments(r) \/ Get(r) \/ Logout(r) \/ InsertPost(r)
  BY <1>1, <1>6 DEF WrongArguments, Get, Logout, InsertPost, tables
<1>7. CASE SelectPassword(r)
  <2>. DEFINE s == [req[r] EXCEPT !.pc = "uid", !.answer = "index"]
  <2>1. user' = user
    BY <1>7 DEF SelectPassword, tables
  <2>2. \/ \E a : Answer(r, a)
        \/ req' = [req EXCEPT ![r].pc = "uid", ![r].answer = "index"]
        \/ req' = req
    BY <1>7 DEF SelectPassword
  <2>3. s.pc # "insert"
    BY <1>0 DEF State
  <2>4. CASE req' = [req EXCEPT ![r].pc = "uid", ![r].answer = "index"]
    <3>1. req' = [req EXCEPT ![r] = s]
      BY <1>0, <2>4
    <3>. QED  BY <1>2, <2>1, <2>3, <3>1
  <2>5. CASE req' = req
    BY <2>1, <2>5, QuietKeeps DEF Quiet
  <2>. QED  BY <1>1, <2>1, <2>2, <2>4, <2>5
<1>8. CASE SelectUid(r)
  <2>1. user' = user
    BY <1>8 DEF SelectUid, tables
  <2>. DEFINE l == Least(WithAccount(Account(r)))
              s == [req[r] EXCEPT !.pc = "update", !.time = now, !.uid = l]
  <2>2. CASE req' = [req EXCEPT ![r].pc = "update", ![r].time = now, ![r].uid = l]
    <3>1. req' = [req EXCEPT ![r] = s]
      BY <1>0, <2>2
    <3>2. s.pc # "insert"
      BY <1>0 DEF State
    <3>. QED  BY <1>2, <2>1, <3>1, <3>2
  <2>3. CASE UpdateFailed(r)
    BY <1>0, <2>1, <2>3, UpdateFailedIsQuiet, QuietKeeps
  <2>. QED  BY <1>8, <2>2, <2>3 DEF SelectUid
<1>9. CASE SelectCookie(r)
  <2>1. user' = user
    BY <1>9 DEF SelectCookie, tables
  <2>. DEFINE c == user[Least(WithAccount(Account(r)))].id_cookie
              s == [req[r] EXCEPT !.pc = "reply", !.set = c]
  <2>2. CASE req' = [req EXCEPT ![r].pc = "reply", ![r].set = c]
    <3>1. req' = [req EXCEPT ![r] = s]
      BY <1>0, <2>2
    <3>2. s.pc # "insert"
      BY <1>0 DEF State
    <3>. QED  BY <1>2, <2>1, <3>1, <3>2
  <2>3. CASE Goto(r, "reply")
    BY <1>0, <2>1, <2>3, GotoIsQuiet, QuietKeeps
  <2>. QED  BY <1>9, <2>2, <2>3 DEF SelectCookie
<1>10. CASE SelectAuthor(r)
  <2>1. user' = user
    BY <1>10 DEF SelectAuthor, tables
  <2>. DEFINE l == Least(WithCookie(req[r].cookie.uuid))
              s == [req[r] EXCEPT !.pc = "post", !.uid = l]
  <2>2. CASE req' = [req EXCEPT ![r].pc = "post", ![r].uid = l]
    <3>1. req' = [req EXCEPT ![r] = s]
      BY <1>0, <2>2
    <3>2. s.pc # "insert"
      BY <1>0 DEF State
    <3>. QED  BY <1>2, <2>1, <3>1, <3>2
  <2>3. CASE \E a : Answer(r, a)
    BY <1>1, <2>1, <2>3
  <2>. QED  BY <1>10, <2>2, <2>3 DEF SelectAuthor
<1>. QED  BY <1>3, <1>4, <1>5, <1>6, <1>7, <1>8, <1>9, <1>10 DEF Handler

(* Two rows of one account come from signups whose handlers overlapped, for *)
(* any number of requests, browsers and names.                              *)
THEOREM Duplicates == Spec => []DuplicatesOnlyFromOverlap
<1>1. Init => DInv
  <2>1. Init => TypeOK
    BY InitTypes
  <2>. QED  BY <2>1 DEF Init, Unsent, DInv, Checked, DuplicatesOnlyFromOverlap
<1>2. DInv /\ [Next]_vars => DInv'
  <2>. SUFFICES ASSUME DInv, [Next]_vars PROVE DInv'
    OBVIOUS
  <2>0. TypeOK /\ req \in [Requests -> State]
    BY TypeOKParts DEF DInv, Shape
  <2>1. TypeOK'
    BY <2>0, NextTypes
  <2>2. ASSUME Tick \/ UNCHANGED vars
        PROVE  Checked' /\ DuplicatesOnlyFromOverlap'
    <3>1. user' = user /\ req' = req
      BY <2>2 DEF Tick, vars, tables
    <3>. QED  BY <3>1, QuietKeeps DEF Quiet
  <2>3. ASSUME NEW r \in Requests, Handler(r)
        PROVE  Checked' /\ DuplicatesOnlyFromOverlap'
    BY <2>3, HandlerChecks
  <2>4. ASSUME NEW r \in Requests, Reply(r)
        PROVE  Checked' /\ DuplicatesOnlyFromOverlap'
    <3>. DEFINE s == [Unsent EXCEPT !.pc = "done", !.ask = req[r].ask,
                                    !.cookie = req[r].cookie, !.answer = req[r].answer]
    <3>1. req' = [req EXCEPT ![r] = s] /\ user' = user /\ s.pc # "insert"
      BY <2>4 DEF Reply, tables, Unsent
    <3>. QED  BY <2>0, <3>1, StepIsQuiet, QuietKeeps
  <2>5. ASSUME NEW r \in Requests, NEW a \in Asks[r], Send(r, a)
        PROVE  Checked' /\ DuplicatesOnlyFromOverlap'
    <3>. DEFINE s == [Unsent EXCEPT !.pc = a.kind, !.ask = a, !.cookie = jar[a.browser]]
    <3>1. a.kind # "insert"
      BY WebAssumption DEF Ask, Kinds
    <3>2. req' = [req EXCEPT ![r] = s] /\ user' = user /\ s.pc # "insert"
      BY <2>5, <3>1 DEF Send, tables, Unsent
    <3>. QED  BY <2>0, <3>2, StepIsQuiet, QuietKeeps
  <2>. QED  BY <2>1, <2>2, <2>3, <2>4, <2>5 DEF Next, DInv
<1>3. DInv => DuplicatesOnlyFromOverlap
  BY DEF DInv
<1>. QED  BY <1>1, <1>2, <1>3, PTL DEF Spec

-----------------------------------------------------------------------------
(* Answers.  A handler that has not answered has no row of its own, or is   *)
(* setting the cookie and knows what to answer; after that it has its row,  *)
(* or its post, exactly if it answers so.                                   *)
Rows(r) == {i \in DOMAIN user : user[i].from = r}
Posts(r) == {i \in DOMAIN bulletin : bulletin[i].from = r}

Undecided == Kinds \cup {"none", "insert", "post"}
Setting == {"uid", "update", "cookie"}
One(S) == \E i : S = {i}
Tells(s, rows, posts) ==
    /\ s.pc \in Undecided => rows = {} /\ posts = {}
    /\ s.pc \in Setting => s.answer \in {"index", "success"}
    /\ s.pc \notin Undecided =>
          /\ IF s.answer = "success" THEN One(rows) ELSE rows = {}
          /\ IF s.answer = "bulletin" THEN One(posts) ELSE posts = {}

AllTell == \A r \in Requests : Tells(req[r], Rows(r), Posts(r))

LEMMA StepTells ==
    ASSUME TypeOK, AllTell, NEW r \in Requests, NEW s, req' = [req EXCEPT ![r] = s],
           Tells(s, Rows(r)', Posts(r)'),
           \A q \in Requests \ {r} : Rows(q)' = Rows(q) /\ Posts(q)' = Posts(q)
    PROVE  AllTell'
<1>1. req \in [Requests -> State]
  BY TypeOKParts DEF Shape
<1>2. ASSUME NEW q \in Requests PROVE Tells(req'[q], Rows(q)', Posts(q)')
  <2>1. CASE q = r
    BY <1>1, <2>1
  <2>2. CASE q # r
    <3>1. req'[q] = req[q] /\ Rows(q)' = Rows(q) /\ Posts(q)' = Posts(q)
      BY <1>1, <2>2
    <3>. QED  BY <3>1 DEF AllTell
  <2>. QED  BY <2>1, <2>2
<1>. QED  BY <1>2 DEF AllTell

(* A step that adds no row. *)
LEMMA ReadTells ==
    ASSUME TypeOK, AllTell, NEW r \in Requests, NEW s, req' = [req EXCEPT ![r] = s],
           Tells(s, Rows(r), Posts(r)), UNCHANGED tables
    PROVE  AllTell'
<1>1. \A q \in Requests : Rows(q)' = Rows(q) /\ Posts(q)' = Posts(q)
  BY DEF Rows, Posts, tables
<1>. QED  BY <1>1, StepTells

LEMMA AnswerTells ==
    ASSUME TypeOK, AllTell, NEW r \in Requests, NEW a, Answer(r, a), UNCHANGED tables,
           req[r].pc \in Undecided, a \notin {"success", "bulletin"}
    PROVE  AllTell'
<1>. DEFINE s == [req[r] EXCEPT !.pc = "reply", !.answer = a]
<1>1. req \in [Requests -> State] /\ Tells(req[r], Rows(r), Posts(r))
  BY TypeOKParts DEF Shape, AllTell
<1>2. req' = [req EXCEPT ![r] = s]
  BY <1>1 DEF Answer
<1>3. s.pc = "reply" /\ s.answer = a
  BY <1>1 DEF State
<1>4. Tells(s, Rows(r), Posts(r))
  BY <1>1, <1>3 DEF Tells, Undecided, Setting, Kinds
<1>. QED  BY <1>2, <1>4, ReadTells

(* A step of a handler that is setting the cookie: the answer stays. *)
LEMMA SettingTells ==
    ASSUME TypeOK, AllTell, NEW r \in Requests, NEW s, req' = [req EXCEPT ![r] = s],
           req[r].pc \in Setting, s.pc \in Setting \cup {"reply"}, s.answer = req[r].answer,
           \A q \in Requests : Rows(q)' = Rows(q), UNCHANGED bulletin
    PROVE  AllTell'
<1>1. Tells(req[r], Rows(r), Posts(r))
  BY DEF AllTell
<1>2. Tells(s, Rows(r)', Posts(r)')
  BY <1>1 DEF Tells, Undecided, Setting, Kinds, Posts
<1>. QED  BY <1>2, StepTells DEF Posts

LEMMA GotoTells ==
    ASSUME TypeOK, AllTell, NEW r \in Requests, NEW pc \in {"cookie", "reply"}, Goto(r, pc),
           req[r].pc \in Setting, \A q \in Requests : Rows(q)' = Rows(q), UNCHANGED bulletin
    PROVE  AllTell'
<1>. DEFINE s == [req[r] EXCEPT !.pc = pc]
<1>1. req \in [Requests -> State]
  BY TypeOKParts DEF Shape
<1>2. req' = [req EXCEPT ![r] = s]
  BY <1>1 DEF Goto
<1>3. s.pc = pc /\ s.answer = req[r].answer
  BY <1>1 DEF State
<1>. QED  BY <1>2, <1>3, SettingTells DEF Setting

LEMMA UpdateFailedTells ==
    ASSUME TypeOK, AllTell, NEW r \in Requests, UpdateFailed(r),
           req[r].pc \in Setting, \A q \in Requests : Rows(q)' = Rows(q), UNCHANGED bulletin
    PROVE  AllTell'
BY GotoTells DEF UpdateFailed

-----------------------------------------------------------------------------
LEMMA SelectPasswordTells ==
    ASSUME TypeOK, AllTell, NEW r \in Requests, SelectPassword(r)
    PROVE  AllTell'
<1>0. /\ req \in [Requests -> State] /\ Tells(req[r], Rows(r), Posts(r))
      /\ req[r].pc = "login" /\ UNCHANGED tables
  BY TypeOKParts DEF Shape, AllTell, SelectPassword, FormAt, At
<1>. DEFINE s == [req[r] EXCEPT !.pc = "uid", !.answer = "index"]
<1>1. \/ \E a \in {"no account", "wrong password", "500"} : Answer(r, a)
      \/ req' = [req EXCEPT ![r].pc = "uid", ![r].answer = "index"]
      \/ req' = req
  BY DEF SelectPassword
<1>2. ASSUME NEW a \in {"no account", "wrong password", "500"}, Answer(r, a)
      PROVE  AllTell'
  BY <1>0, <1>2, AnswerTells DEF Undecided, Kinds
<1>3. CASE req' = [req EXCEPT ![r].pc = "uid", ![r].answer = "index"]
  <2>1. req' = [req EXCEPT ![r] = s] /\ s.pc = "uid" /\ s.answer = "index"
    BY <1>0, <1>3 DEF State
  <2>2. Tells(s, Rows(r), Posts(r))
    BY <1>0, <2>1 DEF Tells, Undecided, Setting, Kinds
  <2>. QED  BY <1>0, <2>1, <2>2, ReadTells
<1>4. CASE req' = req
  BY <1>0, <1>4 DEF AllTell, Rows, Posts, tables
<1>. QED  BY <1>1, <1>2, <1>3, <1>4

LEMMA SelectIdTells ==
    ASSUME TypeOK, AllTell, NEW r \in Requests, SelectId(r)
    PROVE  AllTell'
<1>0. /\ req \in [Requests -> State] /\ Tells(req[r], Rows(r), Posts(r))
      /\ req[r].pc = "signup" /\ UNCHANGED tables
  BY TypeOKParts DEF Shape, AllTell, SelectId, FormAt, At
<1>. DEFINE s == [req[r] EXCEPT !.pc = "insert", !.seen = Len(user)]
<1>1. \/ \E a \in {"exists", "500"} : Answer(r, a)
      \/ req' = [req EXCEPT ![r].pc = "insert", ![r].seen = Len(user)]
  BY DEF SelectId
<1>2. ASSUME NEW a \in {"exists", "500"}, Answer(r, a)
      PROVE  AllTell'
  BY <1>0, <1>2, AnswerTells DEF Undecided, Kinds
<1>3. CASE req' = [req EXCEPT ![r].pc = "insert", ![r].seen = Len(user)]
  <2>1. req' = [req EXCEPT ![r] = s] /\ s.pc = "insert"
    BY <1>0, <1>3 DEF State
  <2>2. Tells(s, Rows(r), Posts(r))
    BY <1>0, <2>1 DEF Tells, Undecided, Setting, Kinds
  <2>. QED  BY <1>0, <2>1, <2>2, ReadTells
<1>. QED  BY <1>1, <1>2, <1>3

LEMMA InsertUserTells ==
    ASSUME TypeOK, AllTell, NEW r \in Requests, InsertUser(r)
    PROVE  AllTell'
<1>0. /\ Shape /\ Known(req[r], user) /\ req[r] \in State
      /\ Tells(req[r], Rows(r), Posts(r))
      /\ req[r].pc = "insert" /\ bulletin' = bulletin
  BY TypeOKParts DEF Shape, AllTell, InsertUser, At
<1>. DEFINE row == [account |-> Account(r), password |-> req[r].ask.password, id_cookie |-> 0,
                    from |-> r, seen |-> req[r].seen, by |-> None]
            s == [req[r] EXCEPT !.pc = "uid", !.answer = "success"]
<1>1. CASE Answer(r, "500") /\ user' = user
  BY <1>0, <1>1, AnswerTells DEF tables, Undecided
<1>2. CASE user' = Append(user, row) /\ req' = [req EXCEPT ![r].pc = "uid", ![r].answer = "success"]
  <2>1. req' = [req EXCEPT ![r] = s] /\ s.pc = "uid" /\ s.answer = "success"
    BY <1>0, <1>2 DEF Shape, State
  <2>2. /\ DOMAIN user' = DOMAIN user \cup {Len(user) + 1}
        /\ Len(user) + 1 \notin DOMAIN user
        /\ \A i \in DOMAIN user : user'[i] = user[i]
        /\ user'[Len(user) + 1] = row /\ row.from = r
    BY <1>0, <1>2 DEF Shape
  <2>3. Rows(r) = {} /\ Posts(r) = {}
    BY <1>0 DEF Tells, Undecided
  <2>4. \A q \in Requests \ {r} : Rows(q)' = Rows(q)
    BY <2>2 DEF Rows
  <2>5. Rows(r)' = {Len(user) + 1}
    BY <2>2, <2>3 DEF Rows
  <2>6. \A q \in Requests : Posts(q)' = Posts(q)
    BY <1>0 DEF Posts
  <2>7. Tells(s, Rows(r)', Posts(r)')
    BY <2>1, <2>3, <2>5, <2>6 DEF Tells, One, Undecided, Kinds
  <2>. QED  BY <2>1, <2>4, <2>6, <2>7, StepTells
<1>. QED  BY <1>1, <1>2 DEF InsertUser

LEMMA InsertPostTells ==
    ASSUME TypeOK, AllTell, NEW r \in Requests, InsertPost(r)
    PROVE  AllTell'
<1>0. /\ Shape /\ req[r] \in State
      /\ Tells(req[r], Rows(r), Posts(r))
      /\ req[r].pc = "post" /\ user' = user
  BY TypeOKParts DEF Shape, AllTell, InsertPost, At
<1>. DEFINE post == [user_id |-> req[r].uid, from |-> r]
            s == [req[r] EXCEPT !.pc = "reply", !.answer = "bulletin"]
<1>1. CASE Answer(r, "try again later") /\ bulletin' = bulletin
  BY <1>0, <1>1, AnswerTells DEF tables, Undecided
<1>2. CASE bulletin' = Append(bulletin, post) /\ Answer(r, "bulletin")
  <2>1. req' = [req EXCEPT ![r] = s] /\ s.pc = "reply" /\ s.answer = "bulletin"
    BY <1>0, <1>2 DEF Shape, State, Answer
  <2>2. /\ DOMAIN bulletin' = DOMAIN bulletin \cup {Len(bulletin) + 1}
        /\ Len(bulletin) + 1 \notin DOMAIN bulletin
        /\ \A i \in DOMAIN bulletin : bulletin'[i] = bulletin[i]
        /\ bulletin'[Len(bulletin) + 1] = post /\ post.from = r
    BY <1>0, <1>2 DEF Shape
  <2>3. Rows(r) = {} /\ Posts(r) = {}
    BY <1>0 DEF Tells, Undecided
  <2>4. \A q \in Requests \ {r} : Posts(q)' = Posts(q)
    BY <2>2 DEF Posts
  <2>5. Posts(r)' = {Len(bulletin) + 1}
    BY <2>2, <2>3 DEF Posts
  <2>6. \A q \in Requests : Rows(q)' = Rows(q)
    BY <1>0 DEF Rows
  <2>7. Tells(s, Rows(r)', Posts(r)')
    BY <2>1, <2>3, <2>5, <2>6 DEF Tells, One, Undecided, Setting, Kinds
  <2>. QED  BY <2>1, <2>4, <2>6, <2>7, StepTells
<1>. QED  BY <1>1, <1>2 DEF InsertPost

LEMMA SelectUidTells ==
    ASSUME TypeOK, AllTell, NEW r \in Requests, SelectUid(r)
    PROVE  AllTell'
<1>0. /\ req \in [Requests -> State] /\ req[r].pc \in Setting
      /\ \A q \in Requests : Rows(q)' = Rows(q)
      /\ UNCHANGED bulletin
  BY TypeOKParts DEF Shape, SelectUid, At, Setting, Rows, tables
<1>. DEFINE l == Least(WithAccount(Account(r)))
            s == [req[r] EXCEPT !.pc = "update", !.time = now, !.uid = l]
<1>1. CASE req' = [req EXCEPT ![r].pc = "update", ![r].time = now, ![r].uid = l]
  <2>1. req' = [req EXCEPT ![r] = s]
    BY <1>0, <1>1
  <2>2. s.pc = "update" /\ s.answer = req[r].answer
    BY <1>0 DEF State
  <2>. QED  BY <1>0, <2>1, <2>2, SettingTells DEF Setting
<1>2. CASE UpdateFailed(r)
  BY <1>0, <1>2, UpdateFailedTells
<1>. QED  BY <1>1, <1>2 DEF SelectUid

LEMMA UpdateCookieTells ==
    ASSUME TypeOK, AllTell, NEW r \in Requests, UpdateCookie(r)
    PROVE  AllTell'
<1>0. req[r].pc \in Setting /\ UNCHANGED bulletin
  BY DEF UpdateCookie, At, Setting
<1>1. \A i \in DOMAIN user : user[i] \in Row
  BY TypeOKParts DEF Shape
<1>. DEFINE c == NewCookie(req[r].time, req[r].uid)
<1>2. CASE UpdateFailed(r) /\ user' = user
  BY <1>0, <1>2, UpdateFailedTells DEF Rows
<1>3. CASE /\ user' = [i \in DOMAIN user |->
                         IF user[i].account = Account(r)
                         THEN [user[i] EXCEPT !.id_cookie = c, !.by = r] ELSE user[i]]
           /\ Goto(r, "cookie")
  <2>1. DOMAIN user' = DOMAIN user
    BY <1>3
  <2>2. ASSUME NEW i \in DOMAIN user PROVE user'[i].from = user[i].from
    BY <1>1, <1>3 DEF Row
  <2>3. \A q \in Requests : Rows(q)' = Rows(q)
    BY <2>1, <2>2 DEF Rows
  <2>. QED  BY <1>0, <1>3, <2>3, GotoTells
<1>. QED  BY <1>2, <1>3 DEF UpdateCookie

LEMMA SelectCookieTells ==
    ASSUME TypeOK, AllTell, NEW r \in Requests, SelectCookie(r)
    PROVE  AllTell'
<1>0. /\ req \in [Requests -> State] /\ req[r].pc \in Setting
      /\ \A q \in Requests : Rows(q)' = Rows(q)
      /\ UNCHANGED bulletin
  BY TypeOKParts DEF Shape, SelectCookie, At, Setting, Rows, tables
<1>. DEFINE c == user[Least(WithAccount(Account(r)))].id_cookie
            s == [req[r] EXCEPT !.pc = "reply", !.set = c]
<1>1. CASE req' = [req EXCEPT ![r].pc = "reply", ![r].set = c]
  <2>1. req' = [req EXCEPT ![r] = s]
    BY <1>0, <1>1
  <2>2. s.pc = "reply" /\ s.answer = req[r].answer
    BY <1>0 DEF State
  <2>. QED  BY <1>0, <2>1, <2>2, SettingTells
<1>2. CASE Goto(r, "reply")
  BY <1>0, <1>2, GotoTells
<1>. QED  BY <1>1, <1>2 DEF SelectCookie

LEMMA SelectAuthorTells ==
    ASSUME TypeOK, AllTell, NEW r \in Requests, SelectAuthor(r)
    PROVE  AllTell'
<1>0. /\ req \in [Requests -> State] /\ Tells(req[r], Rows(r), Posts(r))
      /\ req[r].pc = "whoami" /\ UNCHANGED tables
  BY TypeOKParts DEF Shape, AllTell, SelectAuthor, FormAt, At
<1>. DEFINE l == Least(WithCookie(req[r].cookie.uuid))
            s == [req[r] EXCEPT !.pc = "post", !.uid = l]
<1>1. \/ \E a \in {"login first", "invalid cookie"} : Answer(r, a)
      \/ req' = [req EXCEPT ![r].pc = "post", ![r].uid = l]
  <2>1. \/ Answer(r, "login first") \/ Answer(r, "invalid cookie")
        \/ req' = [req EXCEPT ![r].pc = "post", ![r].uid = l]
    BY Zenon DEF SelectAuthor
  <2>. QED  BY <2>1
<1>2. ASSUME NEW a \in {"login first", "invalid cookie"}, Answer(r, a)
      PROVE  AllTell'
  BY <1>0, <1>2, AnswerTells DEF Undecided, Kinds
<1>3. CASE req' = [req EXCEPT ![r].pc = "post", ![r].uid = l]
  <2>1. req' = [req EXCEPT ![r] = s] /\ s.pc = "post"
    BY <1>0, <1>3 DEF State
  <2>2. Tells(s, Rows(r), Posts(r))
    BY <1>0, <2>1 DEF Tells, Undecided, Setting, Kinds
  <2>. QED  BY <1>0, <2>1, <2>2, ReadTells
<1>. QED  BY <1>1, <1>2, <1>3

LEMMA ShortHandlersTell ==
    ASSUME TypeOK, AllTell, NEW r \in Requests, WrongArguments(r) \/ Get(r) \/ Logout(r)
    PROVE  AllTell'
<1>1. /\ req[r].pc \in Undecided /\ UNCHANGED tables
      /\ \E a \in {"wrong arguments", "index", "form", "logged out"} : Answer(r, a)
  BY DEF WrongArguments, Get, Logout, At, Undecided, Kinds
<1>. QED  BY <1>1, AnswerTells

LEMMA SendTells ==
    ASSUME TypeOK, AllTell, NEW r \in Requests, NEW a \in Asks[r], Send(r, a)
    PROVE  AllTell'
<1>. DEFINE s == [Unsent EXCEPT !.pc = a.kind, !.ask = a, !.cookie = jar[a.browser]]
<1>1. a.kind \in Kinds
  BY WebAssumption DEF Ask
<1>2. req' = [req EXCEPT ![r] = s] /\ UNCHANGED tables /\ req[r].pc = "none" /\ s.pc = a.kind
  BY DEF Send, At, Unsent
<1>3. Tells(s, Rows(r), Posts(r))
  BY <1>1, <1>2 DEF AllTell, Tells, Undecided, Setting, Kinds
<1>. QED  BY <1>2, <1>3, ReadTells

LEMMA ReplyTells ==
    ASSUME TypeOK, AllTell, NEW r \in Requests, Reply(r)
    PROVE  AllTell'
<1>. DEFINE s == [Unsent EXCEPT !.pc = "done", !.ask = req[r].ask,
                                !.cookie = req[r].cookie, !.answer = req[r].answer]
<1>1. /\ req' = [req EXCEPT ![r] = s] /\ UNCHANGED tables /\ req[r].pc = "reply"
      /\ s.pc = "done" /\ s.answer = req[r].answer
  BY DEF Reply, At, Unsent
<1>2. Tells(s, Rows(r), Posts(r))
  BY <1>1 DEF AllTell, Tells, Undecided, Setting, Kinds
<1>. QED  BY <1>1, <1>2, ReadTells

(* Who is told of success has its row, once; who posted, its post; and      *)
(* nobody else has one, whichever statement failed.                         *)
THEOREM AnswersTell == Spec => []AnswersTellTheOutcome
<1>1. Init => AllTell
  BY DEF Init, AllTell, Tells, Rows, Posts, Unsent, Undecided, Setting, Kinds
<1>2. TypeOK /\ AllTell /\ [Next]_vars => AllTell'
  <2>. SUFFICES ASSUME TypeOK, AllTell, [Next]_vars PROVE AllTell'
    OBVIOUS
  <2>1. ASSUME Tick \/ UNCHANGED vars PROVE AllTell'
    <3>1. req' = req /\ user' = user /\ bulletin' = bulletin
      BY <2>1 DEF Tick, vars, tables
    <3>. QED  BY <3>1 DEF AllTell, Rows, Posts
  <2>2. ASSUME NEW r \in Requests, Handler(r) PROVE AllTell'
    BY <2>2, ShortHandlersTell, SelectPasswordTells, SelectIdTells, InsertUserTells,
       SelectUidTells, UpdateCookieTells, SelectCookieTells, SelectAuthorTells,
       InsertPostTells DEF Handler
  <2>. QED  BY <2>1, <2>2, SendTells, ReplyTells DEF Next
<1>3. AllTell => AnswersTellTheOutcome
  <2>. SUFFICES ASSUME AllTell, NEW r \in Requests, req[r].pc \in {"reply", "done"}
                PROVE  /\ Cardinality(Rows(r)) = IF req[r].answer = "success" THEN 1 ELSE 0
                       /\ Cardinality(Posts(r)) = IF req[r].answer = "bulletin" THEN 1 ELSE 0
    BY DEF AnswersTellTheOutcome, Rows, Posts
  <2>1. /\ IF req[r].answer = "success" THEN One(Rows(r)) ELSE Rows(r) = {}
        /\ IF req[r].answer = "bulletin" THEN One(Posts(r)) ELSE Posts(r) = {}
    BY DEF AllTell, Tells, Undecided, Kinds
  <2>. QED  BY <2>1, FS_EmptySet, FS_Singleton DEF One
<1>. QED  BY <1>1, <1>2, <1>3, TypeCorrect, PTL DEF Spec
=============================================================================
