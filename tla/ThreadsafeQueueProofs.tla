----------------------- MODULE ThreadsafeQueueProofs -----------------------
(* Theorems about ThreadsafeQueue, for any threads, values and overloads. *)
EXTENDS ThreadsafeQueue, TLAPS, FiniteSetTheorems

(* Popping the front leaves a well-typed queue, and the front was in it. *)
LEMMA HandOverTypes ==
    ASSUME TypeOK, HandOver
    PROVE  /\ data_queue' \in Seq(Slot)
           /\ data_queue' # <<>> => Tail(data_queue') \in Seq(Values)
           /\ taken' \in Seq(Slot)
           /\ pushed' = pushed
<1>1. data_queue \in Seq(Slot) /\ data_queue # <<>>
  BY DEF TypeOK, HandOver, empty
<1>2. Head(data_queue) \in Slot /\ Tail(data_queue) \in Seq(Slot)
  BY <1>1
<1>3. Tail(data_queue) # <<>> => Tail(Tail(data_queue)) \in Seq(Values)
  BY <1>1 DEF TypeOK
<1>. QED  BY <1>2, <1>3 DEF TypeOK, HandOver

(* Every variable keeps its type, in particular a moved-from slot appears   *)
(* only where some thread calls the overload that does not pop.             *)
THEOREM TypeCorrect == Spec => []TypeOK
<1>1. Init => TypeOK
  BY DEF Init, TypeOK
<1>2. TypeOK /\ [Next]_vars => TypeOK'
  <2>. SUFFICES ASSUME TypeOK, [Next]_vars PROVE TypeOK'
    OBVIOUS
  <2>. USE DEF TypeOK
  <2>1. ASSUME NEW v \in Values, Push(v) PROVE TypeOK'
    <3>1. v \in Slot /\ Slot' = Slot
      BY DEF Slot
    <3>2. cond' \in [Threads -> {"none", "waiting", "notified"}]
      BY <2>1 DEF Push, Sleepers
    <3>3. Tail(Append(data_queue, v)) \in Seq(Values)
      <4>1. CASE data_queue = <<>>
        BY <4>1
      <4>2. CASE data_queue # <<>>
        <5>1. Tail(Append(data_queue, v)) = Append(Tail(data_queue), v)
          BY <4>2
        <5>. QED  BY <4>2, <5>1
      <4>. QED  BY <4>1, <4>2
    <3>. QED  BY <2>1, <3>1, <3>2, <3>3 DEF Push
  <2>2. ASSUME NEW t \in Threads, TryPop(t) PROVE TypeOK'
    <3>1. HandOver /\ UNCHANGED cond
      BY <2>2 DEF TryPop
    <3>. QED  BY <3>1, HandOverTypes DEF Slot
  <2>3. ASSUME NEW t \in Threads, BlockOnEmpty(t) PROVE TypeOK'
    BY <2>3 DEF BlockOnEmpty, Slot
  <2>4. ASSUME NEW t \in Threads, WaitAndPop(t) PROVE TypeOK'
    <3>1. HandOver /\ cond' = [cond EXCEPT ![t] = "none"]
      BY <2>4 DEF WaitAndPop
    <3>. QED  BY <3>1, HandOverTypes DEF Slot
  <2>5. ASSUME NEW t \in Threads, WaitAndPopPtr(t) PROVE TypeOK'
    <3>1. Moved \in Slot /\ Slot' = Slot
      BY <2>5 DEF WaitAndPopPtr, Slot
    <3>2. Head(data_queue) \in Slot /\ Tail(data_queue) \in Seq(Slot)
      BY <2>5 DEF WaitAndPopPtr, empty
    <3>3. Tail(<<Moved>> \o Tail(data_queue)) \in Seq(Values)
      <4>1. Tail(<<Moved>> \o Tail(data_queue)) = Tail(data_queue)
        BY <3>2
      <4>. QED  BY <2>5, <4>1 DEF WaitAndPopPtr, empty
    <3>. QED  BY <2>5, <3>1, <3>2, <3>3 DEF WaitAndPopPtr
  <2>6. ASSUME NEW t \in Threads, SpuriousWakeup(t) PROVE TypeOK'
    BY <2>6 DEF SpuriousWakeup, Slot
  <2>7. CASE UNCHANGED vars
    BY <2>7 DEF vars, Slot
  <2>. QED  BY <2>1, <2>2, <2>3, <2>4, <2>5, <2>6, <2>7 DEF Next
<1>. QED  BY <1>1, <1>2, PTL DEF Spec

-----------------------------------------------------------------------------
(* Appending to a sequence adds one element. *)
LEMMA AppendedSlots ==
    ASSUME NEW S, NEW s \in Seq(S), NEW v
    PROVE  InSeq(Append(s, v)) = InSeq(s) \cup {v}
<1>1. /\ DOMAIN s = 1..Len(s) /\ DOMAIN Append(s, v) = 1..(Len(s) + 1) /\ Len(s) \in Nat
      /\ Append(s, v)[Len(s) + 1] = v /\ \A i \in 1..Len(s) : Append(s, v)[i] = s[i]
  OBVIOUS
<1>2. \A i \in DOMAIN Append(s, v) : i \in DOMAIN s \/ i = Len(s) + 1
  BY <1>1
<1>3. DOMAIN s \subseteq DOMAIN Append(s, v) /\ Len(s) + 1 \in DOMAIN Append(s, v)
  BY <1>1
<1>. QED  BY <1>1, <1>2, <1>3 DEF InSeq

(* wait_and_pop() leaves the moved-from slot at the front. *)
LEMMA SlotLeftBehind ==
    ASSUME TypeOK, NEW t \in Threads, WaitAndPopPtr(t)
    PROVE  LeftBehind'
<1>1. /\ data_queue \in Seq(Slot) /\ data_queue # <<>>
      /\ data_queue' = <<Moved>> \o Tail(data_queue)
  BY DEF TypeOK, WaitAndPopPtr, empty
<1>2. 1 \in DOMAIN data_queue' /\ data_queue'[1] = Moved
  BY <1>1
<1>. QED  BY <1>2 DEF LeftBehind, InSeq

(* A slot left behind is never got rid of: HandOver hands it out, ... *)
LEMMA HandOverKeepsSlots ==
    ASSUME TypeOK, HandOver
    PROVE  InSeq(data_queue') \cup InSeq(taken') = InSeq(data_queue) \cup InSeq(taken)
<1>1. /\ data_queue \in Seq(Slot) /\ data_queue # <<>> /\ taken \in Seq(Slot)
      /\ data_queue' = Tail(data_queue) /\ taken' = Append(taken, Head(data_queue))
  BY DEF TypeOK, HandOver, empty
<1>2. InSeq(data_queue) = InSeq(Tail(data_queue)) \cup {Head(data_queue)}
  <2>1. /\ Len(data_queue) \in Nat \ {0} /\ Head(data_queue) = data_queue[1]
        /\ \A i \in 1..(Len(data_queue) - 1) : Tail(data_queue)[i] = data_queue[i + 1]
        /\ DOMAIN data_queue = 1..Len(data_queue)
        /\ DOMAIN Tail(data_queue) = 1..(Len(data_queue) - 1)
    BY <1>1
  <2>2. \A i \in DOMAIN data_queue : i = 1 \/ i - 1 \in DOMAIN Tail(data_queue)
    BY <2>1
  <2>3. ASSUME NEW i \in DOMAIN data_queue
        PROVE  data_queue[i] \in InSeq(Tail(data_queue)) \cup {Head(data_queue)}
    <3>1. CASE i = 1
      BY <2>1, <3>1
    <3>2. CASE i # 1
      <4>1. i - 1 \in DOMAIN Tail(data_queue) /\ Tail(data_queue)[i - 1] = data_queue[i]
        BY <2>1, <3>2
      <4>. QED  BY <4>1 DEF InSeq
    <3>. QED  BY <3>1, <3>2
  <2>4. ASSUME NEW i \in DOMAIN Tail(data_queue)
        PROVE  Tail(data_queue)[i] \in InSeq(data_queue)
    <3>1. i + 1 \in DOMAIN data_queue /\ Tail(data_queue)[i] = data_queue[i + 1]
      BY <2>1
    <3>. QED  BY <3>1 DEF InSeq
  <2>5. Head(data_queue) \in InSeq(data_queue)
    BY <2>1 DEF InSeq
  <2>. QED  BY <2>3, <2>4, <2>5 DEF InSeq
<1>3. InSeq(taken') = InSeq(taken) \cup {Head(data_queue)}
  BY <1>1, AppendedSlots
<1>. QED  BY <1>1, <1>2, <1>3

(* ... and nothing else moves it. *)
LEMMA LeftBehindStays ==
    ASSUME TypeOK, [Next]_vars, LeftBehind
    PROVE  LeftBehind'
<1>1. ASSUME NEW v \in Values, Push(v) PROVE LeftBehind'
  <2>1. InSeq(data_queue') = InSeq(data_queue) \cup {v} /\ taken' = taken
    BY <1>1, AppendedSlots DEF TypeOK, Push
  <2>. QED  BY <2>1 DEF LeftBehind
<1>2. ASSUME NEW t \in Threads, WaitAndPopPtr(t) PROVE LeftBehind'
  BY <1>2, SlotLeftBehind
<1>3. ASSUME HandOver PROVE LeftBehind'
  BY <1>3, HandOverKeepsSlots DEF LeftBehind
<1>4. ASSUME UNCHANGED <<data_queue, taken>> PROVE LeftBehind'
  BY <1>4 DEF LeftBehind
<1>. QED
  BY <1>1, <1>2, <1>3, <1>4 DEF Next, vars, TryPop, BlockOnEmpty, WaitAndPop, SpuriousWakeup

-----------------------------------------------------------------------------
(* `place` finds the values p in out, in order; all else in out is Moved.   *)
Places(place, out, p) ==
    /\ place \in [DOMAIN p -> DOMAIN out]
    /\ \A j, k \in DOMAIN p : j < k => place[j] < place[k]
    /\ \A k \in DOMAIN p : out[place[k]] = p[k]
    /\ \A i \in DOMAIN out : out[i] = Moved \/ \E k \in DOMAIN p : place[k] = i

(* A value that is appended to both has the last place. *)
LEMMA AppendedPlace ==
    ASSUME NEW S, NEW out \in Seq(S), NEW p \in Seq(S), NEW place, NEW v,
           Places(place, out, p)
    PROVE  \E q : Places(q, Append(out, v), Append(p, v))
<1>. DEFINE n == Len(p)
            m == Len(out)
            q == [k \in 1..n + 1 |-> IF k = n + 1 THEN m + 1 ELSE place[k]]
            out2 == Append(out, v)
            p2 == Append(p, v)
<1>1. /\ n \in Nat /\ m \in Nat /\ DOMAIN p = 1..n /\ DOMAIN out = 1..m
      /\ DOMAIN p2 = 1..n + 1 /\ DOMAIN out2 = 1..m + 1
      /\ p2[n + 1] = v /\ out2[m + 1] = v
      /\ \A k \in 1..n : p2[k] = p[k]
      /\ \A i \in 1..m : out2[i] = out[i]
  OBVIOUS
<1>2. \A k \in 1..n : place[k] \in 1..m
  BY <1>1 DEF Places
<1>3. /\ q[n + 1] = m + 1
      /\ \A k \in 1..n : q[k] = place[k]
  BY <1>1
<1>4. q \in [1..n + 1 -> 1..m + 1]
  BY <1>1, <1>2
<1>. HIDE DEF n, m, q, out2, p2
<1>5. ASSUME NEW j \in 1..n + 1, NEW k \in 1..n + 1, j < k PROVE q[j] < q[k]
  <2>1. j \in 1..n
    BY <1>1, <1>5
  <2>2. CASE k = n + 1
    BY <1>1, <1>2, <1>3, <2>1, <2>2
  <2>3. CASE k \in 1..n
    BY <1>1, <1>3, <1>5, <2>1, <2>3 DEF Places
  <2>. QED  BY <1>1, <2>2, <2>3
<1>6. ASSUME NEW k \in 1..n + 1 PROVE out2[q[k]] = p2[k]
  <2>1. CASE k = n + 1
    BY <1>1, <1>3, <2>1
  <2>2. CASE k \in 1..n
    BY <1>1, <1>2, <1>3, <2>2 DEF Places
  <2>. QED  BY <1>1, <2>1, <2>2
<1>7. ASSUME NEW i \in 1..m + 1
      PROVE  out2[i] = Moved \/ \E k \in 1..n + 1 : q[k] = i
  <2>1. CASE i = m + 1
    BY <1>1, <1>3, <2>1
  <2>2. CASE i \in 1..m
    <3>1. out[i] = Moved \/ \E k \in 1..n : place[k] = i
      BY <1>1, <2>2 DEF Places
    <3>2. \A k \in 1..n : k \in 1..n + 1
      BY <1>1
    <3>. QED  BY <1>1, <1>3, <2>2, <3>1, <3>2
  <2>. QED  BY <1>1, <2>1, <2>2
<1>8. Places(q, out2, p2)
  BY <1>1, <1>4, <1>5, <1>6, <1>7 DEF Places
<1>. QED  BY <1>8 DEF out2, p2

(* A leftover put in behind position h moves the places after h by one. *)
LEMMA ShiftedPlaces ==
    ASSUME NEW S, NEW out \in Seq(S), NEW p \in Seq(S), NEW place,
           NEW in \in Seq(S \cup {Moved}), NEW h \in 0..Len(out),
           Places(place, out, p),
           Len(in) = Len(out) + 1, in[h + 1] = Moved,
           \A i \in 1..h : in[i] = out[i],
           \A i \in h + 1..Len(out) : in[i + 1] = out[i]
    PROVE  \E q : Places(q, in, p)
<1>. DEFINE m == Len(out)
            q == [k \in DOMAIN p |-> IF place[k] <= h THEN place[k] ELSE place[k] + 1]
<1>1. /\ m \in Nat /\ h \in 0..m /\ DOMAIN out = 1..m /\ DOMAIN in = 1..m + 1
      /\ DOMAIN p \subseteq Nat
  OBVIOUS
<1>2. \A k \in DOMAIN p : place[k] \in 1..m
  BY <1>1 DEF Places
<1>a. \A k \in DOMAIN p : q[k] = IF place[k] <= h THEN place[k] ELSE place[k] + 1
  OBVIOUS
<1>4. q \in [DOMAIN p -> DOMAIN in]
  BY <1>1, <1>2
<1>. HIDE DEF m, q
<1>3. \A k \in DOMAIN p :
        \/ q[k] = place[k] /\ place[k] \in 1..h
        \/ q[k] = place[k] + 1 /\ place[k] \in h + 1..m
  <2>. SUFFICES ASSUME NEW k \in DOMAIN p
                PROVE  \/ q[k] = place[k] /\ place[k] \in 1..h
                       \/ q[k] = place[k] + 1 /\ place[k] \in h + 1..m
    OBVIOUS
  <2>1. place[k] \in 1..m
    BY <1>2
  <2>2. q[k] = IF place[k] <= h THEN place[k] ELSE place[k] + 1
    BY <1>a
  <2>3. m \in Nat /\ h \in 0..m
    BY <1>1
  <2>. QED  BY <2>1, <2>2, <2>3
<1>5. ASSUME NEW j \in DOMAIN p, NEW k \in DOMAIN p, j < k PROVE q[j] < q[k]
  <2>1. place[j] < place[k]
    BY <1>5 DEF Places
  <2>2. place[j] \in 1..m /\ place[k] \in 1..m /\ m \in Nat /\ h \in 0..m
    BY <1>1, <1>2
  <2>3. /\ q[j] = IF place[j] <= h THEN place[j] ELSE place[j] + 1
        /\ q[k] = IF place[k] <= h THEN place[k] ELSE place[k] + 1
    BY <1>a
  <2>. QED  BY <2>1, <2>2, <2>3
<1>6. ASSUME NEW k \in DOMAIN p PROVE in[q[k]] = p[k]
  <2>1. out[place[k]] = p[k]
    BY DEF Places
  <2>. QED  BY <1>1, <1>3, <2>1 DEF m
<1>7. ASSUME NEW i \in DOMAIN in PROVE in[i] = Moved \/ \E k \in DOMAIN p : q[k] = i
  <2>1. i \in 1..h \/ i = h + 1 \/ i - 1 \in h + 1..m
    BY <1>1
  <2>2. CASE i \in 1..h
    <3>1. out[i] = in[i] /\ (out[i] = Moved \/ \E k \in DOMAIN p : place[k] = i)
      BY <1>1, <2>2 DEF Places, m
    <3>2. \A k \in DOMAIN p : place[k] = i => q[k] = i
      BY <1>1, <1>3, <2>2
    <3>. QED  BY <3>1, <3>2
  <2>3. CASE i - 1 \in h + 1..m
    <3>1. out[i - 1] = in[i]
      BY <1>1, <2>3 DEF m
    <3>2. out[i - 1] = Moved \/ \E k \in DOMAIN p : place[k] = i - 1
      BY <1>1, <2>3 DEF Places, m
    <3>0. i \in Nat
      BY <1>1
    <3>3. ASSUME NEW k \in DOMAIN p, place[k] = i - 1 PROVE q[k] = i
      <4>1. place[k] \notin 1..h
        BY <1>1, <2>3, <3>0, <3>3
      <4>. QED  BY <1>3, <3>0, <3>3, <4>1
    <3>. QED  BY <3>1, <3>2, <3>3
  <2>. QED  BY <2>1, <2>2, <2>3
<1>. QED  BY <1>4, <1>5, <1>6, <1>7 DEF Places

(* Each value is handed out once and in the order of the pushes, whichever  *)
(* overloads are called: wait_and_pop() leaves a moved-from slot behind but *)
(* hands no value out twice and overtakes none.                             *)
THEOREM ValuesOnceInOrder == Spec => []RealValuesOnceInOrder
<1>. DEFINE out == taken \o data_queue
<1>0. RealValuesOnceInOrder <=> \E place : Places(place, out, pushed)
  BY DEF RealValuesOnceInOrder, Places
<1>1. Init => RealValuesOnceInOrder
  <2>1. Init => Places(<<>>, <<>>, <<>>) /\ pushed = <<>> /\ out = <<>>
    BY DEF Init, Places
  <2>. QED  BY <2>1, <1>0
<1>2. TypeOK /\ RealValuesOnceInOrder /\ [Next]_vars => RealValuesOnceInOrder'
  <2>. SUFFICES ASSUME TypeOK, RealValuesOnceInOrder, [Next]_vars
                PROVE  \E place : Places(place, out', pushed')
    BY <1>0 DEF RealValuesOnceInOrder, Places
  <2>0. PICK place : Places(place, out, pushed)
    BY <1>0
  <2>t. /\ taken \in Seq(Slot) /\ data_queue \in Seq(Slot) /\ pushed \in Seq(Slot)
        /\ out \in Seq(Slot)
    BY DEF TypeOK, Slot
  <2>1. ASSUME NEW v \in Values, Push(v) PROVE \E q : Places(q, out', pushed')
    <3>1. out' = Append(out, v) /\ pushed' = Append(pushed, v)
      BY <2>1, <2>t DEF Push
    <3>. QED  BY <2>0, <2>t, <3>1, AppendedPlace
  <2>2. ASSUME HandOver PROVE \E q : Places(q, out', pushed')
    <3>1. data_queue # <<>> /\ Append(taken, Head(data_queue)) \o Tail(data_queue) = out
      BY <2>2, <2>t DEF HandOver, empty
    <3>2. out' = out /\ pushed' = pushed
      BY <2>2, <3>1 DEF HandOver
    <3>. QED  BY <2>0, <3>2
  <2>3. ASSUME NEW t \in Threads, WaitAndPopPtr(t) PROVE \E q : Places(q, out', pushed')
    <3>. DEFINE h == Len(taken) + 1
                m == Len(data_queue)
                out2 == taken' \o data_queue'
    <3>1. /\ data_queue # <<>> /\ pushed' = pushed
          /\ taken' = Append(taken, Head(data_queue))
          /\ data_queue' = <<Moved>> \o Tail(data_queue)
      BY <2>3 DEF WaitAndPopPtr, empty
    <3>2. /\ taken' \in Seq(Slot \cup {Moved}) /\ data_queue' \in Seq(Slot \cup {Moved})
          /\ Len(taken') = h /\ Len(data_queue') = m
          /\ m \in Nat \ {0} /\ h \in Nat \ {0}
          /\ taken'[h] = data_queue[1] /\ data_queue'[1] = Moved
          /\ \A i \in 1..h - 1 : taken'[i] = taken[i]
          /\ \A i \in 2..m : data_queue'[i] = data_queue[i]
      BY <2>t, <3>1
    <3>a. /\ out2 \in Seq(Slot \cup {Moved}) /\ Len(out2) = h + m
          /\ \A i \in 1..h : out2[i] = taken'[i]
          /\ \A i \in h + 1..h + m : out2[i] = data_queue'[i - h]
      BY <3>2
    <3>b. /\ Len(out) = h - 1 + m
          /\ \A i \in 1..h - 1 : out[i] = taken[i]
          /\ \A i \in h..h - 1 + m : out[i] = data_queue[i - (h - 1)]
      BY <2>t, <3>2
    <3>3. /\ out2 \in Seq(Slot \cup {Moved}) /\ Len(out) = h - 1 + m /\ Len(out2) = h + m
          /\ \A i \in 1..h : out2[i] = taken'[i]
          /\ \A i \in h + 1..h + m : out2[i] = data_queue'[i - h]
          /\ \A i \in 1..h - 1 : out[i] = taken[i]
          /\ \A i \in h..h - 1 + m : out[i] = data_queue[i - (h - 1)]
      BY <3>a, <3>b
    <3>. HIDE DEF h, m, out, out2
    <3>4. h \in 0..Len(out) /\ Len(out2) = Len(out) + 1
      BY <3>2, <3>3
    <3>5. out2[h + 1] = Moved
      BY <3>2, <3>3
    <3>6. \A i \in 1..h : out2[i] = out[i]
      BY <3>2, <3>3
    <3>7. \A i \in h + 1..Len(out) : out2[i + 1] = out[i]
      BY <3>2, <3>3
    <3>8. \E q : Places(q, out2, pushed)
      <4>1. out \in Seq(Slot) /\ pushed \in Seq(Slot) /\ out2 \in Seq(Slot \cup {Moved})
        BY <2>t, <3>3
      <4>. QED  BY <2>0, <3>4, <3>5, <3>6, <3>7, <4>1, ShiftedPlaces, SMTT(15)
    <3>. QED  BY <3>1, <3>8 DEF out, out2
  <2>4. ASSUME UNCHANGED <<data_queue, pushed, taken>> PROVE \E q : Places(q, out', pushed')
    BY <2>0, <2>4
  <2>. QED
    BY <2>1, <2>2, <2>3, <2>4 DEF Next, vars, TryPop, BlockOnEmpty, WaitAndPop, SpuriousWakeup
<1>. QED  BY <1>1, <1>2, TypeCorrect, PTL DEF Spec

-----------------------------------------------------------------------------
(* Threads asleep and threads notified are finitely many. *)
LEMMA FiniteThreads ==
    /\ IsFiniteSet(Sleepers) /\ IsFiniteSet(Notified)
    /\ Cardinality(Notified) \in Nat
<1>1. Sleepers \subseteq Threads /\ Notified \subseteq Threads
  BY DEF Sleepers, Notified
<1>. QED  BY <1>1, QueueAssumption, FS_Subset, FS_CardinalityType

(* A thread that is not notified becomes so: one more is. *)
LEMMA OneMoreNotified ==
    ASSUME TypeOK, NEW t \in Threads, cond[t] # "notified",
           cond' = [cond EXCEPT ![t] = "notified"]
    PROVE  Cardinality(Notified') = Cardinality(Notified) + 1
<1>1. Notified' = Notified \cup {t} /\ t \notin Notified
  BY DEF TypeOK, Notified
<1>. QED  BY <1>1, FiniteThreads, FS_AddElement

(* A thread leaves the condition variable: at most one fewer is notified. *)
LEMMA OneFewerNotified ==
    ASSUME TypeOK, NEW t \in Threads, NEW x \in {"none", "waiting"},
           cond' = [cond EXCEPT ![t] = x]
    PROVE  /\ Cardinality(Notified') \in Nat
           /\ Cardinality(Notified') >= Cardinality(Notified) - 1
<1>1. Notified' = Notified \ {t}
  BY DEF TypeOK, Notified
<1>2. CASE t \in Notified
  <2>1. Cardinality(Notified') = Cardinality(Notified) - 1
    BY <1>1, <1>2, FiniteThreads, FS_RemoveElement
  <2>2. Cardinality(Notified') \in Nat
    BY <1>1, FiniteThreads, FS_RemoveElement, FS_CardinalityType
  <2>. QED  BY <2>1, <2>2, FiniteThreads
<1>3. CASE t \notin Notified
  <2>1. Notified' = Notified
    BY <1>1, <1>3
  <2>. QED  BY <2>1, FiniteThreads
<1>. QED  BY <1>2, <1>3

(* While a thread sleeps in wait_and_pop, at least as many threads are      *)
(* notified as values are queued: notify_one under the lock, once per push, *)
(* loses no wakeup even when try_pop or a newcomer takes the value first.   *)
(* So it is until wait_and_pop() uses up a notification and pops nothing.   *)
THEOREM WakeupsAreNotLost == Spec => []NoLostWakeup
<1>1. Init => NoLostWakeup
  BY DEF Init, NoLostWakeup, Sleepers
<1>2. TypeOK /\ NoLostWakeup /\ [Next]_vars => NoLostWakeup'
  <2>. SUFFICES ASSUME TypeOK, NoLostWakeup, [Next]_vars, Sleepers' # {}, ~LeftBehind'
                PROVE  Len(data_queue') <= Cardinality(Notified')
    BY DEF NoLostWakeup
  <2>a. Sleepers # {} => Len(data_queue) <= Cardinality(Notified)
    BY LeftBehindStays DEF NoLostWakeup
  <2>0. /\ data_queue \in Seq(Slot) /\ Len(data_queue) \in Nat
        /\ Cardinality(Notified) \in Nat
    BY FiniteThreads DEF TypeOK
  <2>1. ASSUME NEW v \in Values, Push(v)
        PROVE  Len(data_queue') <= Cardinality(Notified')
    <3>1. Sleepers # {}
      BY <2>1 DEF Push, Sleepers
    <3>2. PICK t \in Sleepers : cond' = [cond EXCEPT ![t] = "notified"]
      BY <2>1, <3>1 DEF Push
    <3>3. Cardinality(Notified') = Cardinality(Notified) + 1
      BY <3>2, OneMoreNotified DEF Sleepers
    <3>4. Len(data_queue') = Len(data_queue) + 1
      BY <2>0, <2>1 DEF Push
    <3>. QED  BY <2>0, <2>a, <3>1, <3>3, <3>4
  <2>2. ASSUME NEW t \in Threads, TryPop(t)
        PROVE  Len(data_queue') <= Cardinality(Notified')
    <3>1. Sleepers' = Sleepers /\ Notified' = Notified
      BY <2>2 DEF TryPop, Sleepers, Notified
    <3>2. Len(data_queue') = Len(data_queue) - 1
      BY <2>0, <2>2 DEF TryPop, HandOver, empty
    <3>. QED  BY <2>0, <2>a, <3>1, <3>2
  <2>3. ASSUME NEW t \in Threads, BlockOnEmpty(t)
        PROVE  Len(data_queue') <= Cardinality(Notified')
    <3>1. Len(data_queue') = 0
      BY <2>3 DEF BlockOnEmpty, empty
    <3>2. Cardinality(Notified') \in Nat
      BY <2>3, OneFewerNotified DEF BlockOnEmpty
    <3>. QED  BY <3>1, <3>2
  <2>4. ASSUME NEW t \in Threads, WaitAndPop(t)
        PROVE  Len(data_queue') <= Cardinality(Notified')
    <3>1. Sleepers # {}
      BY <2>4 DEF WaitAndPop, Sleepers, TypeOK
    <3>2. Len(data_queue') = Len(data_queue) - 1
      BY <2>0, <2>4 DEF WaitAndPop, HandOver, empty
    <3>3. /\ Cardinality(Notified') \in Nat
          /\ Cardinality(Notified') >= Cardinality(Notified) - 1
      BY <2>4, OneFewerNotified DEF WaitAndPop
    <3>. QED  BY <2>0, <2>a, <3>1, <3>2, <3>3
  <2>5. ASSUME NEW t \in Threads, WaitAndPopPtr(t) PROVE FALSE
    BY <2>5, SlotLeftBehind
  <2>6. ASSUME NEW t \in Threads, SpuriousWakeup(t)
        PROVE  Len(data_queue') <= Cardinality(Notified')
    <3>1. Sleepers # {} /\ data_queue' = data_queue
      BY <2>6 DEF SpuriousWakeup, Sleepers
    <3>2. Cardinality(Notified') = Cardinality(Notified) + 1
      BY <2>6, OneMoreNotified DEF SpuriousWakeup
    <3>. QED  BY <2>0, <2>a, <3>1, <3>2
  <2>7. CASE UNCHANGED vars
    BY <2>7, <2>a DEF vars, Sleepers, Notified
  <2>. QED  BY <2>1, <2>2, <2>3, <2>4, <2>5, <2>6, <2>7 DEF Next
<1>. QED  BY <1>1, <1>2, TypeCorrect, PTL DEF Spec
=============================================================================
