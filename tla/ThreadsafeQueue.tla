-------------------------- MODULE ThreadsafeQueue --------------------------
(***************************************************************************)
(* tp::ThreadsafeQueue<T> (includes/thread_pool.h): a std::queue behind    *)
(* the mutex `mut`, with the condition variable `data_cond` for blocking   *)
(* consumers.  A member function holds `mut` from its first statement to   *)
(* its return, so it is one action; a wait_and_pop that finds the queue    *)
(* empty releases `mut` inside data_cond.wait and tries again when woken.  *)
(***************************************************************************)
EXTENDS Naturals, Sequences, FiniteSets

CONSTANTS
    Threads,     \* threads that call the queue
    PtrThreads,  \* those whose blocking call is the overload returning a shared_ptr
    Values,      \* values to push, each a distinct object pushed at most once
    MaxTaken,    \* bound on what is handed out: a slot left behind is so for ever
    Moved        \* a slot whose value was moved out

ASSUME QueueAssumption == /\ PtrThreads \subseteq Threads
                          /\ Moved \notin Values
                          /\ IsFiniteSet(Threads)
                          /\ MaxTaken \in Nat

VARIABLES
    data_queue,  \* the queue
    cond,        \* where each thread is in wait_and_pop
    pushed,      \* history: the values pushed, in order
    taken        \* history: the values handed to callers, in order

vars == <<data_queue, cond, pushed, taken>>

Sleepers == {t \in Threads : cond[t] = "waiting"}
Notified == {t \in Threads : cond[t] = "notified"}
InSeq(s) == {s[i] : i \in DOMAIN s}

empty == data_queue = <<>>

Init == /\ data_queue = <<>>
        /\ cond = [t \in Threads |-> "none"]
        /\ pushed = <<>>
        /\ taken = <<>>

MutPushSilent(v) ==  \* mutant: the notification is forgotten
    /\ v \in Values \ InSeq(pushed)
    /\ data_queue' = Append(data_queue, v)
    /\ pushed' = Append(pushed, v)
    /\ UNCHANGED <<cond, taken>>

MutPushFront(v) ==  \* mutant: a stack, not a queue
    /\ v \in Values \ InSeq(pushed)
    /\ data_queue' = <<v>> \o data_queue
    /\ pushed' = Append(pushed, v)
    /\ \/ Sleepers = {} /\ UNCHANGED cond
       \/ \E t \in Sleepers : cond' = [cond EXCEPT ![t] = "notified"]
    /\ UNCHANGED taken

(* push: append under the lock, then notify_one. *)
Push(v) ==
    /\ v \in Values \ InSeq(pushed)
    /\ data_queue' = Append(data_queue, v)
    /\ pushed' = Append(pushed, v)
    /\ \/ Sleepers = {} /\ UNCHANGED cond
       \/ \E t \in Sleepers : cond' = [cond EXCEPT ![t] = "notified"]
    /\ UNCHANGED taken

(* What the consuming functions share: the front is moved out and popped. *)
HandOver ==
    /\ ~empty
    /\ taken' = Append(taken, Head(data_queue))
    /\ data_queue' = Tail(data_queue)
    /\ UNCHANGED pushed

(* Both overloads of try_pop that find a value. *)
TryPop(t) ==
    /\ cond[t] = "none"
    /\ HandOver
    /\ UNCHANGED cond

(* The predicate of data_cond.wait is false: release `mut` and sleep. *)
BlockOnEmpty(t) ==
    /\ cond[t] # "waiting"
    /\ empty
    /\ cond' = [cond EXCEPT ![t] = "waiting"]
    /\ UNCHANGED <<data_queue, pushed, taken>>

(* wait_and_pop(T&), called afresh or woken. *)
WaitAndPop(t) ==
    /\ t \notin PtrThreads
    /\ cond[t] # "waiting"
    /\ HandOver
    /\ cond' = [cond EXCEPT ![t] = "none"]

(* wait_and_pop() moves the front out and returns without data_queue.pop(). *)
WaitAndPopPtr(t) ==
    /\ t \in PtrThreads
    /\ cond[t] # "waiting"
    /\ ~empty /\ Len(taken) < MaxTaken
    /\ taken' = Append(taken, Head(data_queue))
    /\ data_queue' = <<Moved>> \o Tail(data_queue)
    /\ cond' = [cond EXCEPT ![t] = "none"]
    /\ UNCHANGED pushed

(* A condition variable may wake a thread nobody notified. *)
SpuriousWakeup(t) ==
    /\ cond[t] = "waiting"
    /\ cond' = [cond EXCEPT ![t] = "notified"]
    /\ UNCHANGED <<data_queue, pushed, taken>>

Next == \/ \E v \in Values : Push(v)
        \/ \E t \in Threads : \/ TryPop(t)
                              \/ BlockOnEmpty(t)
                              \/ WaitAndPop(t)
                              \/ WaitAndPopPtr(t)
                              \/ SpuriousWakeup(t)

(* A notified thread reacquires `mut` and goes on; nobody need call anything. *)
Fairness == \A t \in Threads :
    WF_vars(/\ cond[t] = "notified"
            /\ WaitAndPop(t) \/ WaitAndPopPtr(t) \/ BlockOnEmpty(t))

Spec == Init /\ [][Next]_vars /\ Fairness

-----------------------------------------------------------------------------
(* A moved-from slot can only be left behind by the shared_ptr overload, *)
Slot == IF PtrThreads = {} THEN Values ELSE Values \cup {Moved}

(* and only at the front of the queue. *)
TypeOK == /\ data_queue \in Seq(Slot)
          /\ data_queue # <<>> => Tail(data_queue) \in Seq(Values)
          /\ cond \in [Threads -> {"none", "waiting", "notified"}]
          /\ pushed \in Seq(Values)
          /\ taken \in Seq(Slot)

(* wait_and_pop(), the overload that does not pop, has returned. *)
LeftBehind == Moved \in InSeq(data_queue) \cup InSeq(taken)

(* Each value is handed out once and in order, and none is lost, even when  *)
(* the overload that does not pop is used; what comes out besides are       *)
(* moved-from leftovers: every value has its place among what was handed    *)
(* out and what is queued, and every other place is a leftover's.           *)
RealValuesOnceInOrder ==
    LET out == taken \o data_queue
    IN  \E place \in [DOMAIN pushed -> DOMAIN out] :
            /\ \A j, k \in DOMAIN pushed : j < k => place[j] < place[k]
            /\ \A k \in DOMAIN pushed : out[place[k]] = pushed[k]
            /\ \A i \in DOMAIN out : out[i] = Moved \/ \E k \in DOMAIN pushed : place[k] = i

(* While somebody sleeps on data_cond, there is a woken thread for every    *)
(* queued value: one notify_one per push is enough, whoever takes it -- but *)
(* for the overload that wakes up and leaves the queue as long.             *)
NoLostWakeup ==
    Sleepers # {} => LeftBehind \/ Len(data_queue) <= Cardinality(Notified)

(* A queue that holds values while threads sleep does not stay so: it       *)
(* drains, or the last sleeper is woken.                                    *)
SleepersAreServed ==
    (data_queue # <<>> /\ Sleepers # {})
        ~> (data_queue = <<>> \/ Sleepers = {} \/ LeftBehind)
=============================================================================
