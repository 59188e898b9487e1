------------------------------ MODULE TaskPool ------------------------------
(***************************************************************************)
(* What a pool of threads promises whoever submits tasks to it: tasks      *)
(* start in the order they were submitted, each of them once, never more   *)
(* of them at a time than there are threads, and none after the pool is    *)
(* gone.  A task need not start: a pool may close with tasks left over.    *)
(***************************************************************************)
EXTENDS Naturals, Sequences, FiniteSets

CONSTANTS
    Tasks,  \* tasks, each a distinct object
    Width   \* number of threads

VARIABLES
    submitted,  \* the tasks submitted, in order
    started,    \* how many of them have started
    running,    \* those started and not finished
    open        \* the pool exists

vars == <<submitted, started, running, open>>

Init == submitted = <<>> /\ started = 0 /\ running = {} /\ open = TRUE

Submit(t) == /\ open
             /\ \A i \in DOMAIN submitted : submitted[i] # t
             /\ submitted' = Append(submitted, t)
             /\ UNCHANGED <<started, running, open>>

Start == /\ open
         /\ started < Len(submitted)
         /\ Cardinality(running) < Width
         /\ started' = started + 1
         /\ running' = running \cup {submitted[started + 1]}
         /\ UNCHANGED <<submitted, open>>

Finish(t) == /\ t \in running
             /\ running' = running \ {t}
             /\ UNCHANGED <<submitted, started, open>>

(* The pool closes only when every running task has finished. *)
Close == /\ open /\ running = {}
         /\ open' = FALSE
         /\ UNCHANGED <<submitted, started, running>>

Next == Start \/ Close \/ \E t \in Tasks : Submit(t) \/ Finish(t)

Spec == Init /\ [][Next]_vars
=============================================================================
