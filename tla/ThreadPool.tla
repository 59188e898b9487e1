----------------------------- MODULE ThreadPool -----------------------------
(***************************************************************************)
(* tp::ThreadPool (includes/thread_pool.h): `thread_count` workers poll a  *)
(* ThreadsafeQueue of tasks until the flag `done` is set.  The main thread *)
(* constructs the pool, submits tasks and destroys the pool.  A worker     *)
(* reads `done` and calls try_pop in two steps, so a flag raised between   *)
(* the two does not stop the task it is about to take.                     *)
(***************************************************************************)
EXTENDS Naturals, Sequences, FiniteSets

CONSTANTS
    thread_count,  \* std::thread::hardware_concurrency(), which may be 0
    Tasks,         \* tasks to submit, each a distinct std::bind object
    Blocking,      \* tasks that never return (a recv on a silent connection)
    Throwing,      \* tasks that may end with an uncaught exception
    NoTask, Moved

ASSUME PoolAssumption == /\ thread_count \in Nat
                         /\ Blocking \subseteq Tasks
                         /\ Throwing \subseteq Tasks
                         /\ NoTask \notin Tasks
                         /\ Moved \notin Tasks

Workers == 1..thread_count

VARIABLES
    done,        \* the flag
    data_queue, cond, pushed, taken,  \* work_queue, see ThreadsafeQueue
    main,        \* what the main thread does with the pool
    spawned,     \* workers constructed so far
    joined,      \* workers joined so far
    worker,      \* control state of each worker
    task,        \* the task a worker runs
    late         \* history: tasks each worker started after `done` was set

work_queue == <<data_queue, cond, pushed, taken>>
vars == <<done, work_queue, main, spawned, joined, worker, task, late>>

Q == INSTANCE ThreadsafeQueue WITH
         Threads <- Workers, PtrThreads <- {}, Values <- Tasks, MaxTaken <- 0

Init == /\ done = FALSE
        /\ Q!Init
        /\ main = "construct"
        /\ spawned = 0
        /\ joined = 0
        /\ worker = [w \in Workers |-> "unborn"]
        /\ task = [w \in Workers |-> NoTask]
        /\ late = [w \in Workers |-> 0]

MutSpawn == /\ main = "construct" /\ spawned <= thread_count  \* mutant: off by one
            /\ spawned' = spawned + 1
            /\ worker' = [worker EXCEPT ![spawned + 1] = "loop"]
            /\ UNCHANGED <<done, work_queue, main, joined, task, late>>

(* The constructor starts the workers one by one. *)
Spawn == /\ main = "construct" /\ spawned < thread_count
         /\ spawned' = spawned + 1
         /\ worker' = [worker EXCEPT ![spawned + 1] = "loop"]
         /\ UNCHANGED <<done, work_queue, main, joined, task, late>>

(* std::thread fails: `done` is set and the exception rethrown.  Nobody     *)
(* joins the workers already started, and std::terminate ends the process.  *)
SpawnFails == /\ main = "construct" /\ spawned < thread_count
              /\ done' = TRUE
              /\ main' = "terminated"
              /\ UNCHANGED <<work_queue, spawned, joined, worker, task, late>>

Constructed == /\ main = "construct" /\ spawned = thread_count
               /\ main' = "ready"
               /\ UNCHANGED <<done, work_queue, spawned, joined, worker, task, late>>

submit(t) == /\ main = "ready"
             /\ Q!Push(t)
             /\ UNCHANGED <<done, main, spawned, joined, worker, task, late>>

MutDestroy == /\ main = "ready"  \* mutant: the flag is not raised
              /\ main' = "join"
              /\ UNCHANGED <<done, work_queue, spawned, joined, worker, task, late>>

(* ~ThreadPool: raise the flag, then join the workers in index order. *)
Destroy == /\ main = "ready"
           /\ done' = TRUE
           /\ main' = "join"
           /\ UNCHANGED <<work_queue, spawned, joined, worker, task, late>>

MutJoin == /\ main = "join" /\ joined < thread_count  \* mutant: detach, not join
           /\ joined' = joined + 1
           /\ UNCHANGED <<done, work_queue, main, spawned, worker, task, late>>

Join == /\ main = "join" /\ joined < thread_count
        /\ worker[joined + 1] = "exited"
        /\ joined' = joined + 1
        /\ UNCHANGED <<done, work_queue, main, spawned, worker, task, late>>

Destroyed == /\ main = "join" /\ joined = thread_count
             /\ main' = "destroyed"
             /\ UNCHANGED <<done, work_queue, spawned, joined, worker, task, late>>

MutReadDone(w) ==  \* mutant: the loop runs until the queue is empty
    /\ worker[w] = "loop"
    /\ worker' = [worker EXCEPT ![w] = IF done /\ Q!empty THEN "exited" ELSE "pop"]
    /\ UNCHANGED <<done, work_queue, main, spawned, joined, task, late>>

(* work(), the condition of the while. *)
ReadDone(w) ==
    /\ worker[w] = "loop"
    /\ worker' = [worker EXCEPT ![w] = IF done THEN "exited" ELSE "pop"]
    /\ UNCHANGED <<done, work_queue, main, spawned, joined, task, late>>

(* work(): try_pop returns a task, which starts. *)
StartTask(w) ==
    /\ worker[w] = "pop"
    /\ Q!TryPop(w)
    /\ task' = [task EXCEPT ![w] = Head(data_queue)]
    /\ worker' = [worker EXCEPT ![w] = "run"]
    /\ late' = [late EXCEPT ![w] = IF done THEN @ + 1 ELSE @]
    /\ UNCHANGED <<done, main, spawned, joined>>

(* work(): nothing to do, yield. *)
Yield(w) ==
    /\ worker[w] = "pop" /\ Q!empty
    /\ worker' = [worker EXCEPT ![w] = "loop"]
    /\ UNCHANGED <<done, work_queue, main, spawned, joined, task, late>>

MutTaskReturns(w) ==  \* mutant: the worker ends with its first task
    /\ worker[w] = "run" /\ task[w] \notin Blocking
    /\ worker' = [worker EXCEPT ![w] = "exited"]
    /\ task' = [task EXCEPT ![w] = NoTask]
    /\ UNCHANGED <<done, work_queue, main, spawned, joined, late>>

TaskReturns(w) ==
    /\ worker[w] = "run" /\ task[w] \notin Blocking
    /\ worker' = [worker EXCEPT ![w] = "loop"]
    /\ task' = [task EXCEPT ![w] = NoTask]
    /\ UNCHANGED <<done, work_queue, main, spawned, joined, late>>

(* Nothing in work() catches: std::terminate ends the whole process. *)
TaskThrows(w) ==
    /\ worker[w] = "run" /\ task[w] \in Throwing
    /\ main' = "terminated"
    /\ UNCHANGED <<done, work_queue, spawned, joined, worker, task, late>>

MainStep == \/ Spawn \/ SpawnFails \/ Constructed \/ Destroy \/ Join \/ Destroyed
            \/ \E t \in Tasks : submit(t)
WorkerStep(w) == /\ main # "terminated"
                 /\ \/ ReadDone(w) \/ StartTask(w) \/ Yield(w)
                    \/ TaskReturns(w) \/ TaskThrows(w)

Next == MainStep \/ \E w \in Workers : WorkerStep(w)

(* Every thread runs; the pool need neither get tasks nor be destroyed.  A  *)
(* worker's yield lets the others at the queue, whose order is by submit.   *)
Fairness == /\ WF_vars(Spawn) /\ WF_vars(Constructed)
            /\ WF_vars(Join) /\ WF_vars(Destroyed)
            /\ \A w \in Workers : WF_vars(WorkerStep(w))

Spec == Init /\ [][Next]_vars /\ Fairness

-----------------------------------------------------------------------------
TypeOK == /\ done \in BOOLEAN
          /\ Q!TypeOK
          /\ main \in {"construct", "ready", "join", "destroyed", "terminated"}
          /\ spawned \in 0..thread_count
          /\ joined \in 0..spawned
          /\ worker \in [Workers -> {"unborn", "loop", "pop", "run", "exited"}]
          /\ task \in [Workers -> Tasks \cup {NoTask}]
          /\ late \in [Workers -> Nat]

(* Once `done` is set, the flag lets each worker start one more task at     *)
(* most, the one it was about to take when the flag was raised.             *)
AtMostOneLateTask == \A w \in Workers : late[w] <= 1

(* ~ThreadPool returns only when no worker can start or run a task again:   *)
(* nothing touches the queue the destructor is about to free.               *)
NoWorkerOutlivesPool ==
    main = "destroyed" => \A w \in Workers : worker[w] = "exited"

(* The pool implements TaskPool: submission order, once each, at most one   *)
(* task per worker, none after the destructor returned.                     *)
Abstract == INSTANCE TaskPool WITH
    Width <- thread_count,
    submitted <- pushed,
    started <- Len(taken),
    running <- {task[w] : w \in {v \in Workers : worker[v] = "run"}},
    open <- main # "destroyed"
ImplementsTaskPool == Abstract!Spec

(* Unless all workers are stuck in tasks that never return, the pool is     *)
(* being destroyed or the process died, a submitted task starts: a blocked  *)
(* worker delays nobody else's connection.                                  *)
EveryTaskStarts ==
    \A t \in Tasks :
        (t \in Q!InSeq(pushed)) ~>
            \/ t \in Q!InSeq(taken)
            \/ done
            \/ main = "terminated"
            \/ \A w \in Workers : task[w] \in Blocking

(* The destructor returns unless some worker runs a task that never does. *)
DestructorReturns ==
    (main = "join") ~> \/ main \in {"destroyed", "terminated"}
                       \/ \E w \in Workers : task[w] \in Blocking
=============================================================================
