-------------------------- MODULE ThreadPoolProofs --------------------------
(* Theorems about ThreadPool, for any number of workers and any tasks. *)
EXTENDS ThreadPool, TLAPS, FiniteSetTheorems, FunctionTheorems

(* Workers are born in order; the destructor joins them all, in order. *)
Joining == /\ main \in {"ready", "join", "destroyed"} => spawned = thread_count
           /\ main \in {"construct", "ready"} => joined = 0
           /\ main = "destroyed" => joined = thread_count
           /\ \A w \in Workers : /\ w <= joined => worker[w] = "exited"
                                 /\ w > spawned => worker[w] = "unborn"

(* A worker that began a task after `done` was set never pops again. *)
Stopping == \A w \in Workers :
    late[w] = 0 \/ (late[w] = 1 /\ done /\ worker[w] # "pop")

(* The queue's order; the workers run different tasks already taken from it. *)
Running(w) == worker[w] = "run"
Serving == /\ pushed = taken \o data_queue
           /\ \A i, j \in DOMAIN pushed : pushed[i] = pushed[j] => i = j
           /\ \A w \in Workers : Running(w) => \E i \in DOMAIN taken : taken[i] = task[w]
           /\ \A v, w \in Workers : Running(v) /\ Running(w) /\ task[v] = task[w] => v = w

IInv == TypeOK /\ Joining /\ Stopping /\ Serving

-----------------------------------------------------------------------------
(* TypeOK's share of the queue, in this module's terms. *)
LEMMA QueueType ==
    Q!TypeOK <=> /\ data_queue \in Seq(Tasks)
                 /\ cond \in [Workers -> {"none", "waiting", "notified"}]
                 /\ pushed \in Seq(Tasks)
                 /\ taken \in Seq(Tasks)
BY DEF Q!TypeOK, Q!Slot

(* Every variable keeps its type, workers are joined only once they exited, *)
(* and the destructor waits for every one of them.                          *)
LEMMA TypeAndJoining ==
    ASSUME TypeOK, Joining, [Next]_vars
    PROVE  TypeOK' /\ Joining'
<1>0. thread_count \in Nat /\ NoTask \notin Tasks
  BY PoolAssumption
<1>. USE <1>0 DEF Workers
<1>q. /\ data_queue \in Seq(Tasks) /\ pushed \in Seq(Tasks) /\ taken \in Seq(Tasks)
      /\ cond \in [Workers -> {"none", "waiting", "notified"}]
  BY QueueType DEF TypeOK
<1>u. UNCHANGED work_queue => Q!TypeOK'
  BY DEF work_queue, TypeOK, Q!TypeOK, Q!Slot
<1>1. CASE Spawn
  BY <1>1, <1>u DEF Spawn, TypeOK, Joining
<1>2. CASE SpawnFails
  BY <1>2, <1>u DEF SpawnFails, TypeOK, Joining
<1>3. CASE Constructed
  BY <1>3, <1>u DEF Constructed, TypeOK, Joining
<1>4. CASE Destroy
  BY <1>4, <1>u DEF Destroy, TypeOK, Joining
<1>5. CASE Join
  BY <1>5, <1>u DEF Join, TypeOK, Joining
<1>6. CASE Destroyed
  BY <1>6, <1>u DEF Destroyed, TypeOK, Joining
<1>7. ASSUME NEW t \in Tasks, submit(t) PROVE TypeOK' /\ Joining'
  <2>1. Q!TypeOK'
    <3>1. data_queue' \in Seq(Tasks) /\ pushed' \in Seq(Tasks) /\ taken' = taken
      BY <1>7, <1>q DEF submit, Q!Push
    <3>2. cond' \in [Workers -> {"none", "waiting", "notified"}]
      BY <1>7, <1>q DEF submit, Q!Push, Q!Sleepers
    <3>. QED  BY <1>q, <3>1, <3>2 DEF Q!TypeOK, Q!Slot
  <2>. QED  BY <1>7, <2>1 DEF submit, TypeOK, Joining
<1>8. ASSUME NEW w \in Workers, ReadDone(w) PROVE TypeOK' /\ Joining'
  BY <1>8, <1>u DEF ReadDone, TypeOK, Joining
<1>9. ASSUME NEW w \in Workers, StartTask(w) PROVE TypeOK' /\ Joining'
  <2>1. data_queue # <<>> /\ taken' = Append(taken, Head(data_queue))
        /\ data_queue' = Tail(data_queue) /\ pushed' = pushed /\ cond' = cond
    BY <1>9 DEF StartTask, Q!TryPop, Q!HandOver, Q!empty
  <2>2. Head(data_queue) \in Tasks /\ Tail(data_queue) \in Seq(Tasks)
    BY <1>q, <2>1
  <2>3. Q!TypeOK'
    BY <1>q, <2>1, <2>2 DEF Q!TypeOK, Q!Slot
  <2>. QED  BY <1>9, <2>2, <2>3 DEF StartTask, TypeOK, Joining
<1>10. ASSUME NEW w \in Workers, Yield(w) PROVE TypeOK' /\ Joining'
  BY <1>10, <1>u DEF Yield, TypeOK, Joining
<1>11. ASSUME NEW w \in Workers, TaskReturns(w) PROVE TypeOK' /\ Joining'
  BY <1>11, <1>u DEF TaskReturns, TypeOK, Joining
<1>12. ASSUME NEW w \in Workers, TaskThrows(w) PROVE TypeOK' /\ Joining'
  BY <1>12, <1>u DEF TaskThrows, TypeOK, Joining
<1>13. CASE UNCHANGED vars
  BY <1>13, <1>u DEF vars, TypeOK, Joining
<1>. QED
  BY <1>1, <1>2, <1>3, <1>4, <1>5, <1>6, <1>7, <1>8, <1>9, <1>10, <1>11, <1>12, <1>13
  DEF Next, MainStep, WorkerStep

-----------------------------------------------------------------------------
(* The flag is never lowered, and a worker that has read it does not pop. *)
LEMMA StoppingStep ==
    ASSUME TypeOK, Stopping, [Next]_vars
    PROVE  Stopping'
<1>. USE DEF Stopping, TypeOK
<1>1. CASE Spawn
  BY <1>1 DEF Spawn
<1>2. CASE SpawnFails \/ Constructed \/ Destroy \/ Join \/ Destroyed
  BY <1>2 DEF SpawnFails, Constructed, Destroy, Join, Destroyed
<1>3. ASSUME NEW t \in Tasks, submit(t) PROVE Stopping'
  BY <1>3 DEF submit
<1>4. ASSUME NEW w \in Workers, ReadDone(w) PROVE Stopping'
  BY <1>4 DEF ReadDone
<1>5. ASSUME NEW w \in Workers, StartTask(w) PROVE Stopping'
  BY <1>5 DEF StartTask
<1>6. ASSUME NEW w \in Workers, Yield(w) \/ TaskReturns(w) \/ TaskThrows(w)
      PROVE  Stopping'
  BY <1>6 DEF Yield, TaskReturns, TaskThrows
<1>7. CASE UNCHANGED vars
  BY <1>7 DEF vars
<1>. QED
  BY <1>1, <1>2, <1>3, <1>4, <1>5, <1>6, <1>7 DEF Next, MainStep, WorkerStep

-----------------------------------------------------------------------------
(* What StartTask does to the queue: the front, which was pushed last of    *)
(* all tasks taken so far, moves to `taken`.                                *)
LEMMA PopFront ==
    ASSUME TypeOK, Serving, NEW w \in Workers, StartTask(w)
    PROVE  /\ data_queue # <<>> /\ data_queue' = Tail(data_queue)
           /\ taken' = Append(taken, Head(data_queue))
           /\ pushed' = pushed
           /\ Head(data_queue) = pushed[Len(taken) + 1]
           /\ Len(taken) + 1 \in DOMAIN pushed
           /\ pushed' = taken' \o data_queue'
           /\ \A i \in DOMAIN taken : taken[i] # Head(data_queue)
<1>1. /\ data_queue # <<>> /\ data_queue' = Tail(data_queue)
      /\ taken' = Append(taken, Head(data_queue)) /\ pushed' = pushed
  BY DEF StartTask, Q!TryPop, Q!HandOver, Q!empty
<1>2. /\ data_queue \in Seq(Tasks) /\ pushed \in Seq(Tasks) /\ taken \in Seq(Tasks)
      /\ pushed = taken \o data_queue
  BY QueueType DEF TypeOK, Serving
<1>3. Len(data_queue) > 0 /\ Len(pushed) = Len(taken) + Len(data_queue)
  BY <1>1, <1>2
<1>4. Len(taken) + 1 \in DOMAIN pushed /\ pushed[Len(taken) + 1] = Head(data_queue)
  BY <1>2, <1>3
<1>5. \A i \in DOMAIN taken : i \in DOMAIN pushed /\ pushed[i] = taken[i] /\ i # Len(taken) + 1
  BY <1>2, <1>3
<1>6. Append(taken, Head(data_queue)) \o Tail(data_queue) = taken \o data_queue
  BY <1>1, <1>2
<1>. QED
  BY <1>1, <1>2, <1>4, <1>5, <1>6 DEF Serving

(* Tasks keep their order and no two workers run the same one. *)
LEMMA ServingStep ==
    ASSUME TypeOK, Serving, [Next]_vars
    PROVE  Serving'
<1>q. /\ data_queue \in Seq(Tasks) /\ pushed \in Seq(Tasks) /\ taken \in Seq(Tasks)
  BY QueueType DEF TypeOK
<1>1. CASE Spawn
  BY <1>1 DEF Spawn, TypeOK, Serving, Running, work_queue
<1>2. CASE SpawnFails \/ Constructed \/ Destroy \/ Join \/ Destroyed
  BY <1>2 DEF SpawnFails, Constructed, Destroy, Join, Destroyed,
              Serving, Running, work_queue
<1>3. ASSUME NEW t \in Tasks, submit(t) PROVE Serving'
  <2>1. /\ t \notin Q!InSeq(pushed) /\ pushed' = Append(pushed, t)
        /\ data_queue' = Append(data_queue, t) /\ taken' = taken
        /\ worker' = worker /\ task' = task
    BY <1>3 DEF submit, Q!Push
  <2>2. pushed' = taken' \o data_queue'
    <3>1. taken \o Append(data_queue, t) = Append(taken \o data_queue, t)
      BY <1>q
    <3>. QED  BY <2>1, <3>1 DEF Serving
  <2>3. \A i, j \in DOMAIN pushed' : pushed'[i] = pushed'[j] => i = j
    <3>1. \A i \in DOMAIN pushed : pushed[i] # t
      BY <2>1 DEF Q!InSeq
    <3>2. DOMAIN pushed' = 1..(Len(pushed) + 1) /\ DOMAIN pushed = 1..Len(pushed)
      BY <1>q, <2>1
    <3>3. /\ pushed'[Len(pushed) + 1] = t
          /\ \A i \in DOMAIN pushed : pushed'[i] = pushed[i]
      BY <1>q, <2>1
    <3>4. \A i, j \in DOMAIN pushed : pushed'[i] = pushed'[j] => i = j
      BY <3>3 DEF Serving
    <3>5. \A i \in DOMAIN pushed : pushed'[i] # pushed'[Len(pushed) + 1]
      BY <3>1, <3>3
    <3>6. \A i \in DOMAIN pushed' : i \in DOMAIN pushed \/ i = Len(pushed) + 1
      BY <1>q, <3>2
    <3>. QED  BY <3>4, <3>5, <3>6
  <2>. QED  BY <2>1, <2>2, <2>3 DEF Serving, Running
<1>4. ASSUME NEW w \in Workers, StartTask(w) PROVE Serving'
  <2>1. /\ worker' = [worker EXCEPT ![w] = "run"]
        /\ task' = [task EXCEPT ![w] = Head(data_queue)]
    BY <1>4 DEF StartTask
  <2>0. data_queue # <<>> /\ taken' = Append(taken, Head(data_queue))
    BY <1>4, PopFront
  <2>2. /\ DOMAIN taken' = 1..(Len(taken) + 1) /\ DOMAIN taken = 1..Len(taken)
        /\ taken'[Len(taken) + 1] = Head(data_queue)
        /\ \A i \in DOMAIN taken : taken'[i] = taken[i]
    BY <1>q, <2>0
  <2>3. ASSUME NEW v \in Workers, Running(v)'
        PROVE  \E i \in DOMAIN taken' : taken'[i] = task'[v]
    <3>1. CASE v = w
      <4>1. task'[v] = taken'[Len(taken) + 1] /\ Len(taken) + 1 \in DOMAIN taken'
        BY <1>q, <2>1, <2>2, <3>1 DEF TypeOK
      <4>. QED  BY <4>1
    <3>2. CASE v # w
      <4>1. PICK i \in DOMAIN taken : taken[i] = task[v]
        BY <2>1, <2>3, <3>2 DEF Serving, Running, TypeOK
      <4>2. i \in DOMAIN taken' /\ taken'[i] = task'[v]
        BY <1>q, <2>1, <2>2, <3>2, <4>1 DEF TypeOK
      <4>. QED  BY <4>2
    <3>. QED  BY <3>1, <3>2
  <2>4. \A v \in Workers : v # w /\ Running(v) => task[v] # Head(data_queue)
    BY <1>4, PopFront DEF Serving
  <2>5. \A u, v \in Workers : Running(u)' /\ Running(v)' /\ task'[u] = task'[v] => u = v
    BY <2>1, <2>4 DEF Serving, Running, TypeOK
  <2>. QED  BY <1>4, PopFront, <2>3, <2>5 DEF Serving
<1>5. ASSUME NEW w \in Workers, ReadDone(w) \/ Yield(w) \/ TaskThrows(w)
      PROVE  Serving'
  BY <1>5 DEF ReadDone, Yield, TaskThrows, TypeOK,
              Serving, Running, work_queue
<1>7. ASSUME NEW w \in Workers, TaskReturns(w) PROVE Serving'
  <2>1. /\ ~Running(w)' /\ UNCHANGED work_queue
        /\ \A v \in Workers \ {w} : Running(v)' = Running(v) /\ task'[v] = task[v]
    BY <1>7 DEF TaskReturns, Running, TypeOK
  <2>2. \A v \in Workers : Running(v)' => v # w /\ Running(v) /\ task'[v] = task[v]
    BY <2>1
  <2>. QED  BY <2>1, <2>2 DEF Serving, work_queue
<1>6. CASE UNCHANGED vars
  BY <1>6 DEF vars, Serving, Running, work_queue
<1>. QED
  BY <1>1, <1>2, <1>3, <1>4, <1>5, <1>6, <1>7 DEF Next, MainStep, WorkerStep

-----------------------------------------------------------------------------
(* The inductive invariant. *)
LEMMA Initial == Init => IInv
<1>. SUFFICES ASSUME Init PROVE IInv
  OBVIOUS
<1>1. Q!TypeOK
  BY QueueType DEF Init, Q!Init
<1>2. TypeOK
  <2>1. 0 \in 0..thread_count /\ 0 \in 0..0 /\ 0 \in Nat
    BY PoolAssumption
  <2>. QED  BY <1>1, <2>1 DEF Init, TypeOK
<1>3. Joining /\ Stopping
  BY PoolAssumption DEF Init, Joining, Stopping, Workers
<1>4. Serving
  BY DEF Init, Q!Init, Serving, Running
<1>. QED  BY <1>2, <1>3, <1>4 DEF IInv

THEOREM Invariance == Spec => []IInv
<1>1. IInv /\ [Next]_vars => IInv'
  BY TypeAndJoining, StoppingStep, ServingStep DEF IInv
<1>. QED  BY Initial, <1>1, PTL DEF Spec

(* Every variable of the pool keeps its type. *)
THEOREM TypeCorrect == Spec => []TypeOK
<1>1. IInv => TypeOK
  BY DEF IInv
<1>. QED  BY Invariance, <1>1, PTL

(* After `done` is set a worker starts one more task at most: the flag is   *)
(* read before each try_pop, though not in one step with it.                *)
THEOREM OneLateTask == Spec => []AtMostOneLateTask
<1>1. IInv => AtMostOneLateTask
  BY DEF IInv, Stopping, AtMostOneLateTask
<1>. QED  BY Invariance, <1>1, PTL

(* When ~ThreadPool has returned, every worker has left work(): nothing     *)
(* uses the queue that is freed next.                                       *)
THEOREM WorkersEndFirst == Spec => []NoWorkerOutlivesPool
<1>1. IInv => NoWorkerOutlivesPool
  BY PoolAssumption DEF IInv, Joining, NoWorkerOutlivesPool, Workers
<1>. QED  BY Invariance, <1>1, PTL

-----------------------------------------------------------------------------
(* The pool implements TaskPool. *)

RunningWorkers == {v \in Workers : worker[v] = "run"}
RunningTasks == {task[w] : w \in RunningWorkers}

(* A worker about to pop runs nothing: fewer tasks run than there are threads. *)
LEMMA RoomForOne ==
    ASSUME TypeOK, NEW w \in Workers, worker[w] # "run"
    PROVE  Cardinality(RunningTasks) < thread_count
<1>1. IsFiniteSet(Workers) /\ Cardinality(Workers) = thread_count
  BY PoolAssumption, FS_Interval DEF Workers
<1>2. RunningWorkers \in SUBSET Workers /\ w \notin RunningWorkers
  BY DEF RunningWorkers
<1>3. /\ IsFiniteSet(RunningWorkers)
      /\ Cardinality(RunningWorkers) \in Nat
      /\ Cardinality(RunningWorkers) < thread_count
  BY <1>1, <1>2, FS_Subset, FS_CardinalityType, PoolAssumption
<1>. DEFINE f == [v \in RunningWorkers |-> task[v]]
<1>4. f \in Surjection(RunningWorkers, RunningTasks)
  BY DEF Surjection, RunningTasks
<1>5. IsFiniteSet(RunningTasks) /\ Cardinality(RunningTasks) <= Cardinality(RunningWorkers)
  BY <1>3, <1>4, FS_Surjection
<1>. QED  BY <1>3, <1>5, FS_CardinalityType, PoolAssumption

(* TaskPool's Cardinality is this module's. *)
LEMMA SameCardinality == \A S : Abstract!Cardinality(S) = Cardinality(S)
BY DEF Cardinality, Abstract!Cardinality

LEMMA StepImplements ==
    ASSUME IInv, IInv', [Next]_vars
    PROVE  [Abstract!Next]_(Abstract!vars)
<1>0. TypeOK /\ Joining /\ Serving /\ NoTask \notin Tasks
  BY PoolAssumption DEF IInv
<1>q. /\ data_queue \in Seq(Tasks) /\ pushed \in Seq(Tasks) /\ taken \in Seq(Tasks)
  BY <1>0, QueueType DEF TypeOK
<1>s. ASSUME UNCHANGED <<pushed, taken, RunningTasks>>, (main' # "destroyed") = (main # "destroyed")
      PROVE  UNCHANGED Abstract!vars
  BY <1>s DEF Abstract!vars, RunningTasks, RunningWorkers
<1>1. CASE Spawn
  <2>1. RunningWorkers' = RunningWorkers /\ task' = task
    BY <1>0, <1>1 DEF Spawn, RunningWorkers, TypeOK, Workers, Joining
  <2>. QED  BY <1>s, <1>1, <2>1 DEF Spawn, RunningTasks, work_queue
<1>2. CASE SpawnFails \/ Constructed \/ Destroy \/ Join
  BY <1>s, <1>2 DEF SpawnFails, Constructed, Destroy, Join, RunningTasks, RunningWorkers, work_queue
<1>3. CASE Destroyed
  <2>1. RunningTasks = {} /\ RunningTasks' = {}
    BY <1>0, <1>3, PoolAssumption
    DEF Destroyed, Joining, RunningTasks, RunningWorkers, Workers
  <2>2. Abstract!Close
    BY <1>3, <2>1 DEF Destroyed, Abstract!Close, RunningTasks, RunningWorkers, work_queue
  <2>. QED  BY <2>2 DEF Abstract!Next
<1>4. ASSUME NEW t \in Tasks, submit(t) PROVE Abstract!Next
  <2>1. Abstract!Submit(t)
    BY <1>4 DEF submit, Q!Push, Q!InSeq, Abstract!Submit
  <2>. QED  BY <2>1 DEF Abstract!Next
<1>5. ASSUME NEW w \in Workers, main # "terminated", StartTask(w) PROVE Abstract!Next
  <2>1. RunningTasks' = RunningTasks \cup {pushed[Len(taken) + 1]}
    <3>1. /\ RunningWorkers' = RunningWorkers \cup {w} /\ w \notin RunningWorkers
          /\ task' = [task EXCEPT ![w] = pushed[Len(taken) + 1]]
      BY <1>0, <1>5, PopFront DEF StartTask, RunningWorkers, TypeOK
    <3>. QED  BY <1>0, <3>1 DEF RunningTasks, RunningWorkers, TypeOK
  <2>2. Cardinality(RunningTasks) < thread_count
    BY <1>0, <1>5, RoomForOne DEF StartTask
  <2>3. Len(taken') = Len(taken) + 1 /\ Len(taken) < Len(pushed) /\ pushed' = pushed
    BY <1>0, <1>q, <1>5, PopFront
  <2>4. main # "destroyed" /\ main' = main
    BY <1>0, <1>5, PoolAssumption DEF StartTask, Joining, Workers
  <2>5. Abstract!Start
    BY <2>1, <2>2, <2>3, <2>4, SameCardinality DEF Abstract!Start, RunningTasks, RunningWorkers
  <2>. QED  BY <2>5 DEF Abstract!Next
<1>6. ASSUME NEW w \in Workers, TaskReturns(w) PROVE Abstract!Next
  <2>1. RunningWorkers' = RunningWorkers \ {w} /\ w \in RunningWorkers
        /\ \A v \in RunningWorkers' : task'[v] = task[v]
    BY <1>0, <1>6 DEF TaskReturns, RunningWorkers, TypeOK
  <2>2. \A v \in RunningWorkers' : task[v] # task[w]
    BY <1>0, <2>1 DEF Serving, Running, RunningWorkers
  <2>3. RunningTasks' = RunningTasks \ {task[w]} /\ task[w] \in RunningTasks
    BY <2>1, <2>2 DEF RunningTasks
  <2>4. task[w] \in Tasks
    BY <1>0, <1>q, <2>1 DEF Serving, Running, RunningWorkers
  <2>5. PICK t \in Tasks : t = task[w]
    BY <2>4
  <2>6. Abstract!Finish(t)
    BY <1>6, <2>3, <2>5 DEF TaskReturns, Abstract!Finish, RunningTasks, RunningWorkers, work_queue
  <2>. QED  BY <2>6 DEF Abstract!Next
<1>7. ASSUME NEW w \in Workers, ReadDone(w) \/ Yield(w)
      PROVE  UNCHANGED Abstract!vars
  <2>1. RunningWorkers' = RunningWorkers /\ task' = task
    BY <1>0, <1>7 DEF ReadDone, Yield, RunningWorkers, TypeOK
  <2>. QED  BY <1>s, <1>7, <2>1 DEF ReadDone, Yield, RunningTasks, work_queue
<1>8. ASSUME NEW w \in Workers, TaskThrows(w) PROVE UNCHANGED Abstract!vars
  <2>1. main # "destroyed"
    BY <1>0, <1>8, PoolAssumption DEF TaskThrows, Joining, Workers
  <2>. QED
    BY <1>s, <1>8, <2>1 DEF TaskThrows, RunningTasks, RunningWorkers, work_queue
<1>9. CASE UNCHANGED vars
  BY <1>s, <1>9 DEF vars, RunningTasks, RunningWorkers, work_queue
<1>. QED
  BY <1>1, <1>2, <1>3, <1>4, <1>5, <1>6, <1>7, <1>8, <1>9 DEF Next, MainStep, WorkerStep

(* The pool does what TaskPool promises: tasks start in the order of their  *)
(* submission, once each, at most one per worker at a time, and none runs   *)
(* once the destructor has returned.                                        *)
THEOREM PoolImplementsTaskPool == Spec => ImplementsTaskPool
<1>1. Init => Abstract!Init
  BY DEF Init, Q!Init, Abstract!Init
<1>2. IInv /\ IInv' /\ [Next]_vars => [Abstract!Next]_(Abstract!vars)
  BY StepImplements
<1>. QED  BY <1>1, <1>2, Invariance, PTL DEF Spec, ImplementsTaskPool, Abstract!Spec
=============================================================================
