SPECIFICATION Spec
CONSTANTS
    a = a
    b = b
    c = c
    d = d
    NoTask = NoTask
    Moved = Moved
    thread_count = 2
    Tasks <- MCTasks
    Blocking <- MCBlocking
    Throwing <- MCThrowing
INVARIANTS TypeOK AtMostOneLateTask NoWorkerOutlivesPool
PROPERTIES ImplementsTaskPool EveryTaskStarts DestructorReturns
CHECK_DEADLOCK FALSE
