SPECIFICATION Spec
CONSTANTS
    t1 = t1
    t2 = t2
    t3 = t3
    v1 = v1
    v2 = v2
    v3 = v3
    Moved = Moved
    MaxTaken = 5
    Threads <- MCThreads
    PtrThreads <- MCPtr
    Values <- MCValues
INVARIANTS TypeOK RealValuesOnceInOrder NoLostWakeup
PROPERTY SleepersAreServed
