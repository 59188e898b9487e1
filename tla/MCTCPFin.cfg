SPECIFICATION Spec
CHECK_DEADLOCK FALSE
CONSTANTS
    c1 = c1
    c2 = c2
    c3 = c3
    w1 = w1
    w2 = w2
    NoConn = NoConn
    Db = Db
    Hello = Hello
    BUFFER_SIZE = 2
    Workers <- MCWorkers
    Conns <- MCTwo
    Fds <- FiveFds
    Need <- OneSegment
    Strays <- Nobody
    Risky <- Nobody
    Deaf <- Nobody
    Faults <- FinOnly
PROPERTY EveryRequestAnswered
