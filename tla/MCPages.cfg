SPECIFICATION Spec
CHECK_DEADLOCK FALSE
CONSTANTS
    r1 = r1
    r2 = r2
    None = None
    Limit = 2
    IntMax = 7
    MaxMessages = 5
    Contention = TRUE
    Readers <- MCReaders
    LoggedIn <- MCReaders
    Typed <- MCTyped
INVARIANTS
    TypeOK
    NothingSkipped
    RepeatsAreBoundedByPosts
    OwnPostShown
    LinksLeadToPages
