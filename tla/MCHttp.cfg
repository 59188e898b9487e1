SPECIFICATION Spec
CHECK_DEADLOCK FALSE
CONSTANTS
    Digits = {"0", "1", "2"}
    Values <- MCValues
    Pages <- MCPages
    Files <- MCFiles
    Methods = {"GET", "POST", "HEAD"}
    NoPage = NoPage
    Lifetime = 2
    MaxClock = 3
INVARIANTS
    TypeOK
    WholeRequestsAreUnderstood
    OnlyTheLastIsCut
    UuidIsTheLastIssued
    ThrowsOnlyOnCutCookie
