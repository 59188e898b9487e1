SPECIFICATION Spec
CHECK_DEADLOCK FALSE
CONSTANTS
    r1 = r1
    r2 = r2
    r3 = r3
    r4 = r4
    b1 = b1
    b2 = b2
    b3 = b3
    ann = ann
    bob = bob
    cid = cid
    p = p
    q = q
    None = None
    CookieMod = 64
    Lifetime = 3
    MaxTime = 1
    Contention = FALSE
    Requests <- Three
    Browsers <- Two
    Names <- MCNames
    Asks <- Race
PROPERTY FailuresAreTransient
