SPECIFICATION FairSpec
CONSTANTS
    n1 = n1
    r1 = r1
    r2 = r2
    r3 = r3
    NoName = NoName
    Names <- MCNames
    Requests <- MCRequests
    MaxFailures = 2
    LockTicks = 2
PROPERTIES
    EveryLockEnds
