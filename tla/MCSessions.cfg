SPECIFICATION FairSpec
CONSTANTS
    u1 = u1
    u2 = u2
    t1 = t1
    t2 = t2
    r1 = r1
    r2 = r2
    Users <- MCUsers
    DeviceNames <- MCDeviceNames
    Tokens <- MCTokens
    Requests <- MCRequests
    ActiveTimeout = 2
    NoSession = NoSession
    NoToken = NoToken
    NoUser = NoUser
INVARIANTS
    TypeOK
    SessionsAreIssued
PROPERTIES
    DeadStaysDead
    DisabledStaysOut
    RemovalIsTargeted
    RegistryContract
    IdleSessionExpires
