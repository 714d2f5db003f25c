SPECIFICATION AgeSpec
CONSTANTS
    u1 = u1
    t1 = t1
    r1 = r1
    Users <- MCUsers
    DeviceNames <- MCDeviceNames
    Tokens <- MCTokens
    Requests <- MCRequests
    ActiveTimeout = 2
    TokenTimeout = 4
    NoSession = NoSession
    NoToken = NoToken
    NoUser = NoUser
INVARIANT
    TokenTimeoutHonoured
