SPECIFICATION FairRiskSpec
CONSTANTS
    Players = {u1, u2}
    Requests = {r1, r2}
    Scenarios <- OneFails
    IP <- MCIP
    Device <- MCDevice
    Points <- MCPoints
    UserLimit = 1
    IpLimit = 2
    SoftLimit = 1
    AuthLimit = 1
    SocketLimit = 1
    MaxTokens = 1
    IpAccounts = 2
    DeviceAccounts = 2
    SharedUsers = 2
    SoftAt = 2
    BlockAt = 3
    MaxScore = 4
    MaxDecay = 1
PROPERTIES EveryCounterExpires
CHECK_DEADLOCK FALSE
