SPECIFICATION FairRiskSpec
CONSTANTS
    Players = {u1, u2}
    Requests = {r1, r2}
    Scenarios <- MCScenarios
    IP <- MCIP
    Device <- MCDevice
    Points <- MCPoints
    UserLimit = 1
    IpLimit = 1
    SoftLimit = 1
    AuthLimit = 1
    SocketLimit = 1
    MaxTokens = 1
    IpAccounts = 2
    DeviceAccounts = 2
    SharedUsers = 2
    SoftAt = 1
    BlockAt = 2
    MaxScore = 2
    MaxDecay = 1
INVARIANTS NoUnexplainedRisk
PROPERTIES Recovers CountersExpire
CHECK_DEADLOCK FALSE
