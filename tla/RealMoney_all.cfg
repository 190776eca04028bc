SPECIFICATION FairSpec
CONSTANTS
    Users = {u1, u2}
    Main = u1
    FirstKey = k1
    Colors = {red, green}
    Stakes = {1}
    Amounts = {1}
    MaxRound = 1
    Requests = {q1, q2}
    BetKeys = {k1, k2}
    WithdrawalKeys = {w1}
    DecisionKeys = {d1, d2}
    Deposits = {u1, u2}
    DepositPaise = 2
    Engines = {p1}
    Admins = {a1}
    Scenarios <- AllScenarios
    MaxFaults = 1
    MaxDay = 1
    MaxRoundExposure = 1
    MaxColorExposure = 1
    DailyWithdrawal = 2
    DailyLoss = 5
    None = None
CONSTRAINT TwoComplications
CHECK_DEADLOCK FALSE
INVARIANTS WalletMatchesRecords ExposureWithinLimits BetFollowsResult
PROPERTIES DecidedOnce OpenBetIsDecided
