SPECIFICATION FairSpec
CONSTANTS
    Users = {u1}
    Main = u1
    FirstKey = k1
    Colors = {red, green}
    Stakes = {1}
    Amounts = {1}
    MaxRound = 1
    Requests = {q1}
    BetKeys = {k1}
    WithdrawalKeys = {}
    DecisionKeys = {}
    Deposits = {u1}
    DepositPaise = 2
    Engines = {p1}
    Admins = {a1}
    Scenarios <- Faulty
    MaxFaults = 1
    MaxDay = 1
    MaxRoundExposure = 1
    MaxColorExposure = 1
    DailyWithdrawal = 2
    DailyLoss = 5
    None = None
CHECK_DEADLOCK FALSE
PROPERTIES CancelledIsRefunded
