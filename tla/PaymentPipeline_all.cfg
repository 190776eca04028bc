CONSTANTS
    Intents = {i1}
    RealMoney = {i1}
    Txns = {t1, t2}
    Requests = {q1}
    Workers = {w1, w2}
    MaxFaults = 2
    NoIntent = NoIntent
    NoTxn = NoTxn
SPECIFICATION FairSpec
INVARIANTS
    CreditedOnce
    CreditIsPaidInTime
    DepositFollowsCredit
    DeliveredIsCredited
PROPERTIES
    PaidIsCredited
