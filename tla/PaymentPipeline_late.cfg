CONSTANTS
    Intents = {i1}
    RealMoney = {}
    Txns = {t1}
    Requests = {q1}
    Workers = {w1}
    MaxFaults = 0
    NoIntent = NoIntent
    NoTxn = NoTxn
SPECIFICATION FairSpec
PROPERTIES
    PendingEventIsCredited
