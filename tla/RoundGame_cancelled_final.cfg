CONSTANTS
    Users = {u1}
    Engines = {e1}
    Admins = {a1}
    BetKeys = {k1}
    Colors = {red, green}
    Stakes = {1}
    MaxRound = 1
    MaxFaults = 0
    AdminOps = {"stop"}
    LossyRounds = {1}
    InitialCoins = 2
    MaxUserRoundStake = 3
    MaxColorExposure = 3
    MaxCoins = 10
    NoColor = NoColor
    NoBet = NoBet
    NoOne = NoOne
SPECIFICATION FairSpec
PROPERTIES
    CancelledIsFinal
