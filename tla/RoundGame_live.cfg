CONSTANTS
    Users = {u1}
    Engines = {e1}
    Admins = {}
    BetKeys = {k1}
    Colors = {red, green}
    Stakes = {1}
    MaxRound = 2
    MaxFaults = 1
    AdminOps = {"stop", "pause", "start"}
    LossyRounds = {1}
    InitialCoins = 2
    MaxUserRoundStake = 3
    MaxColorExposure = 3
    MaxCoins = 10
    NoColor = NoColor
    NoBet = NoBet
    NoOne = NoOne
SPECIFICATION FairSpec
INVARIANTS
    OneActiveRound
PROPERTIES
    RoundEnds
    NextRoundStarts
