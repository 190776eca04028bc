CONSTANTS
    Users = {u1, u2}
    Engines = {e1, e2}
    Admins = {a1}
    BetKeys = {k1, k2}
    Colors = {red, green}
    Stakes = {1}
    MaxRound = 1
    MaxFaults = 1
    AdminOps = {"stop"}
    LossyRounds = {1}
    InitialCoins = 2
    MaxUserRoundStake = 2
    MaxColorExposure = 2
    MaxCoins = 10
    NoColor = NoColor
    NoBet = NoBet
    NoOne = NoOne
SPECIFICATION Spec
SYMMETRY Symmetry
CONSTRAINT TwoAtWork
INVARIANTS NoBetLeftBehind OutcomeFollowsResult CoinsConserved WalletMatchesLedger SettlersAgree
PROPERTIES
    BetIsDecidedOnce
    SettlementIsFinal
