SPECIFICATION FairSpec
CONSTANTS
    Movements <- MCMovements
    MaxCoins = 100
    Users = {u1, u2}
    Keys = {k1, k2}
    Bonus = 3
    Frozen = {u2}
    Calls = {c1, c2}
    MaxFail = 1
CHECK_DEADLOCK FALSE
INVARIANTS AnswersAreTrue
PROPERTIES KeepsPromise CallsAnswered
