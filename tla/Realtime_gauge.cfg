SPECIFICATION Spec
CONSTANTS
    Tabs = {1}
    Users = {1}
    Nodes = {1}
    UserOf <- MCUserOf
    NodeOf <- MCNodeOf
    Budget <- MCBudget
    Admin = 1
    Sockets = {k1, k2}
    MaxGen = 1
    Drops = 1
    Rotations = 0
    Ages = 0
    LogoutAlls = 0
    Bans = 0
    SignIns = 1
    SignOuts = 0
CHECK_DEADLOCK FALSE
SYMMETRY Symmetry
INVARIANTS GaugeIsTrue
