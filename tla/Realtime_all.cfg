SPECIFICATION FairSpec
CONSTANTS
    Tabs = {1, 2}
    Users = {1}
    Nodes = {1, 2}
    UserOf <- MCUserOf
    NodeOf <- MCNodeOf
    Budget <- MCBudget
    Admin = 1
    Sockets = {k1, k2, k3}
    MaxGen = 4
    Drops = 1
    Rotations = 1
    Ages = 1
    LogoutAlls = 1
    Bans = 1
    SignIns = 1
    SignOuts = 1
CHECK_DEADLOCK FALSE
INVARIANTS BanCutsSockets
PROPERTIES Reconnects RevokedSocketIsCut
