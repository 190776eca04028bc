SPECIFICATION Spec
CONSTANTS
    Users = {1}
    Browsers = {1, 2}
    Tabs = {1, 2}
    Callers = {1, 2}
    UserOf <- MCUserOf
    BrowserOf <- MCBrowserOf
    TabOf <- MCTabOf
    Budget <- MCBudget
    Sessions = {1, 2, 3, 4, 5}
    Faults = 0
    Bans = 0
    Logouts = 0
    LogoutAlls = 1
    Expiries = 0
    Ages = 1
    Calls = 4
    None = None
CHECK_DEADLOCK FALSE
INVARIANTS SignedOut
