SPECIFICATION FairSpec
CONSTANTS
    Users = {1}
    Browsers = {1}
    Tabs = {1, 2}
    Callers = {1, 2, 3}
    UserOf <- MCUserOf
    BrowserOf <- MCBrowserOf
    TabOf <- MCTabOf
    Budget <- MCBudget
    Sessions = {1, 2, 3, 4, 5, 6}
    Faults = 1
    Bans = 1
    Logouts = 1
    LogoutAlls = 1
    Expiries = 1
    Ages = 1
    Calls = 2
    None = None
CONSTRAINT TwoDisturbances
CHECK_DEADLOCK FALSE
INVARIANTS OneLivePerLogin OneSignupBonus
PROPERTIES CallersReturn
