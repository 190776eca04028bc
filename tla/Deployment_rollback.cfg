SPECIFICATION Spec
CONSTANTS
    Containers = {"a"}
    Jobs = {}
    Files <- TwoReleases
    Accepted <- KnownEdits
    Histories <- FreshOrOld
    MaxDeploys = 3
    MaxSql = 0
    MaxKill = 0
INVARIANTS
    CanRollBack
CHECK_DEADLOCK FALSE
