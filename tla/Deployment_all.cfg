SPECIFICATION FairSpec
CONSTANTS
    Containers = {"a", "b"}
    Jobs = {"job"}
    Files <- TwoReleases
    Accepted <- KnownEdits
    Histories <- FreshOrOld
    MaxDeploys = 3
    MaxSql = 1
    MaxKill = 1
INVARIANTS LedgerIsTrue
PROPERTIES EveryDeployServes
CHECK_DEADLOCK FALSE
