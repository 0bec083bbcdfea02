SPECIFICATION Spec
CONSTANTS
    Requests = 2
    MaxAdmitted = 3
    Keys = {"app", "anonymous"}
    Accepted = {"app"}
    Quota <- MCQuota
    Second = 1
    IdleTimeout = 3
    MaxBuckets = 1
    MaxConcurrency = 1
    Tables <- MCTables
    MaxTime = 4
INVARIANT LimitsHeld
PROPERTIES RetryHonest DeletedMeansGone SlotsReturn
CHECK_DEADLOCK FALSE
