SPECIFICATION FairSpec
CONSTANTS
    Calm = TRUE
    Last = 2
    MaxAsks = 2
    MaxBreaches = 1
    MaxTags = 3
    MaxMsg = 1
INVARIANTS
    LinkAgrees  InitFirst
PROPERTIES
    KeepsMonitor LetsGo Served SendReturns
CHECK_DEADLOCK FALSE
