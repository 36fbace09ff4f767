SPECIFICATION Spec
CONSTANTS
    Signed <- MCOne
    Odd <- MCOdd
    Others <- MCOthers
    MaxCmd = 2
    Lag = TRUE
    Faults = TRUE
    ReaddirClosed <- MCAny
    MaxPulls = 1
INVARIANTS
    TypeOK
    OneDownload
    FlagsAlone
    FilesKept
PROPERTIES
    ResultKept
    SuccessHonest
CHECK_DEADLOCK FALSE
