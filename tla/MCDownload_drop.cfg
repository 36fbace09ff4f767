SPECIFICATION Spec
CONSTANTS
    Signed <- MCSigned
    Odd <- MCOdd
    Others <- MCOthers
    MaxCmd = 2
    Lag = TRUE
    Faults = FALSE
    ReaddirClosed <- MCEnds
    MaxPulls = 1
INVARIANTS
    FlagMeansDownloading
CHECK_DEADLOCK FALSE
