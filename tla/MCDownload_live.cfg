SPECIFICATION FairSpec
CONSTANTS
    Signed <- MCSigned
    Odd <- MCOdd
    Others <- MCOthers
    MaxCmd = 2
    Lag = FALSE
    Faults = FALSE
    ReaddirClosed <- MCEnds
    MaxPulls = 1
PROPERTIES
    DownloadEnds
    StickServed
CHECK_DEADLOCK FALSE
