SPECIFICATION Spec
CONSTANTS
    Signed <- MCThree
    Odd <- MCOdd
    Others <- MCOthers
    MaxCmd = 2
    Lag = FALSE
    Faults = FALSE
    ReaddirClosed <- MCEnds
    MaxPulls = 0
INVARIANTS
    RatioIsRate
CHECK_DEADLOCK FALSE
