SPECIFICATION Spec
CONSTANTS
    Headers <- MCSecHeaders
    Follows <- MCSecOneByOne
    MaxCmd = 2
    Minute = 4
    WordMax = 2
    Paced = FALSE
    Faults = FALSE
    UsbFull = FALSE
    MaxFrames = 4
    MaxPower = 0
INVARIANTS
    MissMeansNotReceived
CHECK_DEADLOCK FALSE
