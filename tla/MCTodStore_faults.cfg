SPECIFICATION Spec
CONSTANTS
    Headers <- MCSecondsHeaders
    Follows <- MCSeconds
    MaxCmd = 1
    Minute = 3
    WordMax = 1
    Paced = TRUE
    Faults = TRUE
    UsbFull = TRUE
    MaxFrames = 3
    MaxPower = 1
INVARIANTS
    FiledUnderOwnStamp
    CountersExact
PROPERTIES
    SmKeepsFrames
CHECK_DEADLOCK FALSE
