SPECIFICATION FairSpec
CONSTANTS
    MaxCmd = 2
    MaxFrames = 4
    MaxEarly = 2
    MaxFaults = 2
INVARIANTS
    FlagsDown
    EachReportedOnce
PROPERTIES
    Reconnects
    SendReturns
