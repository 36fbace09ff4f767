SPECIFICATION FairSpec
CONSTANTS
    Headers <- MCForwardHeaders
    Follows <- MCForward
    MaxCmd = 2
    Minute = 4
    WordMax = 3
    Paced = FALSE
    Faults = FALSE
    UsbFull = FALSE
    MaxFrames = 4
    MaxPower = 1
INVARIANTS
    TypeOK
    CurrentNotZipped
    OpenAsZipped
    LatestStored
    NeverFiledAhead
PROPERTIES
    KeepsArchive
    ClosedFileLeaves
CHECK_DEADLOCK FALSE
