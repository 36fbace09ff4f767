SPECIFICATION Spec
CONSTANTS
    MaxCmd = 2
    MaxFrames = 3
    MaxEarly = 2
    MaxFaults = 2
INVARIANTS
    ConnectedCanSend
