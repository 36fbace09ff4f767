SPECIFICATION FairSpec
CONSTANTS
    F = 2
    Size = 3
    MaxTags = 2
    MaxInterval = 2
    MaxFrames = 3
    MaxBroken = 1
    MaxHiccups = 1
INVARIANTS
    Accounted LossBounded ReadInside SinkOnce
PROPERTIES
    BytesSettle SilenceNoticed
CHECK_DEADLOCK FALSE
