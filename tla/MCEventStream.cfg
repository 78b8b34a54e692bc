SPECIFICATION FairSpec
CONSTANTS
    MaxEvents = 3
    MaxRepeats = 1
    MaxDrops = 1
    BufferSize = 1
    PageSize = 1
    None = None
INVARIANT NoSilentGap
PROPERTIES EveryEventArrives
CHECK_DEADLOCK FALSE
