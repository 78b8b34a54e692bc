SPECIFICATION Spec
CONSTANTS
    Process = {p1, p2}
    MaxEvents = 2
    MaxFaults = 1
    MaxPauses = 1
    BatchEvents = 2
    None = None
INVARIANT NoEventLost
CHECK_DEADLOCK FALSE
