SPECIFICATION FairSpec
CONSTANTS
    i1 = i1
    i2 = i2
    None = None
    Instances = {i1, i2}
    MaxEvents = 3
    MaxTxEvents = 2
    MaxFaults = 2
INVARIANTS TypeOK SeqFollowsCommits ConfirmedWasSent
PROPERTIES ImplementsOutboxLog 
CHECK_DEADLOCK FALSE
