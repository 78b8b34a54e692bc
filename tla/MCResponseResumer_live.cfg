SPECIFICATION FairSpec
CONSTANTS
    Instances = {i1, i2}
    Convs = {c1}
    Recs = {x1, x2}
    Readers = {}
    Cancellers = {k1}
    MaxTokens = 0
    ReadCap = 1
    MaxHops = 1
    None = None
PROPERTIES StableOwnerIsLocated CancelCompletes
