SPECIFICATION Spec
CONSTANTS
    Instances = {i1, i2}
    Convs = {c1}
    Recs = {x1, x2}
    Readers = {q1}
    Cancellers = {}
    MaxTokens = 3
    ReadCap = 2
    MaxHops = 1
    None = None
SYMMETRY Symmetry
INVARIANTS
    TypeOK
    LossOnlyPastReadCap
    OneActiveRecording
