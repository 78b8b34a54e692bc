\* Fairness of the task processor; no symmetry, a liveness property is checked.
CONSTANTS
    Atts = {a1, a2}
    Keys = {k1}
    Requests = {r1}
    Workers = {w1}
    NoAtt = NoAtt
    NoKey = NoKey
SPECIFICATION FairSpec
PROPERTIES DeletionSettles
CHECK_DEADLOCK FALSE
