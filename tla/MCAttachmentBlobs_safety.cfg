\* Two attachments sharing one key, two concurrent requests, two workers
\* (so that a reclaimed task overlaps an older attempt), the cleanup job.
CONSTANTS
    Atts = {a1, a2}
    Keys = {k1}
    Requests = {r1, r2}
    Workers = {w1, w2}
    NoAtt = NoAtt
    NoKey = NoKey
SPECIFICATION Spec
SYMMETRY Symmetry
INVARIANTS TypeOK ReferencedBlobExists DeleteExclusion NoLostCleanup
PROPERTIES ImplementsBlobStore
\* With every id and key used and every task settled nothing is left to do.
CHECK_DEADLOCK FALSE
