SPECIFICATION Spec
CONSTANTS
  c1 = c1
  c2 = c2
  c3 = c3
  c4 = c4
  batch = batch
  single = single
  sync = sync
  other = other
  Convs = {c1, c2}
  Groups = {g1, g2}
  Handlers = {h1, h2}
  Ops = {batch, single, sync}
  Request <- MCRequest
  MaxAttempts <- TwiceBatch
  Clock = {0, 2}
  None = None
INVARIANTS TypeOK AppendedOnce AcknowledgedAppends GroupsAreUsed CreatedAsRequested
PROPERTIES InheritedIsStable
SYMMETRY Perms
