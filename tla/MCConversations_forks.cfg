SPECIFICATION Spec
CONSTANTS
  c1 = c1
  c2 = c2
  c3 = c3
  c4 = c4
  batch = batch
  single = single
  sync = sync
  other = other
  Convs = {c1, c2, c3, c4}
  Groups = {g1}
  Handlers = {h1}
  Ops = {batch, other}
  Request <- MCRequest
  MaxAttempts <- Once
  Clock = {0}
  None = None
INVARIANT ForkShowsPrefix
SYMMETRY ForkPerms
VIEW NoHistory
