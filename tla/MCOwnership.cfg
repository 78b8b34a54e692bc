\* Two requests whose statements interleave.
SPECIFICATION Spec
CONSTANTS
  Users = {alice, bob, carol}
  Creator = alice
  Requests = {r1, r2}
  TransferIds = {t1, t2}
  None = None
INVARIANT AtMostOneOwner
SYMMETRY Perms
