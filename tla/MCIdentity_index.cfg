SPECIFICATION Spec
CONSTANTS
  d1 = d1
  d2 = d2
  inst = inst
  host = host
  ptr = ptr
  a1 = a1
  a2 = a2
  None = None
  Devices = {d1, d2}
  Addresses = {a1, a2}
  Names = {inst, host, ptr}
  PtrNames = {ptr}
  Owner <- MCOwner
  Rank <- MCRank
  SettleWindow = 2
  MaxRestarts = 1
SYMMETRY MCSymmetry
INVARIANT IndexNamesTheLatest
