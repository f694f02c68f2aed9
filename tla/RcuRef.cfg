CONSTANTS
  SLOT_COUNT = 2
  Objects = {o1, o2}
  Rings = {r1, r2, r3}
  NULL = NULL
  StoreBuffer = FALSE
  MaxTime = 8
  MaxRef = 1
SPECIFICATION Spec
SYMMETRY Symmetry
INVARIANTS
  NoReuseWhileHeld
  SingleOwner
  NoLeak
  LockExclusion
