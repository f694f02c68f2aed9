CONSTANTS
  SLOT_COUNT = 2
  Objects = {o1, o2}
  Rings = {r1, r2, r3}
  NULL = NULL
  StoreBuffer = TRUE
  MaxTime = 8
  MaxRef = 0
SPECIFICATION Spec
SYMMETRY Symmetry
INVARIANT
  NoReuseWhileHeld
