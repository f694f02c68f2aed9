CONSTANTS
  Guards = {g1, g2}
  Locks = {l1, l2, l3}
  GUARD_SIZE = 2
  NoLock = NoLock
SPECIFICATION Spec
INVARIANTS
  GuardExact
  GrantHolds
PROPERTY
  CallsReturn
