CONSTANT
  Clients = {c1, c2, c3}
SPECIFICATION FairSpec
INVARIANTS
  StatusExact
PROPERTIES
  ImplementsRWLock
  FreeLockIsTaken
