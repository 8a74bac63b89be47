SPECIFICATION Spec
CONSTANT
  Kinds <- AllKinds
INVARIANTS
  PooledIsClean
  ReadsArePinned
PROPERTY
  CleanupIsBounded
