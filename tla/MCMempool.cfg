SPECIFICATION Spec
CONSTANTS
  Slabs = {s1, s2, s3}
  N = 3
  NULL = NULL
SYMMETRY SlabSymmetry
INVARIANTS
  TypeOK
  Accounting
  FreeListWellFormed
  HeldObjectsFindable
  NoAssertFailure
PROPERTIES
  NoDoubleAlloc
CHECK_DEADLOCK FALSE
