SPECIFICATION Spec
CONSTANTS
  Slabs = {s1, s2}
  N = 2
  NULL = NULL
INVARIANT AllocFailsOnlyWhenExhausted
CHECK_DEADLOCK FALSE
