SPECIFICATION Spec
CONSTANTS
  Cos = {c1, c2}
  P = 1
  Suspends = 1
  NoCo = NoCo
INVARIANT ResumedOnOwnStack
CHECK_DEADLOCK FALSE
