SPECIFICATION Spec
CONSTANTS
  Cos = {c1, c2, c3}
  P = 2
  Suspends = 1
  NoCo = NoCo
SYMMETRY CoSymmetry
INVARIANTS
  TypeOK
  CountersAgree
  OnePlace
  JoinAfterAllDone
  NoMissedWakeup
CHECK_DEADLOCK FALSE
