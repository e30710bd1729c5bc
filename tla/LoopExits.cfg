SPECIFICATION LiveSpec
CONSTANTS
  Cos = {c1}
  P = 1
  Suspends = 0
  NoCo = NoCo
PROPERTY LoopExits
CHECK_DEADLOCK FALSE
