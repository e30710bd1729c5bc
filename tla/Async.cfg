SPECIFICATION AsyncSpec
CONSTANTS
  Cos = {c1, c2}
  P = 1
  Suspends = 1
  Calls = 2
  NoCo = NoCo
INVARIANTS
  AsyncOnePlace
  WakesAreOwn
  LoopFuturesSafe
CHECK_DEADLOCK FALSE
