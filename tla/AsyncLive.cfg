SPECIFICATION AsyncLiveSpec
CONSTANTS
  Cos = {c1, c2}
  P = 1
  Suspends = 1
  Calls = 1
  NoCo = NoCo
PROPERTY AsyncCoroutinesEnd
CHECK_DEADLOCK FALSE
