SPECIFICATION LiveSpec
CONSTANTS
  Nodes = {n1, n2, n3}
  Producers = {p1, p2}
  Consumer = Consumer
  Stub = Stub
  NULL = NULL
INVARIANTS
  TypeOK
  ListIntegrity
  NoAccessAfterPop
PROPERTIES
  FifoSpec
  NullOnlyIfEmptyOrOverlap
  QueuedNodesPopped
