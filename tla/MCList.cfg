SPECIFICATION Spec
CONSTANTS
  Heads = {h1, h2}
  Entries = {e1, e2, e3, e4}
  NULL = NULL
  LIST_POISON1 = LIST_POISON1
  LIST_POISON2 = LIST_POISON2
SYMMETRY ListSymmetry
INVARIANTS
  Represents
  LoopSeesAll
