SPECIFICATION Spec
CONSTANTS
  Keys <- MCKeys
  InitCap = 2
  MaxNum = 6
  IntRange = 8
  NoElem = NoElem
INVARIANTS
  TypeOK
  HeapOrder
  Conserved
PROPERTIES
  PopsLeast
