SPECIFICATION Spec
CONSTANTS
  PageSize = 4096
  MaxOrder = 6
  MinNum = 8
  PtrSize = 8
  UIntMod = 1048576
  SizeMod = 16777216
  ObjSizes <- MCObjSizes
  Aligns <- MCAligns
INVARIANTS
  TypeOK
  ObjectsFit
  LeastOrder
CHECK_DEADLOCK FALSE
