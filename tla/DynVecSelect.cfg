CONSTANTS
  Vector = 8
  DataNum = 8
  XNum = 12
  RowNum = 8
  DataTypes = {"double"}
  Inputs <- OneColumn8
  HashOf <- MasksAsKey
  NoKey = NoKey
SPECIFICATION Spec
INVARIANT SelectTypesEqual
CHECK_DEADLOCK FALSE
