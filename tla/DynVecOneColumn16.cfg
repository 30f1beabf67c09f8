CONSTANTS
  Vector = 16
  DataNum = 17
  XNum = 18
  RowNum = 16
  DataTypes = {"float"}
  Inputs <- OneColumn16
  HashOf <- MasksAsKey
  NoKey = NoKey
SPECIFICATION Spec
PROPERTY ImplementsAccumulate
CHECK_DEADLOCK FALSE
