CONSTANTS
  Vector = 4
  DataNum = 5
  XNum = 5
  RowNum = 3
  DataTypes = {"float", "double"}
  Inputs <- OneColumn4
  HashOf <- MasksAsKey
  NoKey = NoKey
SPECIFICATION Spec
INVARIANT ResultOfLambda
PROPERTY ImplementsAccumulate
CHECK_DEADLOCK FALSE
