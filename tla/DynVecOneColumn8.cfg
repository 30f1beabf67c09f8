CONSTANTS
  Vector = 8
  DataNum = 9
  XNum = 12
  RowNum = 8
  DataTypes = {"float", "double"}
  Inputs <- OneColumn8
  HashOf <- MasksAsKey
  NoKey = NoKey
SPECIFICATION Spec
INVARIANT FilledWithinMalloc
PROPERTY ImplementsAccumulate
CHECK_DEADLOCK FALSE
