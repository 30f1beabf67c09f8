CONSTANTS
  Vector = 8
  DataNum = 18
  XNum = 12
  RowNum = 8
  DataTypes = {"float", "double"}
  Inputs <- Kinds8
  HashOf <- MasksAsKey
  NoKey = NoKey
SPECIFICATION Spec
INVARIANT StreamsAligned
PROPERTIES ImplementsAccumulate Termination
CHECK_DEADLOCK FALSE
