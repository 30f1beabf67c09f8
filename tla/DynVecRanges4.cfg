CONSTANTS
  Vector = 4
  DataNum = 16
  XNum = 6
  RowNum = 2
  DataTypes = {"float", "double"}
  Inputs <- Ranges4
  HashOf <- MasksAsKey
  NoKey = NoKey
SPECIFICATION Spec
INVARIANTS StreamsAligned ColumnsVisitedOnce
PROPERTIES ImplementsAccumulate Termination
CHECK_DEADLOCK FALSE
