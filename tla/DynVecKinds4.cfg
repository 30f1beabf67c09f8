CONSTANTS
  Vector = 4
  DataNum = 13
  XNum = 6
  RowNum = 3
  DataTypes = {"double"}
  Inputs <- Kinds4
  HashOf <- MasksAsKey
  NoKey = NoKey
SPECIFICATION Spec
INVARIANTS StreamsAligned RangesWriteOneRow ResultOfLambda
CHECK_DEADLOCK FALSE
