CONSTANTS
  Vector = 8
  DataNum = 16
  XNum = 12
  RowNum = 8
  DataTypes = {"float"}
  Inputs <- Collision
  HashOf <- FeatureKey
  NoKey = NoKey
SPECIFICATION Spec
PROPERTY ImplementsAccumulate
CHECK_DEADLOCK FALSE
