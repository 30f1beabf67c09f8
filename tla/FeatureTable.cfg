CONSTANTS
  TableColumnNum = 5
  Feature <- MCFeature
  EquelFeature <- MCEquelFeature
  Location = {0, 1}
  Hash <- MCHash
  NoKey = NoKey
SPECIFICATION TableSpec
INVARIANTS TableTypeOK ColumnPlacedOnce RangeWritesOneLocation
PROPERTY TableBuilt
CHECK_DEADLOCK FALSE
