CONSTANTS
  Vector = 8
  Tables <- HashTables
SPECIFICATION HashSpec
INVARIANT BucketForEachFeature
CHECK_DEADLOCK FALSE
