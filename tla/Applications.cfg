SPECIFICATION Spec
CONSTANTS
  Files <- MCFiles
  Graphs <- MCGraphs
  VectorNums = 2
INVARIANTS
  EntriesPlaced
  SumsAgree
  RankGivenAway
PROPERTY SlotsWrittenOnce
CHECK_DEADLOCK FALSE
