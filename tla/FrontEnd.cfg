SPECIFICATION Spec
CONSTANTS
  Names <- MCNames
  Programs <- MCPrograms
  LoopPairs <- MCLoopPairs
  MaxRounds = 2
INVARIANTS
  CodeComputesExpression
  StreamsAdvance
  PlainCompiles
  DispatchIsCurrent
  ParsedAsWritten
  UsageMatchesTree
  TreeIsParsed
  OperandsBeforeUse
  EmittedOnce
  NothingLeftOut
PROPERTIES
  ImplementsCompiler
  Termination
CHECK_DEADLOCK FALSE
