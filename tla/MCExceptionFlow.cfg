SPECIFICATION Spec
CONSTANTS
  A = A
  B = B
  Full = Full
  NoEx = NoEx
  NoMethod = NoMethod
  EntryEx = Full
  Exceptions <- MCExceptions
  Methods <- MCMethods
  code <- MCCode
  clauses <- MCClauses
  FailingEntry <- MCFailing
  MaxFrames = 3
  FlowCap = 4
INVARIANTS
  FlowsMatchHandlers
  ClauseIndexInTable
PROPERTIES
  FinallyAlwaysRuns
  HandlerProtectsRaise
  SearchEnds
