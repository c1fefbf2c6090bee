SPECIFICATION FairSpec
CONSTANTS
  Requesters = {worker, page}
  Writers = {worker}
  empty = empty
  long = long
  Texts = {empty, long}
  PieceCount <- MCPieceCount
  MaxTyped = 3
  None = None
INVARIANTS TargetWhole WriteLands AnswersOnce
PROPERTIES EveryRequestAnswered
