SPECIFICATION FairPromptSpec
CONSTANTS
  Requests = {r1, r2}
  Chunk = 2
  MaxSize = 5
  MailBound = 2
  More = More
  None = None
  Garbled = Garbled
INVARIANTS AnswerArrivesWhole NoTornRead
PROPERTIES EveryCallReturns ImplementsRpc
