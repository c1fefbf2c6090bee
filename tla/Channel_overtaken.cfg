SPECIFICATION Spec
CONSTANTS
  Requests = {r1, r2}
  Chunk = 2
  MaxSize = 5
  MailBound = 2
  More = More
  None = None
  Garbled = Garbled
INVARIANT AnswerArrivesWhole
