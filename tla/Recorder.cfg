SPECIFICATION FairSpec
CONSTANTS
  Commands = 2
  MaxPrinted = 1
INVARIANTS SentOnlyAfterFinished StepsAreCommands
PROPERTIES RecordingEnds
CHECK_DEADLOCK FALSE
