SPECIFICATION Spec
CONSTANTS
  Commands = 1
  MaxPrinted = 1
INVARIANT PromptIsSeen
CHECK_DEADLOCK FALSE
