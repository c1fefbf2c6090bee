SPECIFICATION FairSpec
CONSTANTS
  MaxCalls = 2
  MaxNoise = 1
  Commands <- MCCommands
INVARIANTS NoFalseVerdict OwnOutputOnly ExactWhenQuiet
PROPERTIES EveryCallSettles ImplementsShellCalls
CHECK_DEADLOCK FALSE
