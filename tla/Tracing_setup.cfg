SPECIFICATION Spec
CONSTANTS
  Backends = {"v86"}
  FaultsIn <- InSetup
  MaxWindows = 2
  None = None
INVARIANT TracerPutBack
CHECK_DEADLOCK FALSE
