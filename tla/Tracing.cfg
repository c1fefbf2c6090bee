SPECIFICATION Spec
CONSTANTS
  Backends = {"v86", "native"}
  FaultsIn <- InsideTry
  MaxWindows = 3
  None = None
INVARIANTS TracerPutBack NothingLeftOn OnlyItsWindow NoOptionRefused
PROPERTIES TracerChangesOnlyWhenOff
CHECK_DEADLOCK FALSE
