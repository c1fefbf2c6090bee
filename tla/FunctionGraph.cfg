CONSTANTS
  Cpus = {c0, c1}
  Tasks = {t1, t2, t3}
  Names = {f, g}
  MaxLines = 5
  MaxOther = 1
  MaxLost = 1
SPECIFICATION Spec
SYMMETRY Symmetry
INVARIANTS FramesAreCalls WalkInOrder
CHECK_DEADLOCK FALSE
