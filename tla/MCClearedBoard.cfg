CONSTANTS
  f1 = f1
  f2 = f2
  v1 = v1
  v2 = v2
  v3 = v3
  Features = {f1, f2}
  Values = {v1, v2, v3}
  BoardSize = 3

SPECIFICATION Spec
SYMMETRY Symmetry

INVARIANT RunsToItsEnd

CHECK_DEADLOCK FALSE
