SPECIFICATION Spec
CONSTANTS
  Programs <- Instances
  OffsetBits = 5
  RegisterBits = 5
  Threshold = 3
  MaxSteps = 8
INVARIANTS
  PointsToSound
  SolvedSoon
CHECK_DEADLOCK FALSE
