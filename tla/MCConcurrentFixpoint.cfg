CONSTANTS
  w1 = w1
  w2 = w2
  w3 = w3
  Workers = {w1, w2, w3}
  Programs <- MCGraphPrograms
  MaxValue = 4
  CfgOf <- MCCfgOf
  WpoOf <- MCWpoOf
  Partition <- MCPartition
  Value <- MCValue
  Bottom = 0
  InitValue = 1
  Leq <- MCLeq
  Join <- MCJoin
  JoinIter <- MCJoin
  JoinLoop <- MCJoin
  Widen <- MCWiden
  Narrow <- MCNarrow
  HasHint <- MCHasHint
  WidenThreshold <- MCWidenThreshold
  HasNarrowing <- MCHasNarrowing
  AnalyzeEdge <- MCAnalyzeEdge
  AnalyzeNode <- MCAnalyzeNode
SPECIFICATION Spec
SYMMETRY Symmetry
INVARIANTS
  SchedulerInv
  Exclusive
  CountersExact
  RaceFree
  CompleteWhenFinished
  PostFixpoint
  InvariantsCover
PROPERTIES
  ScheduleSpec
  IterationPhases
CHECK_DEADLOCK FALSE
