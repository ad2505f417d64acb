CONSTANTS
  w1 = w1
  w2 = w2
  Workers = {w1, w2}
  Programs <- MCComparedPrograms
  MaxValue = 4
  CfgOf <- MCComparedCfgOf
  WpoOf <- MCComparedWpoOf
  Partition <- MCPartition
  Value <- MCValue
  Bottom = 0
  InitValue = 1
  Leq <- MCLeq
  Join <- MCJoin
  JoinIter <- MCJoin
  JoinLoop <- MCJoin
  Widen <- MCWiden
  Narrow <- MCNarrow
  HasHint <- MCHasHint
  WidenThreshold <- MCWidenThreshold
  HasNarrowing <- MCHasNarrowing
  AnalyzeEdge <- MCAnalyzeEdge
  AnalyzeNode <- MCAnalyzeNode
  WtoOf <- MCComparedWtoOf
SPECIFICATION FairCSpec
INVARIANTS
  SameInvariants
PROPERTIES
  BothTerminate
CHECK_DEADLOCK FALSE
