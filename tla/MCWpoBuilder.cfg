CONSTANTS
  MaxBlocks = 4
  MaxSplit = 7
  MaxProfiled = 3
  InputGraphs <- MCInputGraphs
  IndirectSize = 7
  MinPath = 6
  ExitSize = 2
  ProfileInputs <- MCProfileInputs
SPECIFICATION OrderSpec
INVARIANTS
  PartitionExact
  WpoWellFormed
  ComponentsAreSccs
  OutsideExact
  SameInputs
  WtoIsASchedule
  SizesExact
  LengthsExact
  ClassesAreHeaviestPaths
  ParallelismFits
CHECK_DEADLOCK FALSE
