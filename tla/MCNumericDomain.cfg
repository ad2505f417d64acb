CONSTANTS
  RegisterBits = 4
  Types <- MCTypes
  Others <- MCOthers
SPECIFICATION Spec
INVARIANTS
  OperationsExact
  Sound
  ConstantsExact
  WideningStops
  OrderExact
  BranchesExact
