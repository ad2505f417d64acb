CONSTANTS
  w1 = w1
  w2 = w2
  Workers = {w1, w2}
  Locked <- MCLocked
  Interned <- MCInterned
  Statements <- MCStatements
  RequestsOf <- MCRequestsOf
  ConstructionOf <- MCConstructionOf
  Preexisting <- AllPointerTypes
  MaxStatements = 1
SPECIFICATION Spec
INVARIANTS
  OneObjectPerKey
PROPERTY AllAnalyzed
CHECK_DEADLOCK FALSE
