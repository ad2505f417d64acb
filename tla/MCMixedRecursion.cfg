CONSTANTS
  MaxState = 2
  State <- MCState
  Programs <- MixedRecursion
SPECIFICATION Spec
INVARIANT CachedFixpointFound
CHECK_DEADLOCK FALSE
