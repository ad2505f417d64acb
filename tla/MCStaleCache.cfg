CONSTANTS
  MaxState = 3
  State <- MCState
  Programs <- StaleCache
SPECIFICATION Spec
INVARIANT CacheFresh
CHECK_DEADLOCK FALSE
