CONSTANTS
  Functions <- SwapFunctions
SPECIFICATION SSpec
INVARIANTS
  ExecutionsKept
CHECK_DEADLOCK FALSE
