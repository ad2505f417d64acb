CONSTANTS
  Functions <- MCFunctions
SPECIFICATION SSpec
INVARIANTS
  ExecutionsKept
  NoCriticalEdges
CHECK_DEADLOCK FALSE
