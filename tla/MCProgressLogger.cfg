CONSTANTS
  Workers = {w1, w2}
  Main = main
  MaxDepth = 2
  MaxIteration = 1
  MaxMessages = 3
SPECIFICATION Spec
INVARIANTS
  ScreenConsistent
PROPERTIES
  LinesKept
  EndLoggerReturns
CONSTANTS
  w1 = w1
  w2 = w2
  main = main
