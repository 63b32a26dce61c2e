SPECIFICATION Spec
CONSTANTS
  Task = {t1}
  App = {a1}
  NumFrames = 18
  Levels = 3
  NumPages = 8
  Span <- ThreeLevels
  ImagePages <- TwoPages
  StackPages <- HighStack
  ArgsPage = 7
  MaxHeap = 1
  MaxMaps = 2
  MaxMishaps = 1
  AnyBuffer = FALSE
PROPERTIES ImplementsAppMemory
CHECK_DEADLOCK FALSE
