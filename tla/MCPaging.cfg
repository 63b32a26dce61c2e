SPECIFICATION Spec
CONSTANTS
  Task = {t1, t2}
  App = {a1}
  NumFrames = 14
  Levels = 2
  NumPages = 4
  Span <- TwoLevels
  ImagePages <- OnePage
  StackPages <- OneStack
  ArgsPage = 3
  MaxHeap = 0
  MaxMaps = 0
  MaxMishaps = 0
  AnyBuffer = FALSE
SYMMETRY Symmetry
INVARIANTS FramesAccounted SharedReadOnly LostByMishap ImagesIntact
PROPERTIES ImplementsAppMemory
CHECK_DEADLOCK FALSE
