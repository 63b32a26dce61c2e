SPECIFICATION Spec
CONSTANTS
  Task = {t1, t2}
  kFrameCount = 6
  MaxFrames = 3
  MaxOwned = 2
  MemoryMaps <- AllMaps
SYMMETRY Symmetry
INVARIANTS SoundUnlessRaced OwnedAvailable NothingLost
PROPERTIES FailsOnlyWhenFull FirstFit
