SPECIFICATION Spec
CONSTANTS
  Main = main
  Terminal = {t1, t2}
  Box = {2}
  AppValue = {1}
  Millis = {15}
  kTimerFreq = 100
  kTaskTimerPeriod = 2
  kBlink = 3
  kTaskTimerValue = 9
  MaxTick = 5
  MaxReach = 3
  MaxCreated = 1
SYMMETRY Symmetry
INVARIANTS PreemptsOnTime OneBlink
CHECK_DEADLOCK FALSE
