SPECIFICATION LiveSpec
CONSTANTS
  MaxTask = 4
  MaxMsgs = 2
  Message = {m}
  WakeLevels <- OnlyDefault
  kMaxLevel = 3
  kDefaultLevel = 1
INVARIANTS NoLostWakeup
PROPERTIES MainRunsToSleep UsesTaskManager MainServed EveryoneRuns WaitReturns
