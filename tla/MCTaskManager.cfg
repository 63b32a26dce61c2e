SPECIFICATION Spec
CONSTANTS
  MaxTask = 4
  MaxMsgs = 1
  Message = {m}
  WakeLevels <- AllLevels
  kMaxLevel = 2
  kDefaultLevel = 1
INVARIANTS RunQueues TopLevel Contexts
PROPERTIES PreemptedByPeer GoneForGood ImplementsScheduler
