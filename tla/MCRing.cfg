SPECIFICATION LiveRingSpec
CONSTANTS
  Command = {c1, c2}
  buf_size_ = 4
  event_size = 3
  MaxUnderWay = 2
PROPERTIES AnsweredInOrder KeepsAnswering
CHECK_DEADLOCK FALSE
