SPECIFICATION LiveSpec
CONSTANTS
  MaxPorts = 3
  kDeviceSize = 3
  Others = 1
  MaxPulls = 1
INVARIANTS AddressingPort InStep
PROPERTIES ServedUnlessPulled
CHECK_DEADLOCK FALSE
