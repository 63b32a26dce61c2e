SPECIFICATION Spec
CONSTANTS
  Byte = {a, b}
  Piece = 2
  Request = {1, 3}
  MaxBytes = 4
  MaxOther = 1
INVARIANTS OnlyQuittersMissed
PROPERTIES ImplementsStream
CHECK_DEADLOCK FALSE
