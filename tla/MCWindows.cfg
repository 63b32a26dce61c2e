SPECIFICATION Spec
CONSTANTS
  Terminal = {t1, t2}
  Child = {c1}
  NBox = 1
  MaxLayer = 7
  MaxInbox = 1
  Runner = {t1}
INVARIANTS StackSound HeldExist FocusKnown
PROPERTIES CloseCloses
CHECK_DEADLOCK FALSE
