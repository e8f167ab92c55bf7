CONSTANTS
  Paths = {p1, p2}
  Excluded = {p2}
  MaxVisits = 2
  MinTracked = 2
  MaxTracked = 2

SPECIFICATION Spec

PROPERTY HiddenIsFlushed

CHECK_DEADLOCK FALSE
