CONSTANTS
  Paths = {p1, p2}
  Excluded = {p2}
  MaxVisits = 2
  MinTracked = 2
  MaxTracked = 2

SPECIFICATION Spec

INVARIANTS
  SentOnce
  VitalOnce
  PageviewPerVisit
  AwayIsFlushed
  FlushComplete

PROPERTY Drains

\* A page that is left need not come back.
CHECK_DEADLOCK FALSE
