CONSTANTS
  Events = {e1, e2}
  Sessions = {s1, s2}
  Paths = {p1, p2}
  MaxTime = 2
  DayLen = 1
  MonthLen = 2
  MaxBlock = 2
  Windows <- MCWindows

SPECIFICATION Spec

SYMMETRY Symmetry

INVARIANTS
  RollupExact
  BouncesWhenMerged
  ShareBounded

\* Inserts and reports come to an end.
CHECK_DEADLOCK FALSE
