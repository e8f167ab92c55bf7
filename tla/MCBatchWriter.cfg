CONSTANTS
  Events = {e1, e2, e3}
  Closers = {c1, c2}
  MaxRows = 2

SPECIFICATION Spec

INVARIANTS
  Accounted
  NoLostWakeup

PROPERTIES
  CloseTerminates
  TickDelivers
  ContractSpec

\* The program may stop: after Close nothing has to happen.
CHECK_DEADLOCK FALSE
