CONSTANTS
  Events = {e1, e2}
  Closers = {main}
  Main = main
  Calls = {call}
  MaxRows = 2

SPECIFICATION LifeSpec

INVARIANTS
  DrainedServerLosesNothing
  ExitSettles

PROPERTY SignalEnds

\* The process exits.
CHECK_DEADLOCK FALSE
