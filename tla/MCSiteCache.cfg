CONSTANTS
  Lookups = {l1, l2}
  Admins = {a1, a2}
  TTL = 2
  NegativeTTL = 1
  MaxLatency = 1
  MaxTime = 5
  MaxWrites = 3

SPECIFICATION Spec
SYMMETRY Symmetry

INVARIANTS
  BoundedStaleness
  OlderOnlyByRace

\* The clock and the number of writes are bounded.
CHECK_DEADLOCK FALSE
