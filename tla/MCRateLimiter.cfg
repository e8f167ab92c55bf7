CONSTANTS
  Requests = {r1, r2, r3}
  Ips = {i1}
  NoIp = noip
  Sites = {s1}
  PerIP = 1
  PerSite = 2
  TicksPerSec = 2
  MaxTime = 4

SPECIFICATION Spec
SYMMETRY Symmetry

INVARIANTS
  CapHolds
  RejectedForCause
  OneAddressLeavesSite

\* The clock is bounded and each request is made once.
CHECK_DEADLOCK FALSE
