CONSTANTS
  Requests = {r1, r2}
  Visitors = {u1, u2}
  Hosts = {h1}
  MaxDay = 2
  MaxSite = 2

SPECIFICATION Spec

SYMMETRY Symmetry

INVARIANT SessionSpan

\* Requests are answered and the clock has its bound.
CHECK_DEADLOCK FALSE
