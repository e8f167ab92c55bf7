CONSTANTS
  Routes = {"/", "/a", "/b"}
  MaxCommits = 4

SPECIFICATION AdapterSpec

INVARIANTS
  PageviewPerRoute
  NamesRoute

\* A manual init that never comes, or the last visit, leaves nothing to do.
CHECK_DEADLOCK FALSE
