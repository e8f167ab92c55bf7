CONSTANTS
  Hour = 1
  Change = 2
  Shift = 1
  Custom <- MCCustom
  Filters <- MCFilters
  Requests <- MCRequests
  Clicked <- MCClicked
  Answers <- MCAnswers
  MaxPicks = 2
  MaxNow = 3

SPECIFICATION Spec

INVARIANTS
  UpToDate
  WindowAsAsked
  PageWhole
  DrawnTruly

PROPERTIES
  NeverBack
  PickedShown

\* A dashboard that is closed, or whose stream has ended, stops.
CHECK_DEADLOCK FALSE
