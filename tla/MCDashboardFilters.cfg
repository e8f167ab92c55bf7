CONSTANTS
  Hour = 1
  Change = 2
  Shift = 1
  Custom <- MCCustom
  Filters <- MCFilters
  Requests <- MCRequests
  Clicked <- MCClicked
  Answers <- MCAnswers
  MaxPicks = 2
  MaxNow = 3

SPECIFICATION Spec

INVARIANT FiltersApply

CHECK_DEADLOCK FALSE
