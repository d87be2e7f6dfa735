\* A pane of a tab is closed or its shell exits.
SPECIFICATION Spec
CONSTANTS
  RatioMin = 1
  RatioMid = 1
  RatioMax = 2
  MaxPanes = 2
  MaxTabs = 2
  MaxWindows = 2
  MaxOps = 3
  MaxUndo = 1
  SplitDirections <- BothDirections
  NoDrag = NoDrag
INVARIANT ClosedIsGone
CHECK_DEADLOCK FALSE
