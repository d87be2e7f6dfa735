\* Three panes in two tabs and three windows.
SPECIFICATION Spec
CONSTANTS
  RatioMin = 1
  RatioMid = 1
  RatioMax = 2
  MaxPanes = 3
  MaxTabs = 3
  MaxWindows = 3
  MaxOps = 5
  MaxUndo = 1
  SplitDirections = {"vertical"}
  NoDrag = NoDrag
INVARIANTS TabsPartition NoSharedPane SessionMatchesMux TreeEditsKeepOrder ResizeMovesBorder
PROPERTIES ImplementsTabWindows ShownTabKept
CHECK_DEADLOCK FALSE
