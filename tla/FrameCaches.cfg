\* Two panes, commands, tab switches and refreshes outside the redraw.
SPECIFICATION Spec
CONSTANTS
  Panes = {p1, p2}
  Rows = {r1, r2}
  Values = {a, b}
  NoCell = NoCell
  NoPane = NoPane
  CmdCap = 1
  MaxInputs = 2
  MainOps <- CacheOps
SYMMETRY ValueSymmetry
INVARIANTS CumulativeDamage TrackerCoversGrid NoLostWakeup
