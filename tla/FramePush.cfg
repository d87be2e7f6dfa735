\* One pane whose content is only ever pushed by its IO thread.
SPECIFICATION FairSpec
CONSTANTS
  Panes = {p1}
  Rows = {r1, r2}
  Values = {a, b}
  NoCell = NoCell
  NoPane = NoPane
  CmdCap = 1
  MaxInputs = 3
  MainOps <- PushOps
INVARIANTS ScreenFaithful FrameNotStale
PROPERTIES ScreenSettles ImplementsFullRedraw
