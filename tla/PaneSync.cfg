\* Synchronized updates, and resizes against output that never pauses.
SPECIFICATION FairSpec
CONSTANTS
  Outputs <- SyncOutputs
  Ops <- SyncOps
  Sizes = {s1, s2}
  NoSize = NoSize
  CmdCap = 1
  ByteCap = 1
  MaxOps = 2
INVARIANT NothingHeldBack
PROPERTIES ResizeApplied SyncEndsWhenQuiet
CHECK_DEADLOCK FALSE
