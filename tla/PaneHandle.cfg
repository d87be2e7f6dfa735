\* A pane driven and closed through its handle.
SPECIFICATION FairSpec
CONSTANTS
  Outputs <- QueryOutputs
  Ops <- HandleOps
  Sizes = {s1, s2}
  NoSize = NoSize
  CmdCap = 1
  ByteCap = 1
  MaxOps = 1
INVARIANTS TypeOK NoWakeLost
PROPERTIES ReplyDelivered CloseCompletes
CHECK_DEADLOCK FALSE
