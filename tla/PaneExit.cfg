\* The end of the child, and of the thread that runs its terminal.
SPECIFICATION FairSpec
CONSTANTS
  Outputs <- TextOutputs
  Ops <- ExitOps
  Sizes = {s1, s2}
  NoSize = NoSize
  CmdCap = 1
  ByteCap = 2
  MaxOps = 0
PROPERTY ExitEndsThread
CHECK_DEADLOCK FALSE
