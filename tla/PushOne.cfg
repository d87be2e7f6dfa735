\* One client that works with its pane.
SPECIFICATION FairSpec
CONSTANTS
  Clients = {a}
  Joined <- Nobody
  Ops <- ViewOps
  Blank = Blank
  None = None
  HighWater = 1
  MaxOutput = 1
  MaxOps = 2
INVARIANTS UpdateReachesSubscriber
PROPERTY ScreenCatchesUp
CHECK_DEADLOCK FALSE
