\* A client that leaves and comes back, and asks for snapshots.
SPECIFICATION Spec
CONSTANTS
  Clients = {a}
  Joined <- Nobody
  Ops <- LeaveOps
  Blank = Blank
  None = None
  HighWater = 1
  MaxOutput = 2
  MaxOps = 2
PROPERTIES NeverRegresses NeverBlanked GetIsFreshUnlessHeld
CHECK_DEADLOCK FALSE
