\* Two clients that share panes, leave them and end.
SPECIFICATION Spec
CONSTANTS
  MaxClients = 2
  MaxPanes = 1
  MaxRequests = 1
  MaxOps = 3
  Ops <- SharedOps
INVARIANTS MapsAgree PendingIsOwed ShownIsServed
PROPERTIES LeavingSparesOthers ExitsAfterClients
CHECK_DEADLOCK FALSE
