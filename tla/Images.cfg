SPECIFICATION Spec
CONSTANTS
    Clients = {c1}
    Images = {i1, i2}
    Ops <- OpKinds
    ServerCap = 1
    ClientCap = 1
    HighWater = 1
    MaxSeq = 3
    MaxPublish = 3
    None = None
INVARIANTS StoreCoversEntry SentIsOnItsWay PlacementsResolvable
SYMMETRY Symmetry
CHECK_DEADLOCK FALSE
