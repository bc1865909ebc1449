CONSTANTS
    Instance = {a, b, c}
    Foreign = {}
    Ino = {1, 2, 3, 4, 5, 6, 7, 8}
    None = None
    MaxPeers = 2
    Faults = {"stop"}
SPECIFICATION FairSpec
INVARIANTS TypeOK SeatMatchesRole NoSplitBrain HubReachable BindNeverLost
PROPERTIES LiveSocketKept ImplementsSeat AllServed
