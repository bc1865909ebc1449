CONSTANTS
    Instance = {a, b}
    Foreign = {f, w}
    Bridge = {w}
    MaxForeign = 1
    Ino = {1, 2, 3, 4, 5, 6, 7, 8}
    None = None
    MaxPeers = 1
    Faults = {"guest"}
SPECIFICATION MixedSpec
SYMMETRY Symmetry
INVARIANTS SeatMatchesRole NoSplitBrain
PROPERTIES ImplementsSeat
