CONSTANTS
    Instance = {a, b, t}
    NoDhcp = {t}
    Mac = {m1, m2, m3}
    None = None
    NoAddr = NoAddr
    Width = 4
    HostBits = 3
    NetAddr = 8
    Start = 13
    PoolMax = 3
    MaxLeases = 2
SPECIFICATION Spec
SYMMETRY Symmetry
INVARIANTS TypeOK Dense ConflictNeedsLoss LeasesInSubnet
