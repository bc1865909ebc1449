CONSTANTS
    Conn = {c, d}
    Up = Up
    Loc = Loc
    UpCaller = {u1, u2}
    Mac = {m}
    Group = Group
    None = None
    MaxPeers = 1
    OutQueue = 1
    MaxFrames = 2
    MaxLost = 1
SPECIFICATION FairSpec
INVARIANTS TypeOK PeersCounted MacsBacked NoEcho OvertakenOnlyThinned
PROPERTIES PortsFreed 
CHECK_DEADLOCK FALSE
