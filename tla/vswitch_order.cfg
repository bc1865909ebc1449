CONSTANTS
    Conn = {c}
    Up = Up
    Loc = Loc
    UpCaller = {u}
    Mac = {m}
    Group = Group
    None = None
    MaxPeers = 1
    OutQueue = 1
    MaxFrames = 2
    MaxLost = 1
SPECIFICATION Spec
CHECK_DEADLOCK FALSE
INVARIANTS FramesInOrder
SYMMETRY Symmetry
