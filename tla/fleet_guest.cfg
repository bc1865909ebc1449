CONSTANTS
    Instance = {a, b}
    Foreign = {}
    Ino = {1, 2, 3, 4, 5, 6}
    None = None
    MaxPeers = 2
    Faults = {"guest"}
SPECIFICATION FairSpec
PROPERTIES GuestGoneExits
