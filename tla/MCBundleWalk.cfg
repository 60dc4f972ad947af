SPECIFICATION Spec
CONSTANTS
    Caller = {c1, c2}
    Peer = {1, 2, 3}
    Agreement <- MCAgreement
    Post = {x}
    SealAt = 1
    Redundant = 1
    MaxSince = 1
    CacheDuration = 1
    RadiusTTL = 2
    MaxRadius = 3
    World <- MCWorld
    MaxTime = 1
    MaxFaults = 1
    None = None
INVARIANTS WalkInv
PROPERTIES SealedKept CallReturns
