SPECIFICATION Spec
CONSTANTS
    Server = {s1, s2}
    Client = {c1}
    Post = {p1, p2}
    MaxPosts = 1
    MaxGranted = 2
    SealAt = 0
    ClaimUntil = 1
    MaxTime = 1
    MaxHealTokens = 1
    MaxFaults = 1
    None = None
SYMMETRY Symmetry
INVARIANTS  GrantsBounded
PROPERTIES PostsStay ElapsedSealStays 
