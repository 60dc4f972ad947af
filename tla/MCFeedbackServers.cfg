SPECIFICATION MCSpec
CONSTANTS
    Server = {s1, s2}
    Client = {c1}
    Post = {p1}
    FeedbackType = {t1}
    MaxPow = 2
    Redundancy = 3
    MaxFetches = 2
    MaxFaults = 2
    None = None
SYMMETRY Symmetry
INVARIANTS  HealsReachMerge
 
