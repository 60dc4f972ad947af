SPECIFICATION Spec
CONSTANTS
    NumPosts = 2
    user = user
    hashtag = hashtag
    Feed = {user, hashtag}
    Links <- MCLinks
    Durations <- MCDurations
    Month = 4
    MaxPosts = 0
    MaxGranted = 1
    Threshold = 0
    PageSize = 2
    FeedPageSize = 1
    Hour = 1
    PenTTL = 0
    Start = 3
    MaxTime = 4
    MaxFaults = 1
    None = None
INVARIANTS
    PostedIsReachable
