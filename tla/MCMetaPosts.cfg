SPECIFICATION Spec
CONSTANTS
    alice = alice
    bob = bob
    Accounts = {alice, bob}
    Me = alice
    Slots = {1, 2}
    ClientIds = {carol}
    Hashtags = {}
    FeedbackTypes = {1}
    Values = {5}
    None = None
    TombstoneMaxAge = 0
    CacheTrim = 1
    Month = 2
    MaxTime = 2
    MaxEdits = 2
    MaxPosts = 1
    MaxFaults = 1
 
PROPERTIES PublishedReaches
