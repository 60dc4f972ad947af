SPECIFICATION Spec
CONSTANTS
    Id = {1, 2, 3, 4, 5, 6}
    Self = 1
    Agreement <- MCAgreement
    Bits = 3
    MaxPeers = 2
    Pow = {1, 2}
    InitialPow = 1
    Score <- MCScoreAt
    OtherRecord <- MCOtherRecord
    MinimumPeers = 3
    NearestPeers = {1, 3}
    AnnouncePeers = 3
    DumpInterval = 0
    MaxAddresses = 2
    MaxAnswer = 1
    MaxTime = 2
    MaxStamp = 1
INVARIANTS OneRecordPerPeer NearestReturned ChangeIsNoticed
 
