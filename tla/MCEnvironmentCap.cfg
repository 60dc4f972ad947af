SPECIFICATION Spec
CONSTANTS
    Location = {1, 2}
    MaxSize = 1
    QuotaPct = 90
    BatchSize = 2
    SampleFactor = 2
    USize = 50
    MaxRequests = 3
    MaxTime = 1
    MaxCrashes = 1
    None = None
INVARIANT DecimationMeansCapCrossed
