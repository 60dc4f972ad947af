SPECIFICATION MCSpec
CONSTANTS
  Addresses = {a1, a2}
  ScoreThreshold = 3
  DecayPerSecond = 3
  BadRequestPenalty = 2
  MaxConnectionsPerIp = 1
  ThrottleSecs = 1
  None = None
  Conns = {c1, c2}
  Requests = {r1, r2}
  Capacity = 1
  MaxConnections = 1
  MaxArrivals = 2
  MaxAsks = 2
  Jobs = {"j1", "j2"}
  Slots = {1, 2}
  IterationCap <- MCIterationCap
  ChunkIterations = 2
  MaxPow = 1
  NoJob = NoJob
  MaxWorkerFailures = 1
  Sleepers = {z1, z2}
  Durations = {1, 2}
  MaxSleeps = 2
  MaxJumps = 1
  ClockEnd = 2
  RenewAfter = 3
  RetryAfter = 1
  MaxRefusals = 2
  MaxDeaths = 2
  Location = {1, 2}
  Originator = {1, 2}
  Agreement <- MCAgreement
  MaxOriginators = 1
  HitThreshold = 2
  TTI = 2
  TokenTTL = 1
  LiveTTL = 3
  MaxBytes = 1
  PlaceholderWeight = 1
  MaxRestarts = 1
  NoEntry = NoEntry
INVARIANTS ListenerInv SearchesAddUp FreshMeansPair CacheInv
PROPERTIES NothingWaitsForEver SearchesEnd SleepsEnd WokenAtTheirTime  FarthestDropped
