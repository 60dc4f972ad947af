SPECIFICATION MCSpec
CONSTANTS
  Servers = {s1, s2}
  AnyServer = AnyServer
  Calls = {k1, k2}
  Bodies = {b1}
  Skews <- MCSkews
  ClockDrift = 1
  SaltMemory = 1
  KnownPow = 1
  UnknownPow = 2
  Works = {2, 3}
  EnvelopeTime = 2
  JsonValues = {1, 2}
  Blobs <- MCBlobs
  Entries <- MCEntries
  CountLimit = 3
  MaxList = 2
  MinLz4 = 2
  SmallSegment = 3
  MaxRequest = 12
  MaxResponse = 14
  Holders = {"s1", "s2"}
  Inputs = {"i1", "i2"}
  Worth <- MCWorth
  KeyPowMin = 2
  Addresses = {"a1", "a2"}
  Versions = {"v1"}
  Bases = {"b1", "b2"}
  PostIds = {"x1"}
  MaxSigned = 3
  Tags = {"News", "tlc"}
  Fallback <- MCFallback
  Lowered <- MCLowered
  TagAuthors = {"a1", "a2"}
  Limits = {0, 1, 3}
  TrendingTtl = 2
  StatsTtl = 2
  PublicIps = {"p1"}
  ProtectedIps = {"q1"}
  ServiceTime = 2
  MaxAsked = 2
  Writers = {"w1", "w2"}
  Themes = {"t1"}
  Texts <- MCTexts
  Hosts = {"h1"}
  Salts = {0, 2, 5}
  MaxRecipients = 2
  CountWidth = 4
  AttemptsWidth = 4
  PowNumeraire = 2
  MaxWritten = 2
  Accounts = {"k1"}
  Guest = "g"
  Phrases = {"p1"}
  SHandles = {1, 2}
  CallSlots = {1, 2}
  HexArgs = {"k1", "k2"}
  BadArgs = {"zz"}
  TagArgs = {"#News"}
  TagId <- MCTagId
  MaxSteps = 3
  Unset = Unset
  StoreKeys = {1, 2}
  StoreValues = {1}
  Buckets = {"config", "peer"}
  BucketTrims <- MCBucketTrims
  MaxTouch = 2
  Processes = {p1, p2, p3}
  MaxEnvironments = 2
  BundleIds <- MCBundleIds
  BundleTexts = {1}
  FeedbackKeys = {f1}
  FeedbackValues <- MCFeedbackValues
  MaxCalls = 2
  MaxCrashes = 1
INVARIANTS CallsAnsweredOnce PacketsFaithful CredentialsGenuine ServicesConsistent ReadIsWritten TimelinesOwn StoresConsistent
PROPERTIES ImplementsClientStorage
