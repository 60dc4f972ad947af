SPECIFICATION SessionsSpec
CONSTANTS
  Accounts = {"k1"}
  Guest = "g"
  Phrases = {"p1"}
  SHandles = {1, 2}
  CallSlots = {1, 2}
  HexArgs = {"k1", "k2"}
  BadArgs = {"zz"}
  TagArgs = {"#News"}
  TagId <- MCTagId
  MaxSteps = 4
  Unset = Unset
INVARIANTS FollowedContinues
