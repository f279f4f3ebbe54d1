\* A power failure takes records the consumer has read.
SPECIFICATION Spec
CONSTANTS
  Keys = {k1, k2}
  Contents = {c1, c2}
  NoFingerprint = null
  LegacyKeys = {}
  Unstorable = {}
  Requests <- SentTwice
  BatchSize = 2
  MaxRecords = 2
  Faults = {"power", "tail"}
INVARIANT NothingSilentlyLost
