\* No fault at all, and a request whose meter name the database refuses.
SPECIFICATION FairSpec
CONSTANTS
  Keys = {"key"}
  Contents = {"c1", "nul"}
  NoFingerprint = "none"
  LegacyKeys = {}
  Unstorable = {"nul"}
  Requests <- SentTwice
  BatchSize = 2
  MaxRecords = 3
  Faults = {}
PROPERTY CatchesUp
