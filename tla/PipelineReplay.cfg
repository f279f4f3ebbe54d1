\* Requests and the consumer through every fault but the loss of records it has read.
SPECIFICATION FairSpec
CONSTANTS
  Keys = {"key", "legacy"}
  Contents = {"c1", "c2", "nul"}
  NoFingerprint = "none"
  LegacyKeys = {"legacy"}
  Unstorable = {"nul"}
  Requests <- Sent
  BatchSize = 2
  MaxRecords = 3
  Faults = {"io", "db", "kill", "power", "rewind", "foreign"}
INVARIANT TypeOK
INVARIANT DatabaseIsReplay
INVARIANT NothingSilentlyLost
PROPERTY KeepsPromise
PROPERTY CatchesUpOrBlocked
