SPECIFICATION Spec
CONSTANTS
  Writers = {w1, w2, w3}
  Policy = "Group"
  SyncEveryNRecords = 1
  MaxSegmentRecords = 2
  MaxRecords = 5
  Faults = {"io", "sync", "kill", "power"}
SYMMETRY WriterSymmetry
INVARIANT TypeOK
INVARIANT AckedDurable
INVARIANT SyncedOnDisk
INVARIANT NoGaps
INVARIANT OneSyncer
PROPERTY KeepsPromise
