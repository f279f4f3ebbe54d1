SPECIFICATION FairSpec
CONSTANTS
  Writers = {w1, w2}
  Policy = "Group"
  SyncEveryNRecords = 1
  MaxSegmentRecords = 2
  MaxRecords = 3
  Faults = {"io", "sync", "drop", "kill", "power", "close"}
PROPERTY AppendReturns
