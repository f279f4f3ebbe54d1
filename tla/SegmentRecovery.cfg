\* A segment and its index through failed writes, kills and power failures.
SPECIFICATION Spec
CONSTANTS
  Sizes = {1, 2}
  IndexInterval = 2
  MaxSegmentCells = 5
  MaxAppends = 4
  MaxCrashes = 3
  Faults = {"io", "kill", "power", "create"}
INVARIANT TypeOK
INVARIANT ReadsAgree
INVARIANT AckedReadable
PROPERTY KeepsPromise
