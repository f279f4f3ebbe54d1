\* The process dies inside createSegment, and the log cannot be opened again.
SPECIFICATION Spec
CONSTANTS
  Sizes = {1, 2}
  IndexInterval = 2
  MaxSegmentCells = 3
  MaxAppends = 3
  MaxCrashes = 1
  Faults = {"kill", "create"}
INVARIANT Reopens
