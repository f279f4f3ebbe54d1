\* A power failure after a recovery brings index entries back.
SPECIFICATION Spec
CONSTANTS
  Sizes = {1, 2}
  IndexInterval = 2
  MaxSegmentCells = 9
  MaxAppends = 5
  MaxCrashes = 2
  Faults = {"power", "unsettled"}
INVARIANT AckedReadable
