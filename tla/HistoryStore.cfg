SPECIFICATION Spec
CONSTANTS
  a1 = a1
  a2 = a2
  b1 = b1
  a = a
  b = b
  tracks = tracks
  records = records
  Rows = {a1, a2, b1}
  Objects = {a, b}
  ObjectOf <- MCObjectOf
  Partitions = {tracks, records}
  PartitionOf <- MCPartitionOf
  Tiered = {tracks}
  Kept = {records}
  None = None
  Inputs = {"appendFails", "stepFails", "cap", "crash", "close"}
  MaxQueued = 1
INVARIANT TypeOK
INVARIANT NothingLandsBetween
INVARIANT IndexListsWhatIsThere
PROPERTY StoredRowsStay
CHECK_DEADLOCK FALSE
