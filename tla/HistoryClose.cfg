SPECIFICATION Spec
CONSTANTS
  a1 = a1
  a2 = a2
  b1 = b1
  a = a
  b = b
  tracks = tracks
  records = records
  Rows = {a1, a2, b1}
  Objects = {a, b}
  ObjectOf <- MCObjectOf
  Partitions = {tracks, records}
  PartitionOf <- MCPartitionOf
  Tiered = {tracks}
  Kept = {records}
  None = None
  Inputs = {"closeInSweep"}
  MaxQueued = 1
PROPERTY StoredRowsStay
CHECK_DEADLOCK FALSE
