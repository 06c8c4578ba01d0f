SPECIFICATION Spec
CONSTANTS
  o1 = o1
  s1 = s1
  Objects = {o1}
  Sources = {s1}
  Polled = {}
  Streamed = {o1}
  Overlaid = {}
  Listening = {}
  Remote = {o1}
  CachesOffline = {}
  BoundsQuery = {}
  Keyed = {}
  Inputs = {"network"}
  MaxRun = 3
  MaxSubs = 2
  SourceOf <- OneSource
INVARIANT StreamIsServed
CHECK_DEADLOCK FALSE
