SPECIFICATION FairSpec
CONSTANTS
  o1 = o1
  s1 = s1
  Objects = {o1}
  Sources = {s1}
  Polled = {}
  Streamed = {o1}
  Overlaid = {}
  Listening = {o1}
  Remote = {}
  CachesOffline = {}
  BoundsQuery = {}
  Keyed = {o1}
  Inputs = {"unregister", "stop", "dispose", "disable", "startFails", "subscribeFails"}
  MaxRun = 3
  MaxSubs = 3
  SourceOf <- OneSource
INVARIANT TakenOutIsClosed
INVARIANT ListenerIsOwned
INVARIANT StreamIsServed
PROPERTY WantedSourceRuns
PROPERTY UnwantedSourceRests
CHECK_DEADLOCK FALSE
