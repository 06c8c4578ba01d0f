SPECIFICATION Spec
CONSTANTS
  o1 = o1
  s1 = s1
  Objects = {o1}
  Sources = {s1}
  Polled = {o1}
  Streamed = {}
  Overlaid = {o1}
  Listening = {}
  Remote = {o1}
  CachesOffline = {}
  BoundsQuery = {o1}
  Keyed = {o1}
  Inputs = {"unregister", "stop", "dispose", "disable", "network", "viewport", "scale", "settings", "credential", "pollNow", "budget", "startFails", "hostNotAllowed"}
  MaxRun = 4
  MaxSubs = 0
  SourceOf <- OneSource
INVARIANT TypeOK
INVARIANT RunningIsWanted
INVARIANT StartsDoNotInterleave
INVARIANT StartingIsCurrent
INVARIANT OfflineIsQuiet
PROPERTY ForgottenOnlyByACut
CHECK_DEADLOCK FALSE
