SPECIFICATION Spec
CONSTANTS
  c1 = c1
  c2 = c2
  c3 = c3
  k1 = k1
  k2 = k2
  h1 = h1
  NoCall = NoCall
  Calls = {c1, c2, c3}
  Keys = {k1, k2}
  Hosts = {h1}
  Deliberate = {}
  FailureThreshold = 2
  MaxRetries = 1
  CacheMax = 1
  HostOf <- OneHost
INVARIANT ProbeIsInFlight
CHECK_DEADLOCK FALSE
