SPECIFICATION Spec
CONSTANTS
  p1 = p1
  v1 = v1
  k1 = k1
  Pack = {p1}
  Vault = {v1}
  Local = Local
  Key = {k1}
  Unsigned = Unsigned
  Nothing = Nothing
  Broken = Broken
  None = None
  MaxMade = 2
  MaxAsks = 2
  MaxUpsets = 1
  MaxQueue = 1
  FirstVaults <- MCFirstVaults
  Awkward = {"listing"}
PROPERTY ForgottenOnlyWhenGone
CHECK_DEADLOCK FALSE
