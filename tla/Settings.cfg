SPECIFICATION Spec
CONSTANTS
  source = source
  automatic = automatic
  display = display
  Setting = {source, automatic, display}
  Source = {source}
  Default <- MCDefault
  Newest = 3
  Since <- MCSince
  Turns <- MCTurns
  Missing = Missing
  Nothing = Nothing
  Broken = Broken
  MaxChoices = 3
  Inputs = {"refusals"}
INVARIANT TypeOK
INVARIANT AcknowledgedStays
INVARIANT MigratedOnce
INVARIANT Settled
INVARIANT SwitchIsRemembered
