SPECIFICATION FairSpec
CONSTANTS
  Ids = {i1}
  Providers = {p1, p2}
  NoProvider = NoProvider
  Times <- MCTimes
  Placing = {p2}
  MaxSourceRefs = 2
INVARIANT TypeOK
INVARIANT IndexesAgree
INVARIANT GiversAreNamed
INVARIANT NewsIsExact
PROPERTY NewestWins
PROPERTY ListenersSeeTheWorld
