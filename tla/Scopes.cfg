SPECIFICATION FairSpec
CONSTANTS
  w = w  x = x  y = y  z = z
  Ids <- ThreeIds
  World = w
  Opens <- XZ
  Announced <- XY
  Apps = {d}
  Roots = {q}
  NoRoot = NoRoot
  MaxScopes = 3
  MaxSubscribers = 1
  MaxRoutes = 1
  MaxEntries = 2
  UseMax = 2
  CounterMax = 2
INVARIANTS
  TypeOK
  Forest
  TtlTimersMatch
  JoinedIsMember
PROPERTIES
  OwnTreeRemains
  ForgottenUnlessHeard
  AnnouncedAgain
