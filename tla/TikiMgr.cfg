CONSTANTS
  n = n
  a = a
  s1 = s1
  q1 = q1
  q2 = q2
  Ids <- TwoIds
  Scopes <- OneScope
  World = World
  Froms <- FromsDef
  Self = n
  Others <- OneOther
  TableIds <- TwoTables
  MaxRows = 2
  Lifetimes <- FewPeriods
  MaxEpoch = 2
SPECIFICATION FairSpec
CHECK_DEADLOCK FALSE
INVARIANTS
  TypeOK
  TimersLive
  TablesAccounted
  DummyHasTable
  CollectsRecent
  SafeWhenSteady
  ReportsWhenSteady
PROPERTIES
  StatementEnds
