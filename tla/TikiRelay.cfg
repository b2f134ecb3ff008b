CONSTANTS
  n = n
  a = a
  s1 = s1
  q1 = q1
  q2 = q2
  Ids <- OneId
  Scopes <- OneScope
  World = World
  Froms <- FromsDef
  Self = n
  Others <- OneOther
  TableIds <- TwoTables
  MaxRows = 2
  Lifetimes <- FewPeriods
  MaxEpoch = 2
SPECIFICATION Spec
CHECK_DEADLOCK FALSE
PROPERTIES
  ForwarderSends
