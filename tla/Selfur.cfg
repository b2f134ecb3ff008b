\* One root and two nodes, all in range of each other, with every loss there is.
SPECIFICATION Spec
CONSTANTS
  sink = sink
  a = a
  b = b
  s1 = s1
  s2 = s2
  Nodes = {sink, a, b}
  Links <- RingLinks
  Roots = {sink}
  ScopeIds = {s1}
  RootOf <- OneScope
  NoNode = NoNode
  SeqMod = 4
  HopsMax = 16
  MaxRoutes = 1
  MaxEntries = 1
  Reliable = FALSE
  MaxUpdates = 3
INVARIANTS
  TypeOK
  LoopFree
  SuppressionJustified
  UpstreamActivated
CHECK_DEADLOCK FALSE
