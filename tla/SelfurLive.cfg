\* Nothing is lost: b reaches the root through a, and the tree is built three times.
SPECIFICATION FairSpec
CONSTANTS
  sink = sink
  a = a
  b = b
  s1 = s1
  s2 = s2
  Nodes = {sink, a, b}
  Links <- LineLinks
  Roots = {sink}
  ScopeIds = {s1}
  RootOf <- OneScope
  NoNode = NoNode
  SeqMod = 4
  HopsMax = 16
  MaxRoutes = 1
  MaxEntries = 1
  Reliable = TRUE
  MaxUpdates = 3
PROPERTY MemberServed
CHECK_DEADLOCK FALSE
