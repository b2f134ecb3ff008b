\* Nothing is lost, but b may be a member of two scopes.
SPECIFICATION FairSpec
CONSTANTS
  sink = sink
  a = a
  b = b
  s1 = s1
  s2 = s2
  Nodes = {sink, a, b}
  Links <- LineLinks
  Roots = {sink}
  ScopeIds = {s1, s2}
  RootOf <- TwoScopes
  NoNode = NoNode
  SeqMod = 4
  HopsMax = 16
  MaxRoutes = 1
  MaxEntries = 2
  Reliable = TRUE
  MaxUpdates = 1
PROPERTY MemberServed
CHECK_DEADLOCK FALSE
