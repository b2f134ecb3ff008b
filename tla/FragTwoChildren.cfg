SPECIFICATION Spec
CONSTANTS
  a = a  b = b  r = r  a1 = a1  a2 = a2  b1 = b1  r1 = r1
  Nodes <- TwoChildren
  Links <- TwoLinks
  Messages <- ChildMessages
  Source <- ChildSources
  Frags <- ChildFrags
  MaxFragments = 2
  IdMod = 3
  NoNode = NoNode
  NoMessage = NoMessage
  Reliable = TRUE
  QueueBound = 2
INVARIANTS
  DeliveredWhole
