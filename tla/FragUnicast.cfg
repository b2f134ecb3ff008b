SPECIFICATION FairSpec
CONSTANTS
  a = a  b = b  r = r  a1 = a1  a2 = a2  b1 = b1  r1 = r1
  Nodes <- TwoChildren
  Links <- TwoLinks
  Messages <- AllMessages
  Source <- AllSources
  Frags <- AllFrags
  MaxFragments = 3
  IdMod = 2
  NoNode = NoNode
  NoMessage = NoMessage
  Reliable = FALSE
  QueueBound = 3
INVARIANTS
  TypeOK
  SessionIntegrity
  DeliveryIntegrity
  TimerGuardsSession
PROPERTIES
  SessionEnds
