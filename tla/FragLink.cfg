SPECIFICATION FairLinkSpec
CONSTANTS
  a = a  r = r  m1 = m1  m2 = m2
  Nodes <- OneChild
  Links <- OneLink
  Link <- TheLink
  Messages <- LinkMessages
  Source <- LinkSources
  Frags <- LinkFrags
  MaxFragments = 3
  IdMod = 5
  NoNode = NoNode
  NoMessage = NoMessage
  Reliable = TRUE
  QueueBound = 7
PROPERTIES
  ImplementsDatagram
