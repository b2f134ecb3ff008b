CONSTANTS
  Settle = 1
  Period = 3
  NumEvents = 3
  MaxOther = 2
  Wrap = 5
SPECIFICATION FairSpec
INVARIANTS
  TypeOK
  
  PacketsPerPeriod
  CountedOnce
  
PROPERTIES
  PacketLags
  KeepsSending
