CONSTANTS
  Alphabet <- SomeBytes
  MaxLength = 5
  Repository <- Readings
  Undefined = Undefined
SPECIFICATION Spec
CHECK_DEADLOCK FALSE
INVARIANTS
  TypeOK
  JudgedByMeaning
  MalformedIsFalse
