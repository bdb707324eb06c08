CONSTANTS
  a = a
  b = b
  Client = {a, b}
  OwnerOf <- Owners
  ObjectOf <- Objects
  MaxMod = 2
  MaxConn = 3
  Budgets <- OneRequest
  SlowReply = FALSE
SPECIFICATION Spec
PROPERTIES
  RecoveryEnds
  Answered
