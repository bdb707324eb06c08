CONSTANTS
  a = a
  b = b
  Client = {a, b}
  OwnerOf <- Owners
  ObjectOf <- Objects
  MaxMod = 2
  MaxConn = 3
  Budgets <- OneRestart
  SlowReply = FALSE
SPECIFICATION Spec
INVARIANTS
  TypeOK
  ExactlyOnce
  
  
  NoPanic
  TransnoOrder
  NoProtoError
