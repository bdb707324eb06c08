CONSTANTS
  a = a
  b = b
  Client = {a, b}
  OwnerOf <- Owners
  ObjectOf <- Objects
  MaxMod = 2
  MaxConn = 4
  Budgets <- TwoRestarts
  SlowReply = FALSE
SPECIFICATION Spec
INVARIANT AckedNotLost
