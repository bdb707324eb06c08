CONSTANTS
  c1 = c1
  c2 = c2
  c3 = c3
  m1 = m1
  m2 = m2
  Children = {c1, c2, c3}
  Tgts = {m1, m2}
  TgtOf <- TwoTgts
  Policies = {"PTLRPCD", "BATCH", "RQSET"}
  MaxQlen = 1
  MaxBatch = 2
  Faults = {"md", "init", "prep", "submit", "head", "pack", "send", "rpc", "reopen"}
SPECIFICATION Spec
CHECK_DEADLOCK FALSE
INVARIANTS
  AnchorCount
  Barrier
  ErrorReported
PROPERTIES
  SignalMeansEnd
  Returns
  KeepsPromise
