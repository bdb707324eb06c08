CONSTANTS
  c1 = c1
  c2 = c2
  c3 = c3
  m1 = m1
  m2 = m2
  Children = {c1, c2, c3}
  Tgts = {m1, m2}
  TgtOf <- TwoTgts
  Policies = {"BATCH"}
  MaxQlen = 0
  MaxBatch = 0
  Faults = {"pack"}
SPECIFICATION Spec
CHECK_DEADLOCK FALSE
INVARIANTS
  NoHang
