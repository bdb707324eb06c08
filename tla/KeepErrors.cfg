CONSTANTS
  top = top
  dir = dir
  file = file
  file2 = file2
  p1 = p1
  p2 = p2
  Node = {top, dir, file, file2}
  NoNode = NoNode
  Parent <- Tree
  Fsyncers = {p1, p2}
  Confs <- FaultyConfs
  RmOrder = "any"
  Faults = {"create", "submit", "rmfid"}
SPECIFICATION Spec
CHECK_DEADLOCK FALSE
INVARIANTS
  OneWriter
  
