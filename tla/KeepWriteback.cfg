CONSTANTS
  top = top
  dir = dir
  file = file
  file2 = file2
  p1 = p1
  p2 = p2
  Node = {top, dir, file, file2}
  NoNode = NoNode
  Parent <- Tree
  Fsyncers = {p1, p2}
  Confs <- Supported
  RmOrder = "empty"
  Faults = {}
SPECIFICATION Spec
CHECK_DEADLOCK FALSE
INVARIANTS
  ParentFirst
  SyncAncestors
  
  OneWriter
  WritebackMeansBusy
  NoResurrection
  NoPanic
PROPERTIES
  Durable
  CallsReturn
