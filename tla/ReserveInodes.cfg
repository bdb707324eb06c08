CONSTANTS
  dirA = dirA
  dirB = dirB
  a1 = a1
  a2 = a2
  b1 = b1
  s1 = s1
  s2 = s2
  adm = adm
  adm2 = adm2
  Dir = {dirA, dirB}
  Inode = {a1, a2, b1}
  Parent <- Places
  NoDir = NoDir
  NoInode = NoInode
  Syscall = {s1, s2}
  Admin = {adm, adm2}
  Reclaimer = Reclaimer
  Canceller = Canceller
  Confs <- Pass
  FreeBound = 3
  Word = 1000
SPECIFICATION Spec
CHECK_DEADLOCK FALSE
INVARIANTS
  
  LruLive
  

  
