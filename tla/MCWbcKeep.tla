------------------------------ MODULE MCWbcKeep ------------------------------
(* Values for the constants of WbcKeep: a root with one directory and two files. *)
EXTENDS WbcKeep

CONSTANTS top, dir, file, file2, p1, p2

Tree == [i \in Node |-> CASE i = top -> NoNode [] i = dir -> top [] OTHER -> dir]

Chain == {top, dir, file}

\* Both flushers, one node of each depth.
Base == [mode |-> "AGING_KEEP", pol |-> "PTLRPCD", rmpol |-> "DELAY",
         threads |-> {"kf", "pf"}, kfmodes |-> {"none"},
         nodes |-> Chain, removable |-> {file}, setattrs |-> 1]

\* What the code supports: the parallel flusher next to the kernel flusher, batches
\* when no inode is dirtied twice, fsync(2) by two threads without a flusher, passes
\* of one sync mode, removal bottom up with either policy.
Supported ==
  {Base,
   [Base EXCEPT !.pol = "BATCH", !.nodes = Node, !.removable = {}, !.setattrs = 0],
   [Base EXCEPT !.mode = "LAZY_KEEP", !.threads = Fsyncers, !.nodes = Node, !.removable = {}],
   [Base EXCEPT !.kfmodes = {"all"}, !.threads = {"kf"}, !.nodes = Node],
   [Base EXCEPT !.threads = {"kf"}, !.removable = {dir, file}],
   [Base EXCEPT !.rmpol = "SYNC", !.threads = {"kf"}, !.removable = {dir, file}]}

FaultyConfs ==
  {Base, [Base EXCEPT !.rmpol = "SYNC", !.threads = {"kf"}, !.removable = {dir, file}]}

Quiet == [Base EXCEPT !.removable = {}, !.setattrs = 0]
FsyncNextToFlusher == {[Quiet EXCEPT !.nodes = {top, dir}, !.threads = {"kf", p1}]}
LazyFsync == {[Quiet EXCEPT !.mode = "LAZY_KEEP", !.threads = {"kf", p1}]}
=============================================================================
