---------------------------- MODULE MCWbcReserve ----------------------------
(* Values for the constants of WbcReserve: two directories with two children and one. *)
EXTENDS WbcReserve

CONSTANTS dirA, dirB, a1, a2, b1, s1, s2, adm, adm2

Places == [i \in Inode |-> IF i = b1 THEN dirB ELSE dirA]

\* Two inodes may be cached; reclaim starts above one.
Base == [mode |-> "keep", limit |-> 2, ratio |-> 50, limits |-> {}, users |-> Syscall,
         ops |-> {"create", "unlink", "cancel"}, faults |-> {}]
Drop == [Base EXCEPT !.mode = "drop"]

\* Both modes, changes of the limit, a second administrator, ioctl(2), and failures.
Pass ==
  {Base,
   [Drop EXCEPT !.users = {s1, s2, adm}, !.ops = {"create", "unlink", "disable"}],
   [Drop EXCEPT !.users = {s1, adm, adm2}, !.ops = {"create", "conf", "disable"},
                !.limits = {3}],
   [Base EXCEPT !.users = {s1, adm}, !.ops = {"create", "siblings", "conf", "disable"},
                !.limits = {1, 3}, !.ratio = 0],
   [Base EXCEPT !.users = {s1}, !.ops = {"create", "unlink", "unreserve"}],
   [Base EXCEPT !.users = {s1}, !.ops = {"create", "cancel"}, !.faults = FaultKinds],
   [Base EXCEPT !.users = {s1, adm}, !.ops = {"create", "enable", "disable"}]}

OpenUnlinked == {[Base EXCEPT !.users = {s1, adm}, !.ops = {"create", "unlink", "disable"}]}
=============================================================================
