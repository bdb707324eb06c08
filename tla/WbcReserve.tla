------------------------------ MODULE WbcReserve ------------------------------
(***************************************************************************)
(* The limit on the number of inodes MemFS may hold (max_inodes).  Every   *)
(* creation in a Complete directory takes a reservation from               *)
(* wbcc_free_inodes; the inode carries it (WBC_STATE_FL_INODE_RESERVED)    *)
(* until it is flushed under its own lock, unlinked, unreserved or         *)
(* evicted.  At the limit the creating thread decompletes its directory    *)
(* and goes to the MDT; a reclaimer thread decompletes the directories of  *)
(* the least recently used inodes; the MDT may call the lock of a          *)
(* directory back, and the administrator may change the limit or switch    *)
(* the cache off.                                                          *)
(*                                                                         *)
(* The directories are WBC roots with one level of children.  A flushed    *)
(* child that holds no reservation does not matter here and its place in   *)
(* Inode is free again.  The order of the LRU list is left out.            *)
(***************************************************************************)
EXTENDS Integers, FiniteSets

CONSTANTS
  Dir, Inode,   \* directories, and places for their cached children
  Parent,       \* the directory of each child
  NoDir, NoInode,
  Syscall,      \* threads that create, unlink and call ioctl(2)
  Admin,        \* threads that write to the wbc parameter file
  Reclaimer,    \* ll_wbc_reclaim_main
  Canceller,    \* the ldlm thread that runs blocking callbacks
  Confs,        \* the configurations to consider
  FreeBound,    \* bound: no error path returns reservations beyond this count
  Word          \* the modulus of unsigned long

Thread == Syscall \cup Admin \cup {Reclaimer, Canceller}

\* What happens in a configuration.  "disables": two threads may be disabling the
\* cache at once.
Ops == {"create", "unlink", "unreserve", "siblings", "cancel", "conf", "enable",
        "disable", "disables"}

\* alloc: wbc_new_node() runs out of memory; submit: an update cannot be sent;
\* reply: the MDT refuses one.
FaultKinds == {"alloc", "submit", "reply"}

\* mode: does a flush keep the root lock; limit, ratio: the initial max_inodes and
\* hiwm_ratio (0: no reclaim); limits: what the administrator sets later; users: the
\* threads that make calls.
Conf == [mode : {"keep", "drop"}, limit : Nat, ratio : 0 .. 100,
         limits : SUBSET Nat, users : SUBSET (Syscall \cup Admin),
         ops : SUBSET Ops, faults : SUBSET FaultKinds]

ASSUME FiniteAssumption == IsFiniteSet(Inode) /\ IsFiniteSet(Thread)
ASSUME ParentAssumption == Parent \in [Inode -> Dir] /\ NoDir \notin Dir /\ NoInode \notin Inode
ASSUME ThreadAssumption ==
  /\ Reclaimer \notin Syscall \cup Admin \cup {Canceller}
  /\ Canceller \notin Syscall \cup Admin
  /\ Syscall \cap Admin = {}
ASSUME ConfAssumption == Confs \subseteq Conf
ASSUME BoundAssumption == FreeBound \in Nat /\ Word \in Nat

VARIABLES
  conf,    \* the configuration; no step changes it
  max,     \* wbcc_max_inodes; 0: no limit and no accounting
  free,    \* wbcc_free_inodes
  hiwm,    \* wbcc_hiwm_inodes_count, NoRatio when wbcc_hiwm_ratio is 0
  cache,   \* wbcc_cache_mode: "on" or "off"
  dst,     \* state of a directory: "none", "complete" or "incomplete" (Protected only)
  ino,     \* "none", "reserved", or "unlinked" and still reserved
  lru,     \* wbcs_rsvd_inode_lru
  pc, dir, node, job, rc,  \* where each thread is, what it works on, what it returns
  todo,    \* children a thread has still to flush
  panic    \* the first failed assertion

counters == <<max, free, hiwm, cache>>
threads == <<pc, dir, node, job, rc, todo>>
vars == <<conf, counters, dst, ino, lru, threads, panic>>

Pc == {"idle", "sleep", "new", "unlink", "want", "flush", "check", "unrsv", "loop",
       "shrink", "assert"}

NoRatio == -1

TypeOK ==
  /\ conf \in Confs
  /\ max \in Nat /\ free \in Nat /\ hiwm \in Nat \cup {NoRatio}
  /\ cache \in {"on", "off"}
  /\ dst \in [Dir -> {"none", "complete", "incomplete"}]
  /\ ino \in [Inode -> {"none", "reserved", "unlinked"}]
  /\ lru \subseteq Inode
  /\ pc \in [Thread -> Pc]
  /\ dir \in [Thread -> Dir \cup {NoDir}]
  /\ node \in [Thread -> Inode \cup {NoInode}]
  /\ job \in [Thread -> {"decomp0", "decomp1", "callback"}]
  /\ rc \in [Thread -> {"ok", "err"}]
  /\ todo \in [Thread -> SUBSET Inode]
  /\ panic \in {"none", "list", "limit"}

\* The watermark of a limit: wbcc_hiwm_inodes_count.
HiwmOf(n) == IF conf.ratio = 0 THEN NoRatio ELSE (n * conf.ratio) \div 100

\* "conf max_inodes=... hiwm_ratio=..." on a fresh mount.
Init ==
  /\ conf \in Confs
  /\ max = conf.limit /\ free = conf.limit /\ hiwm = HiwmOf(conf.limit) /\ cache = "on"
  /\ dst = [d \in Dir |-> "none"]
  /\ ino = [i \in Inode |-> "none"] /\ lru = {}
  /\ pc = [t \in Thread |-> IF t = Reclaimer THEN "sleep" ELSE "idle"]
  /\ dir = [t \in Thread |-> NoDir] /\ node = [t \in Thread |-> NoInode]
  /\ job = [t \in Thread |-> "decomp0"] /\ rc = [t \in Thread |-> "ok"]
  /\ todo = [t \in Thread |-> {}]
  /\ panic = "none"

May(op) == op \in conf.ops
Faulty(f) == f \in conf.faults

\* Thread t goes on at p with the directory d and the child i.
Go(t, p, d, i) ==
  /\ pc' = [pc EXCEPT ![t] = p]
  /\ dir' = [dir EXCEPT ![t] = d]
  /\ node' = [node EXCEPT ![t] = i]

At(t, p) == panic = "none" /\ pc[t] = p

---------------------------------------------------------------------------
(* wbci_rw_sem of a directory.  Operations in MemFS hold it shared, flushes hold it
   exclusively; a reader queues behind a waiting writer. *)

Readers(d) == {t \in Thread : pc[t] \in {"new", "unlink"} /\ dir[t] = d}
Writers(d) == {t \in Thread : pc[t] = "flush" /\ dir[t] = d}
Waiting(d) == {t \in Thread : pc[t] = "want" /\ dir[t] = d}

CanRead(d) == Writers(d) = {} /\ Waiting(d) = {}
CanWrite(d) == Writers(d) = {} /\ Readers(d) = {}

---------------------------------------------------------------------------
(* The accounting. *)

\* max - free in unsigned arithmetic.
Used == IF free <= max THEN max - free ELSE Word + max - free

\* wbc_cache_too_much_inodes()
TooMuch == hiwm # NoRatio /\ Used > hiwm

\* Mutant: only an inode still on the LRU list gives its reservation back.
UnreserveListed(i) ==
  /\ ino' = [ino EXCEPT ![i] = "none"]
  /\ lru' = lru \ {i}
  /\ free' = IF i \in lru THEN free + 1 ELSE free

\* Mutant: the inode stays on the LRU list.
UnreserveKeepsLru(i) ==
  /\ ino' = [ino EXCEPT ![i] = "none"]
  /\ free' = IF max = 0 THEN free ELSE free + 1
  /\ lru' = lru

\* wbc_unreserve_inode()
Unreserve(i) ==
  /\ ino' = [ino EXCEPT ![i] = "none"]
  /\ IF max = 0
       THEN UNCHANGED <<lru, free>>
       ELSE lru' = lru \ {i} /\ free' = free + 1

\* wbc_inode_unreserve_dput()
UnreserveDput(i) ==
  IF ino[i] = "none" THEN UNCHANGED <<ino, lru, free>> ELSE Unreserve(i)

---------------------------------------------------------------------------
(* memfs_mkdir(), memfs_mknod(), ...: wbc_cache_enter() and wbc_new_node(). *)

\* wbc_reserve_inode(), and the reclaimer is woken above the high watermark.
Reserve(t, d) ==
  /\ UNCHANGED <<max, hiwm, node, job>>
  /\ free' = IF max = 0 THEN free ELSE free - 1
  /\ pc' = [pc EXCEPT ![t] = "new",
                      ![Reclaimer] = IF @ = "sleep" /\ max # 0 /\ TooMuch' THEN "idle" ELSE @]
  /\ dir' = [dir EXCEPT ![t] = d]

\* With no reservation left the directory is decompleted; the creation goes to the
\* MDT afterwards.
EnterFull(t, d) ==
  /\ Go(t, "want", d, NoInode)
  /\ job' = [job EXCEPT ![t] = "decomp0"]
  /\ UNCHANGED <<max, hiwm, free>>

Referenced(i) == \E t \in Thread : node[t] = i

\* Bound: there is a place in Inode for every creation that is under way.
Room(d) ==
  Cardinality({t \in Thread : pc[t] = "new" /\ dir[t] = d})
    < Cardinality({i \in Inode : Parent[i] = d /\ ino[i] = "none" /\ ~Referenced(i)})

CacheEnter(t, d) ==
  /\ At(t, "idle") /\ May("create") /\ CanRead(d)
  /\ dst[d] = "complete"
  /\ IF max # 0 /\ free = 0 THEN EnterFull(t, d) ELSE Room(d) /\ Reserve(t, d)
  /\ UNCHANGED <<cache, dst, ino, lru, rc, todo, panic>>

NewNode(t, i) ==
  /\ At(t, "new") /\ Parent[i] = dir[t] /\ ino[i] = "none" /\ ~Referenced(i)
  /\ ino' = [ino EXCEPT ![i] = "reserved"]
  /\ lru' = IF max = 0 THEN lru ELSE lru \cup {i}
  /\ Go(t, "idle", NoDir, NoInode)
  /\ UNCHANGED <<counters, dst, job, rc, todo, panic>>

\* No inode: the reservation is forgotten.
NewNodeNoInode(t) ==
  /\ At(t, "new") /\ Faulty("alloc")
  /\ Go(t, "idle", NoDir, NoInode)
  /\ UNCHANGED <<counters, dst, ino, lru, job, rc, todo, panic>>

\* A later failure: wbc_reserved_inode_lru_del() and the eviction by iput() both
\* return the reservation.
NewNodeFails(t) ==
  /\ At(t, "new") /\ Faulty("alloc") /\ free + 2 <= FreeBound
  /\ free' = IF max = 0 THEN free ELSE free + 2
  /\ Go(t, "idle", NoDir, NoInode)
  /\ UNCHANGED <<max, hiwm, cache, dst, ino, lru, job, rc, todo, panic>>

---------------------------------------------------------------------------
(* memfs_unlink(), memfs_rmdir() and the eviction of an inode. *)

\* The VFS lets one thread at a time remove an entry.
UnlinkStart(t, i) ==
  /\ At(t, "idle") /\ May("unlink") /\ CanRead(Parent[i])
  /\ ino[i] = "reserved" /\ dst[Parent[i]] = "complete"
  /\ \A u \in Thread : pc[u] = "unlink" => node[u] # i
  /\ Go(t, "unlink", Parent[i], i)
  /\ UNCHANGED <<counters, dst, ino, lru, job, rc, todo, panic>>

\* memfs_remove_from_dcache()
UnlinkEnd(t) ==
  /\ At(t, "unlink")
  /\ Unreserve(node[t])
  /\ Go(t, "idle", NoDir, NoInode)
  /\ UNCHANGED <<max, hiwm, cache, dst, job, rc, todo, panic>>

\* Not Complete: removed at the MDT, then from the dcache by simple_unlink(); the
\* inode keeps its reservation until it is evicted.
UnlinkMdt(i) ==
  /\ panic = "none" /\ May("unlink") /\ CanRead(Parent[i])
  /\ ino[i] = "reserved" /\ dst[Parent[i]] = "incomplete"
  /\ ino' = [ino EXCEPT ![i] = "unlinked"]
  /\ UNCHANGED <<counters, dst, lru, threads, panic>>

\* ll_delete_inode() calls wbc_free_inode() when the last user is gone.
Evict(i) ==
  /\ panic = "none" /\ ino[i] = "unlinked" /\ ~Referenced(i)
  /\ Unreserve(i)
  /\ UNCHANGED <<max, hiwm, cache, dst, threads, panic>>

---------------------------------------------------------------------------
(* wbc_make_inode_decomplete() and wbc_make_inode_deroot(): a thread waits for the
   semaphore, flushes the children, and changes the state of the directory. *)

\* Where a thread goes on after its job has returned r.
After(t, r) ==
  CASE t = Reclaimer -> IF r = "ok" THEN "loop" ELSE "idle"
    [] t \in Admin -> IF r = "ok" THEN "shrink" ELSE "assert"
    [] t \in Syscall /\ node[t] # NoInode /\ r = "ok" -> "check"
    [] OTHER -> "idle"

Return(t, r) ==
  LET p == After(t, r) IN
  /\ Go(t, p, NoDir, IF p = "check" THEN node[t] ELSE NoInode)
  /\ job' = [job EXCEPT ![t] = "decomp0"]
  /\ rc' = [rc EXCEPT ![t] = "ok"]

\* Nothing to do: a callback finds the directory no longer Protected, a decomplete
\* finds it no longer Complete.
JobDone(t) ==
  IF job[t] = "callback" THEN dst[dir[t]] = "none" ELSE dst[dir[t]] # "complete"

LockDir(t) ==
  /\ At(t, "want") /\ CanWrite(dir[t])
  /\ IF JobDone(t)
       THEN Return(t, "ok") /\ UNCHANGED todo
       ELSE /\ pc' = [pc EXCEPT ![t] = "flush"]
            /\ todo' = [todo EXCEPT ![t] =
                          {i \in Inode : Parent[i] = dir[t] /\ ino[i] = "reserved"}]
            /\ UNCHANGED <<dir, node, job, rc>>
  /\ UNCHANGED <<counters, dst, ino, lru, panic>>

Decompletes(t) == conf.mode = "keep" /\ job[t] # "callback"

\* Mutant: only a decomplete gives reservations back, not a lock callback.
FlushUnreservesDecomp(t) == Decompletes(t) /\ job[t] = "decomp1"

\* A child that gets a lock of its own gives its reservation up; one created without
\* a lock gives it up when the caller asked for it (unrsv_children_decomp).
FlushUnreserves(t) == Decompletes(t) => job[t] = "decomp1"

\* The update of child i has been answered: wbc_create_exlock_cb() and its siblings,
\* wbc_create_lockless_cb(), or wbc_flush_opcode_get() for a flushed child.
FlushChild(t, i) ==
  /\ At(t, "flush") /\ i \in todo[t]
  /\ todo' = [todo EXCEPT ![t] = @ \ {i}]
  /\ IF FlushUnreserves(t) THEN UnreserveDput(i) ELSE UNCHANGED <<ino, lru, free>>
  /\ UNCHANGED <<max, hiwm, cache, dst, pc, dir, node, job, rc, panic>>

\* The MDT refuses: the callbacks of the lock requests unreserve nevertheless.
FlushChildRefused(t, i) ==
  /\ At(t, "flush") /\ i \in todo[t] /\ Faulty("reply")
  /\ todo' = [todo EXCEPT ![t] = @ \ {i}]
  /\ IF Decompletes(t) THEN UNCHANGED <<ino, lru, free>> ELSE UnreserveDput(i)
  /\ rc' = [rc EXCEPT ![t] = "err"]
  /\ UNCHANGED <<max, hiwm, cache, dst, pc, dir, node, job, panic>>

\* The update cannot be sent: the walk ends, and wbc_flush_dir() asserts that no
\* child is left on its list.
FlushChildFails(t, i) ==
  /\ At(t, "flush") /\ i \in todo[t] /\ Faulty("submit")
  /\ rc' = [rc EXCEPT ![t] = "err"]
  /\ panic' = IF todo[t] = {i} THEN panic ELSE "list"
  /\ todo' = [todo EXCEPT ![t] = {}]
  /\ UNCHANGED <<counters, dst, ino, lru, pc, dir, node, job>>

\* wbc_mark_inode_deroot(), or COMPLETE is cleared: whatever the flush returned.
FlushDone(t) ==
  /\ At(t, "flush") /\ todo[t] = {}
  /\ dst' = [dst EXCEPT ![dir[t]] = IF Decompletes(t) THEN "incomplete" ELSE "none"]
  /\ Return(t, rc[t])
  /\ UNCHANGED <<counters, ino, lru, todo, panic>>

---------------------------------------------------------------------------
(* LL_IOC_WBC_UNRESERVE on an open file. *)

\* wbc_ioctl_unreserve(): the parent is decompleted first.
Ioctl(t, i) ==
  /\ At(t, "idle") /\ ino[i] # "none" /\ free < FreeBound
  /\ \/ /\ May("unreserve")
        /\ job' = [job EXCEPT ![t] = "decomp0"]
        /\ Go(t, "want", Parent[i], i)
     \/ /\ May("siblings")
        /\ job' = [job EXCEPT ![t] = "decomp1"]
        /\ Go(t, "want", Parent[i], NoInode)
  /\ UNCHANGED <<counters, dst, ino, lru, rc, todo, panic>>

\* No lock protects the test and the update of wbc_inode_unreserve_dput() here.
IoctlCheck(t) ==
  /\ At(t, "check")
  /\ IF ino[node[t]] = "none"
       THEN Go(t, "idle", NoDir, NoInode)
       ELSE Go(t, "unrsv", NoDir, node[t])
  /\ UNCHANGED <<counters, dst, ino, lru, job, rc, todo, panic>>

IoctlUnreserve(t) ==
  /\ At(t, "unrsv")
  /\ Unreserve(node[t])
  /\ Go(t, "idle", NoDir, NoInode)
  /\ UNCHANGED <<max, hiwm, cache, dst, job, rc, todo, panic>>

---------------------------------------------------------------------------
(* ll_wbc_reclaim_main() and wbc_reclaim_inodes(). *)

\* Mutant: the goal is a quarter of the limit.
LowQuarter == max \div 4

Low == max \div 2

ReclaimTop ==
  /\ At(Reclaimer, "idle")
  /\ Go(Reclaimer, IF TooMuch THEN "loop" ELSE "sleep", NoDir, NoInode)
  /\ UNCHANGED <<counters, dst, ino, lru, job, rc, todo, panic>>

\* The inode leaves the list whatever becomes of it; one without a dentry is skipped.
ReclaimPick(i) ==
  /\ At(Reclaimer, "loop") /\ free < Low /\ i \in lru
  /\ lru' = lru \ {i}
  /\ \/ /\ Go(Reclaimer, "want", Parent[i], i)
        /\ job' = [job EXCEPT ![Reclaimer] = "decomp1"]
     \/ /\ ino[i] = "unlinked" /\ ~Referenced(i)
        /\ UNCHANGED <<pc, dir, node, job>>
  /\ UNCHANGED <<counters, dst, ino, rc, todo, panic>>

ReclaimEnd ==
  /\ At(Reclaimer, "loop") /\ (free >= Low \/ lru = {})
  /\ Go(Reclaimer, "idle", NoDir, NoInode)
  /\ UNCHANGED <<counters, dst, ino, lru, job, rc, todo, panic>>

---------------------------------------------------------------------------
(* Locks: the EX lock of a new directory, and a blocking callback. *)

\* wbc_intent_inode_init(): a directory that was just made is empty.
Grant(d) ==
  /\ panic = "none" /\ cache = "on" /\ dst[d] = "none"
  /\ \A t \in Thread : dir[t] # d
  /\ \A i \in Inode : Parent[i] = d => ino[i] = "none" /\ ~Referenced(i)
  /\ dst' = [dst EXCEPT ![d] = "complete"]
  /\ UNCHANGED <<counters, ino, lru, threads, panic>>

\* wbc_inode_lock_callback()
LockCallback(d) ==
  /\ At(Canceller, "idle") /\ May("cancel") /\ dst[d] # "none"
  /\ Go(Canceller, "want", d, NoInode)
  /\ job' = [job EXCEPT ![Canceller] = "callback"]
  /\ UNCHANGED <<counters, dst, ino, lru, rc, todo, panic>>

---------------------------------------------------------------------------
(* wbc_cmd_handle(). *)

\* wbc_super_conf_update(): the watermark follows only when the ratio is given too.
ConfUpdate(t, n) ==
  /\ At(t, "idle") /\ May("conf") /\ Used <= n
  /\ max' = n /\ free' = free + n - max
  /\ hiwm' \in {hiwm, HiwmOf(n)}
  /\ cache' = "on"
  /\ UNCHANGED <<dst, ino, lru, threads, panic>>

\* wbc_super_conf_default(): no limit is set.
Enable(t) ==
  /\ At(t, "idle") /\ May("enable") /\ cache = "off"
  /\ cache' = "on"
  /\ UNCHANGED <<max, free, hiwm, dst, ino, lru, threads, panic>>

\* wbc_super_disable_cache(), until every root has been flushed and derooted.
Disable(t) ==
  /\ At(t, "idle") /\ May("disable")
  /\ May("disables") \/ \A u \in Admin : pc[u] = "idle"
  /\ cache' = "off"
  /\ Go(t, "shrink", NoDir, NoInode)
  /\ UNCHANGED <<max, free, hiwm, dst, ino, lru, job, rc, todo, panic>>

ShrinkRoot(t, d) ==
  /\ At(t, "shrink") /\ dst[d] # "none"
  /\ Go(t, "want", d, NoInode)
  /\ job' = [job EXCEPT ![t] = "callback"]
  /\ UNCHANGED <<counters, dst, ino, lru, rc, todo, panic>>

ShrinkEnd(t) ==
  /\ At(t, "shrink") /\ \A d \in Dir : dst[d] = "none"
  /\ Go(t, "assert", NoDir, NoInode)
  /\ UNCHANGED <<counters, dst, ino, lru, job, rc, todo, panic>>

\* The cache was switched on meanwhile: again.  Otherwise every reservation must be
\* back, and the configuration is reset.
DisableEnd(t) ==
  /\ At(t, "assert")
  /\ IF cache = "on"
       THEN cache' = "off" /\ Go(t, "shrink", NoDir, NoInode) /\ UNCHANGED <<max, free, hiwm, panic>>
       ELSE IF max = free
         THEN /\ max' = 0 /\ free' = 0 /\ hiwm' = NoRatio
              /\ Go(t, "idle", NoDir, NoInode)
              /\ UNCHANGED <<cache, panic>>
         ELSE panic' = "limit" /\ UNCHANGED <<counters, pc, dir, node>>
  /\ UNCHANGED <<dst, ino, lru, job, rc, todo>>

---------------------------------------------------------------------------

\* What thread t does once it is inside a call.
Proceed(t) ==
  /\ \/ \E i \in Inode : NewNode(t, i)
     \/ NewNodeNoInode(t) \/ NewNodeFails(t)
     \/ UnlinkEnd(t)
     \/ \E i \in Inode : FlushChild(t, i) \/ FlushChildRefused(t, i) \/ FlushChildFails(t, i)
     \/ FlushDone(t)
     \/ IoctlCheck(t) \/ IoctlUnreserve(t)
     \/ \E d \in Dir : ShrinkRoot(t, d)
     \/ ShrinkEnd(t) \/ DisableEnd(t)
  /\ UNCHANGED conf

Lock(t) == LockDir(t) /\ UNCHANGED conf

Reclaim ==
  /\ ReclaimTop \/ ReclaimEnd \/ \E i \in Inode : ReclaimPick(i)
  /\ UNCHANGED conf

\* Calls and events that come from outside.
Environment ==
  /\ \/ \E t \in Syscall \cap conf.users :
                           \/ \E d \in Dir : CacheEnter(t, d)
                           \/ \E i \in Inode : UnlinkStart(t, i) \/ Ioctl(t, i)
     \/ \E i \in Inode : UnlinkMdt(i) \/ Evict(i)
     \/ \E d \in Dir : Grant(d) \/ LockCallback(d)
     \/ \E t \in Admin \cap conf.users :
                         \/ \E n \in conf.limits : ConfUpdate(t, n)
                         \/ Enable(t) \/ Disable(t)
  /\ UNCHANGED conf

Next == Environment \/ Reclaim \/ \E t \in Thread : Proceed(t) \/ Lock(t)

\* Threads run, the MDT answers, and a waiting writer gets the semaphore in the end:
\* rw_semaphore queues its waiters in order.
Fairness ==
  /\ WF_vars(Reclaim)
  /\ \A t \in Thread : WF_vars(Proceed(t)) /\ SF_vars(Lock(t))

Spec == Init /\ [][Next]_vars /\ Fairness

---------------------------------------------------------------------------
(* Properties. *)

\* The ways of running the cache in which the accounting is exact: no allocation or
\* flush fails, the limit is never 0 while the cache is on, one thread at a time
\* disables the cache, and no file is unreserved by ioctl(2) on its own.
Accounted ==
  /\ conf.faults = {} /\ conf.limit # 0 /\ 0 \notin conf.limits
  /\ conf.ops \cap {"unreserve", "enable", "disables"} = {}

Reserved == {i \in Inode : ino[i] # "none"}
Creating == {t \in Thread : pc[t] = "new"}

\* No reservation is lost or returned twice: wbcc_free_inodes is what
\* wbcc_max_inodes leaves after the reserved inodes and the creations under way,
\* through every interleaving of creation, removal, reclaim, lock callbacks and
\* changes of the limit.
Conservation ==
  Accounted => free + Cardinality(Reserved) + Cardinality(Creating) = max

\* wbcs_rsvd_inode_lru holds only inodes that still have their reservation, so the
\* reclaimer never follows a list entry into an inode that was freed.
LruLive == Accounted => lru \subseteq Reserved

\* Switching the cache off finds every reservation returned (the assertion of
\* wbc_super_disable_cache()), unless an unlinked file of a decompleted directory
\* is still open.
DisableClean ==
  Accounted /\ (conf.mode = "drop" \/ ~May("unlink")) => panic = "none"

\* The assertion of wbc_super_disable_cache() as the code states it: "max_inodes" and
\* "free_inodes" are equal when all roots have been flushed.
DisableAssert == panic # "limit"

\* In the lock-drop modes the reclaimer brings the use of inodes down to the high
\* watermark, as test_25 of sanity-wbc.sh expects within five seconds.
ReclaimsDrop ==
  (TooMuch /\ Accounted /\ conf.mode = "drop" /\ "conf" \notin conf.ops) ~> ~TooMuch
=============================================================================
