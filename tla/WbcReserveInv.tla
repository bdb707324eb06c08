---------------------------- MODULE WbcReserveInv ----------------------------
(***************************************************************************)
(* The inductive invariant of WbcReserve beside the count of reservations: *)
(* the semaphore, the lists and the states of the directories.  Types are  *)
(* kept by every step; the rest, in the configurations the accounting is   *)
(* kept in, by the end of wbc_super_disable_cache(), creations, removals   *)
(* and administration, shown here, and by the flushes of WbcReserveProofs. *)
(***************************************************************************)
EXTENDS WbcReserve, TLAPS

\* Nothing fails and no thread is in the unlocked part of ioctl(2).
Quiet ==
  \A t \in Thread :
    /\ rc[t] = "ok" /\ pc[t] \notin {"check", "unrsv"}
    /\ t \in Syscall /\ pc[t] \in {"want", "flush"} => node[t] = NoInode

\* wbci_rw_sem: a directory that is being flushed has no reader and one writer.
Sem ==
  \A t, u \in Thread :
    pc[u] = "flush" /\ t # u /\ pc[t] \in {"new", "unlink", "flush"} => dir[t] # dir[u]

\* A file that is being unlinked has its reservation, and one thread unlinks it.
Unlinking ==
  /\ \A t \in Thread : pc[t] = "unlink" =>
       node[t] \in Inode /\ ino[node[t]] = "reserved" /\ dir[t] = Parent[node[t]]
  /\ \A t, u \in Thread : pc[t] = "unlink" /\ pc[u] = "unlink" /\ t # u => node[t] # node[u]

\* A flush knows which children still have their reservations.
Flushing ==
  /\ \A t \in Thread : pc[t] = "want" => dir[t] \in Dir
  /\ \A t \in Thread : pc[t] = "flush" =>
       /\ dir[t] \in Dir /\ dst[dir[t]] # "none"
       /\ todo[t] \subseteq {i \in Inode : Parent[i] = dir[t] /\ ino[i] = "reserved"}
       /\ FlushUnreserves(t) =>
            {i \in Inode : Parent[i] = dir[t] /\ ino[i] = "reserved"} \subseteq todo[t]

\* Operations in MemFS run in Complete directories.
Creators ==
  \A t \in Thread : pc[t] \in {"new", "unlink"} => dir[t] \in Dir /\ dst[dir[t]] = "complete"

\* One thread disables the cache; the limit is 0 only while the cache is off and no
\* directory is cached.
Limits ==
  /\ max = 0 => cache = "off" /\ \A d \in Dir : dst[d] = "none"
  /\ \A t, u \in Admin : t # u => pc[t] = "idle" \/ pc[u] = "idle"
  /\ \A t \in Admin : pc[t] = "assert" /\ cache = "off" => \A d \in Dir : dst[d] = "none"
  /\ \A t \in Thread \ Admin : pc[t] \notin {"shrink", "assert"}

\* Without unlinked files in decompleted directories every reserved inode is below a
\* directory that is still cached.
Rooted ==
  /\ conf.mode = "drop" => \A d \in Dir : dst[d] # "incomplete"
  /\ conf.mode = "drop" \/ ~May("unlink") =>
       \A i \in Inode : ino[i] # "none" => ino[i] = "reserved" /\ dst[Parent[i]] # "none"

\* The LRU list holds reserved inodes.
Listed == lru \subseteq Reserved

\* Without unlinked files in decompleted directories no assertion fails.
Clean == conf.mode = "drop" \/ ~May("unlink") => panic = "none"

\* What holds beside the count.
Books ==
  /\ Quiet /\ Sem /\ Unlinking /\ Flushing /\ Creators
  /\ Limits /\ Rooted /\ Listed /\ Clean

---------------------------------------------------------------------------
(* Type correctness. *)

\* The initial state, and the watermark of any limit.
LEMMA InitType == Init => TypeOK
  <1> USE SMT, SMTT(30)
  <1> SUFFICES ASSUME Init PROVE TypeOK
    OBVIOUS
  <1>1. conf \in Conf
    BY ConfAssumption DEF Init
  <1>2. HiwmOf(conf.limit) \in Nat \cup {NoRatio}
    <2>1. conf.limit \in Nat /\ conf.ratio \in 0 .. 100
      BY <1>1 DEF Conf
    <2>2. conf.limit * conf.ratio \in Nat
      BY <2>1
    <2>3. QED
      BY <2>2 DEF HiwmOf
  <1>3. QED
    BY <1>1, <1>2 DEF Init, TypeOK, Conf, Pc

\* What the outside world starts keeps the types.
LEMMA EnvironmentType == TypeOK /\ Environment => TypeOK'
  <1> USE SMT, SMTT(30)
  <1> SUFFICES ASSUME TypeOK, Environment PROVE TypeOK'
    OBVIOUS
  <1> USE DEF TypeOK, Pc
  <1>1. ASSUME NEW t \in Syscall, NEW d \in Dir, CacheEnter(t, d) PROVE TypeOK'
    <2>1. CASE max # 0 /\ free = 0
      BY <1>1, <2>1 DEF CacheEnter, EnterFull, Go, Thread, Environment
    <2>2. CASE ~(max # 0 /\ free = 0)
      <3>1. Reserve(t, d) /\ UNCHANGED <<conf, cache, dst, ino, lru, rc, todo, panic>>
        BY <1>1, <2>2 DEF CacheEnter, Environment
      <3>2. free' \in Nat
        BY <2>2, <3>1 DEF Reserve
      <3>3. QED
        BY <3>1, <3>2 DEF Reserve, Thread
    <2>3. QED
      BY <2>1, <2>2
  <1>2. ASSUME NEW t \in Syscall, NEW i \in Inode, UnlinkStart(t, i) \/ Ioctl(t, i) PROVE TypeOK'
    BY <1>2, ParentAssumption DEF UnlinkStart, Ioctl, Go, Thread, Environment, counters
  <1>3. ASSUME NEW i \in Inode, UnlinkMdt(i) \/ Evict(i) PROVE TypeOK'
    BY <1>3 DEF UnlinkMdt, Evict, Unreserve, Environment, counters, threads
  <1>4. ASSUME NEW d \in Dir, Grant(d) \/ LockCallback(d) PROVE TypeOK'
    BY <1>4 DEF Grant, LockCallback, Go, Thread, Environment, counters, threads
  <1>5. ASSUME NEW t \in Admin, NEW n \in conf.limits, ConfUpdate(t, n) PROVE TypeOK'
    <2>1. conf \in Conf /\ n \in Nat
      BY ConfAssumption DEF Conf
    <2>2. free + n - max \in Nat
      BY <1>5, <2>1, BoundAssumption DEF ConfUpdate, Used
    <2>3. HiwmOf(n) \in Nat \cup {NoRatio}
      <3>1. conf.ratio \in 0 .. 100
        BY <2>1 DEF Conf
      <3>2. n * conf.ratio \in Nat
        BY <2>1, <3>1
      <3>3. QED
        BY <3>2 DEF HiwmOf
    <2>4. QED
      BY <1>5, <2>1, <2>2, <2>3 DEF ConfUpdate, Environment, threads
  <1>6. ASSUME NEW t \in Admin, Enable(t) \/ Disable(t) PROVE TypeOK'
    BY <1>6 DEF Enable, Disable, Go, Thread, Environment, threads
  <1>7. QED
    BY <1>1, <1>2, <1>3, <1>4, <1>5, <1>6 DEF Environment

\* So does the reclaimer.
LEMMA ReclaimType == TypeOK /\ Reclaim => TypeOK'
  <1> USE SMT, SMTT(30)
  <1> SUFFICES ASSUME TypeOK, Reclaim PROVE TypeOK'
    OBVIOUS
  <1> USE DEF TypeOK, Pc
  <1>1. ASSUME ReclaimTop \/ ReclaimEnd PROVE TypeOK'
    BY <1>1 DEF ReclaimTop, ReclaimEnd, Go, Thread, Reclaim, counters
  <1>2. ASSUME NEW i \in Inode, ReclaimPick(i) PROVE TypeOK'
    BY <1>2, ParentAssumption DEF ReclaimPick, Go, Thread, Reclaim, counters
  <1>3. QED
    BY <1>1, <1>2 DEF Reclaim

\* Where a job may return to.
LEMMA AfterType ==
  ASSUME NEW t \in Thread, NEW r
  PROVE  After(t, r) \in {"loop", "idle", "shrink", "assert", "check"}
  BY DEF After

\* A return keeps the types.
LEMMA ReturnType ==
  ASSUME TypeOK, NEW t \in Thread, NEW r, Return(t, r)
  PROVE  /\ pc' \in [Thread -> Pc] /\ dir' \in [Thread -> Dir \cup {NoDir}]
         /\ node' \in [Thread -> Inode \cup {NoInode}]
         /\ job' \in [Thread -> {"decomp0", "decomp1", "callback"}]
         /\ rc' \in [Thread -> {"ok", "err"}]
  BY AfterType DEF Return, Go, TypeOK, Pc

\* So does a thread that gets the semaphore.
LEMMA LockType == ASSUME TypeOK, NEW t \in Thread, Lock(t) PROVE TypeOK'
  <1> USE SMT, SMTT(30)
  <1>1. CASE JobDone(t)
    <2>1. Return(t, "ok") /\ UNCHANGED <<conf, counters, dst, ino, lru, panic, todo>>
      BY <1>1 DEF Lock, LockDir
    <2>2. QED
      BY <2>1, ReturnType DEF TypeOK, counters
  <1>2. CASE ~JobDone(t)
    BY <1>2 DEF Lock, LockDir, TypeOK, Pc, counters
  <1>3. QED
    BY <1>1, <1>2

\* So do the steps inside a call.
LEMMA ProceedType == ASSUME TypeOK, NEW t \in Thread, Proceed(t) PROVE TypeOK'
  <1>0. conf' = conf
    BY DEF Proceed
  <1>1. ASSUME NEW i \in Inode, NewNode(t, i) PROVE TypeOK'
    BY SMT, SMTT(30), <1>0, <1>1 DEF NewNode, Go, TypeOK, Pc, counters
  <1>2. ASSUME NewNodeNoInode(t) \/ NewNodeFails(t) PROVE TypeOK'
    BY SMT, SMTT(30), <1>0, <1>2 DEF NewNodeNoInode, NewNodeFails, Go, TypeOK, Pc, counters
  <1>3. ASSUME UnlinkEnd(t) \/ IoctlUnreserve(t) PROVE TypeOK'
    BY SMT, SMTT(30), <1>0, <1>3 DEF UnlinkEnd, IoctlUnreserve, Unreserve, Go, TypeOK, Pc
  <1>4. ASSUME NEW i \in Inode, FlushChild(t, i) \/ FlushChildRefused(t, i) PROVE TypeOK'
    BY <1>0, <1>4 DEF FlushChild, FlushChildRefused, UnreserveDput, Unreserve, TypeOK
  <1>5. ASSUME NEW i \in Inode, FlushChildFails(t, i) PROVE TypeOK'
    BY <1>0, <1>5 DEF FlushChildFails, TypeOK, counters
  <1>6. ASSUME FlushDone(t) PROVE TypeOK'
    BY <1>0, <1>6, ReturnType, Zenon DEF FlushDone, TypeOK, counters
  <1>7. ASSUME IoctlCheck(t) PROVE TypeOK'
    BY <1>0, <1>7 DEF IoctlCheck, Go, TypeOK, Pc, counters
  <1>8. ASSUME NEW d \in Dir, ShrinkRoot(t, d) PROVE TypeOK'
    BY SMT, SMTT(30), <1>0, <1>8 DEF ShrinkRoot, Go, TypeOK, Pc, counters
  <1>9. ASSUME ShrinkEnd(t) \/ DisableEnd(t) PROVE TypeOK'
    BY <1>0, <1>9 DEF ShrinkEnd, DisableEnd, Go, TypeOK, Pc, counters
  <1>10. QED
    BY <1>1, <1>2, <1>3, <1>4, <1>5, <1>6, <1>7, <1>8, <1>9 DEF Proceed

\* Every step keeps the types.
THEOREM NextType == TypeOK /\ [Next]_vars => TypeOK'
  <1> USE SMT, SMTT(30)
  <1>1. ASSUME TypeOK, UNCHANGED vars PROVE TypeOK'
    BY <1>1 DEF TypeOK, vars, counters, threads
  <1>2. QED
    BY <1>1, EnvironmentType, ReclaimType, LockType, ProceedType DEF Next

---------------------------------------------------------------------------
\* wbc_unreserve_inode() takes the inode from the reserved ones and from the list.
LEMMA UnreserveSets ==
  ASSUME TypeOK, NEW i \in Inode, ino[i] # "none", Unreserve(i), max # 0
  PROVE  /\ Reserved' = Reserved \ {i} /\ i \in Reserved
         /\ free' = free + 1 /\ lru' = lru \ {i}
  BY DEF TypeOK, Reserved, Unreserve

-----------------------------------------------------------------------------
(* Administration keeps the books. *)

\* wbc_super_shrink_roots() takes a root, or finds none.
LEMMA ShrinkBooks ==
  ASSUME TypeOK, Accounted, Books, conf' = conf, NEW t \in Thread,
         (\E d \in Dir : ShrinkRoot(t, d)) \/ ShrinkEnd(t)
  PROVE  Books'
  <1> USE SMT, SMTT(30) DEF TypeOK, Books
  <1>0. t \in Admin
    BY DEF ShrinkRoot, ShrinkEnd, At, Limits
  <1>0a. UNCHANGED <<counters, dst, ino, lru, rc, todo, panic>>
    BY DEF ShrinkRoot, ShrinkEnd
  <1>1. Quiet'
    BY ThreadAssumption DEF Quiet, Limits, ShrinkRoot, ShrinkEnd, At, Go, Thread
  <1>2. Sem'
    BY ThreadAssumption DEF Sem, ShrinkRoot, ShrinkEnd, At, Go, counters
  <1>3. Unlinking'
    BY ThreadAssumption DEF Unlinking, ShrinkRoot, ShrinkEnd, At, Go, counters
  <1>4. Flushing'
    BY ThreadAssumption DEF Flushing, FlushUnreserves, Decompletes, ShrinkRoot, ShrinkEnd, At,
                            Go, counters
  <1>5. Creators'
    BY ThreadAssumption DEF Creators, ShrinkRoot, ShrinkEnd, At, Go, counters
  <1>6. Limits'
    BY <1>0, <1>0a, ThreadAssumption DEF Limits, ShrinkRoot, ShrinkEnd, At, Go, Thread, counters
  <1>7. Rooted'
    BY ThreadAssumption DEF Rooted, May, ShrinkRoot, ShrinkEnd, At, Go, counters
  <1>8. Listed'
    BY DEF Listed, Reserved, ShrinkRoot, ShrinkEnd, At, Go, counters
  <1>9. Clean'
    BY DEF Clean, May, ShrinkRoot, ShrinkEnd, At, Go, counters
  <1>10. QED
    BY <1>1, <1>2, <1>3, <1>4, <1>5, <1>6, <1>7, <1>8, <1>9 DEF Books

\* wbc_super_disable_cache() ends or begins again.
LEMMA DisableEndBooks ==
  ASSUME TypeOK, Accounted, Books, conf' = conf, NEW t \in Thread,
         (conf.mode = "drop" \/ ~May("unlink")) /\ cache = "off" => max = free,
         DisableEnd(t)
  PROVE  Books'
  <1> USE SMT, SMTT(30) DEF TypeOK, Books
  <1>0. t \in Admin
    BY DEF DisableEnd, At, Limits
  <1>1. Quiet'
    BY <1>0, ThreadAssumption DEF Quiet, DisableEnd, At, Go, counters
  <1>2. Sem'
    BY <1>0 DEF Sem, DisableEnd, At, Go, counters
  <1>3. Unlinking'
    BY <1>0 DEF Unlinking, DisableEnd, At, Go, counters
  <1>4. Flushing'
    BY <1>0 DEF Flushing, FlushUnreserves, Decompletes, DisableEnd, At, Go, counters
  <1>5. Creators'
    BY <1>0 DEF Creators, DisableEnd, At, Go, counters
  <1>6. Limits'
    <2>1. /\ pc[t] = "assert" /\ dst' = dst
          /\ \A u \in Thread \ {t} : pc'[u] = pc[u]
      BY DEF DisableEnd, At, Go, counters
    <2>2. CASE cache = "on"
      <3>1. max' = max /\ cache' = "off" /\ pc'[t] = "shrink"
        BY <2>2 DEF DisableEnd, Go
      <3>2. QED
        BY <1>0, <2>1, <2>2, <3>1, ThreadAssumption DEF Limits, Thread
    <2>3. CASE cache # "on"
      <3>1. cache' = cache /\ pc'[t] \in {"idle", "assert"}
        BY <2>1, <2>3 DEF DisableEnd, Go, counters
      <3>2. QED
        BY <1>0, <2>1, <2>3, <3>1, ThreadAssumption DEF Limits, Thread
    <2>4. QED
      BY <2>2, <2>3
  <1>7. Rooted'
    BY <1>0 DEF Rooted, May, DisableEnd, At, Go, counters
  <1>8. Listed'
    BY DEF Listed, Reserved, DisableEnd, At, Go, counters
  <1>9. Clean'
    <2>1. SUFFICES ASSUME conf.mode = "drop" \/ "unlink" \notin conf.ops
                   PROVE  panic' = "none"
      BY DEF Clean, May
    <2>2. panic = "none"
      BY DEF DisableEnd, At
    <2>3. cache = "on" \/ max = free
      BY <2>1 DEF May
    <2>4. CASE cache = "on"
      BY <2>2, <2>4 DEF DisableEnd
    <2>5. CASE cache # "on" /\ max = free
      BY <2>2, <2>5 DEF DisableEnd
    <2>6. QED
      BY <2>3, <2>4, <2>5
  <1>10. QED
    BY <1>1, <1>2, <1>3, <1>4, <1>5, <1>6, <1>7, <1>8, <1>9 DEF Books

---------------------------------------------------------------------------

\* memfs_unlink() begins.
LEMMA UnlinkStartBooks ==
  ASSUME TypeOK, Accounted, Books, conf' = conf, NEW t \in Syscall, NEW i \in Inode,
         UnlinkStart(t, i)
  PROVE  Books'
  <1> USE SMT, SMTT(30) DEF TypeOK, Books
  <1>1. Quiet'
    BY ThreadAssumption DEF Quiet, UnlinkStart, At, Go, Thread, counters
  <1>2. Sem'
    BY ParentAssumption, ThreadAssumption DEF Sem, UnlinkStart, At, Go, Thread, counters,
                                              CanRead, Writers, Waiting
  <1>3. Unlinking'
    BY ParentAssumption, ThreadAssumption DEF Unlinking, UnlinkStart, At, Go, Thread, counters
  <1>4. Flushing'
    BY ParentAssumption, ThreadAssumption DEF Flushing, FlushUnreserves, Decompletes,
                                              UnlinkStart, At, Go, Thread, counters, CanRead,
                                              Writers, Waiting
  <1>5. Creators'
    BY ParentAssumption, ThreadAssumption DEF Creators, UnlinkStart, At, Go, Thread, counters
  <1>6. Limits'
    BY ThreadAssumption DEF Limits, UnlinkStart, At, Go, Thread, counters
  <1>7. Rooted'
    BY ParentAssumption, ThreadAssumption DEF Rooted, May, UnlinkStart, At, Go, Thread, counters
  <1>8. Listed'
    BY DEF Listed, Reserved, UnlinkStart, At, Go, Thread, counters
  <1>9. Clean'
    BY DEF Clean, May, UnlinkStart, At, Go, Thread, counters
  <1>10. QED
    BY <1>1, <1>2, <1>3, <1>4, <1>5, <1>6, <1>7, <1>8, <1>9 DEF Books

\* A creation enters MemFS, or is turned away at the limit.
LEMMA CacheEnterBooks ==
  ASSUME TypeOK, Accounted, Books, conf' = conf, NEW t \in Syscall, NEW d \in Dir,
         CacheEnter(t, d)
  PROVE  Books'
  <1> USE SMT, SMTT(30) DEF TypeOK, Books
  <1>0. max # 0
    BY DEF CacheEnter, Limits
  <1>1. Quiet'
    BY ThreadAssumption, <1>0 DEF Quiet, CacheEnter, EnterFull, Reserve, At, Go, Thread,
                                  counters
  <1>2. Sem'
    BY ParentAssumption, ThreadAssumption, <1>0 DEF Sem, CacheEnter, EnterFull, Reserve, At, Go,
                                                    Thread, counters, CanRead, Writers, Waiting
  <1>3. Unlinking'
    BY ParentAssumption, ThreadAssumption, <1>0 DEF Unlinking, CacheEnter, EnterFull, Reserve,
                                                    At, Go, Thread, counters
  <1>4. Flushing'
    BY ParentAssumption, ThreadAssumption, <1>0 DEF Flushing, FlushUnreserves, Decompletes,
                                                    CacheEnter, EnterFull, Reserve, At, Go,
                                                    Thread, counters, CanRead, Writers, Waiting
  <1>5. Creators'
    BY ParentAssumption, ThreadAssumption, <1>0 DEF Creators, CacheEnter, EnterFull, Reserve,
                                                    At, Go, Thread, counters
  <1>6. Limits'
    BY ThreadAssumption, <1>0 DEF Limits, CacheEnter, EnterFull, Reserve, At, Go, Thread,
                                  counters
  <1>7. Rooted'
    BY ParentAssumption, ThreadAssumption, <1>0 DEF Rooted, May, CacheEnter, EnterFull, Reserve,
                                                    At, Go, Thread, counters
  <1>8. Listed'
    BY DEF Listed, Reserved, CacheEnter, EnterFull, Reserve, At, Go, Thread, counters
  <1>9. Clean'
    BY DEF Clean, May, CacheEnter, EnterFull, Reserve, At, Go, Thread, counters
  <1>10. QED
    BY <1>1, <1>2, <1>3, <1>4, <1>5, <1>6, <1>7, <1>8, <1>9 DEF Books

\* wbc_ioctl() asks for a directory to be unreserved.
LEMMA IoctlBooks ==
  ASSUME TypeOK, Accounted, Books, conf' = conf, NEW t \in Syscall, NEW i \in Inode,
         Ioctl(t, i)
  PROVE  Books'
  <1> USE SMT, SMTT(30) DEF TypeOK, Books
  <1>1. Quiet'
    BY ThreadAssumption DEF Quiet, Ioctl, Accounted, May, At, Go, Thread, counters
  <1>2. Sem'
    BY ParentAssumption, ThreadAssumption DEF Sem, Ioctl, Accounted, May, At, Go, Thread,
                                              counters
  <1>3. Unlinking'
    BY ParentAssumption, ThreadAssumption DEF Unlinking, Ioctl, Accounted, May, At, Go, Thread,
                                              counters
  <1>4. Flushing'
    BY ParentAssumption, ThreadAssumption DEF Flushing, FlushUnreserves, Decompletes, Ioctl,
                                              Accounted, May, At, Go, Thread, counters
  <1>5. Creators'
    BY ParentAssumption, ThreadAssumption DEF Creators, Ioctl, Accounted, May, At, Go, Thread,
                                              counters
  <1>6. Limits'
    BY ThreadAssumption DEF Limits, Ioctl, Accounted, May, At, Go, Thread, counters
  <1>7. Rooted'
    BY ParentAssumption, ThreadAssumption DEF Rooted, May, Ioctl, Accounted, At, Go, Thread,
                                              counters
  <1>8. Listed'
    BY DEF Listed, Reserved, Ioctl, Accounted, May, At, Go, Thread, counters
  <1>9. Clean'
    BY DEF Clean, May, Ioctl, Accounted, At, Go, Thread, counters
  <1>10. QED
    BY <1>1, <1>2, <1>3, <1>4, <1>5, <1>6, <1>7, <1>8, <1>9 DEF Books

\* A file of a decompleted directory is removed.
LEMMA UnlinkMdtBooks ==
  ASSUME TypeOK, Accounted, Books, conf' = conf, NEW i \in Inode,
         UnlinkMdt(i)
  PROVE  Books'
  <1> USE SMT, SMTT(30) DEF TypeOK, Books
  <1>0a. \A t \in Thread : pc[t] = "unlink" => node[t] # i
    BY DEF UnlinkMdt, Unlinking, Creators
  <1>0b. conf.mode # "drop" /\ May("unlink") /\ May("unlink")'
    <2>1. Parent[i] \in Dir
      BY ParentAssumption
    <2>2. dst[Parent[i]] = "incomplete" /\ May("unlink")
      BY Zenon DEF UnlinkMdt
    <2>3. conf.mode # "drop"
      BY <2>1, <2>2, Zenon DEF Rooted
    <2>4. QED
      BY <2>2, <2>3 DEF May
  <1>1. Quiet'
    BY ThreadAssumption DEF Quiet, UnlinkMdt, counters, threads
  <1>2. Sem'
    BY ParentAssumption, ThreadAssumption DEF Sem, UnlinkMdt, counters, threads, CanRead,
                                              Writers, Waiting
  <1>3. Unlinking'
    BY <1>0a DEF Unlinking, UnlinkMdt, counters, threads
  <1>4. Flushing'
    BY ParentAssumption, ThreadAssumption DEF Flushing, FlushUnreserves, Decompletes, UnlinkMdt,
                                              counters, threads, CanRead, Writers, Waiting
  <1>5. Creators'
    BY ParentAssumption, ThreadAssumption DEF Creators, UnlinkMdt, counters, threads
  <1>6. Limits'
    BY ThreadAssumption DEF Limits, UnlinkMdt, counters, threads
  <1>7. Rooted'
    BY <1>0b, ParentAssumption DEF Rooted, UnlinkMdt
  <1>8. Listed'
    BY DEF Listed, Reserved, UnlinkMdt, counters, threads
  <1>9. Clean'
    BY DEF Clean, May, UnlinkMdt, counters, threads
  <1>10. QED
    BY <1>1, <1>2, <1>3, <1>4, <1>5, <1>6, <1>7, <1>8, <1>9 DEF Books

\* The last user of an unlinked file is gone.
LEMMA EvictBooks ==
  ASSUME TypeOK, Accounted, Books, conf' = conf, max # 0, NEW i \in Inode,
         Evict(i)
  PROVE  Books'
  <1> USE SMT, SMTT(30) DEF TypeOK, Books
  <1>0. Reserved' = Reserved \ {i} /\ lru' = lru \ {i}
    BY UnreserveSets DEF Evict
  <1>1. Quiet'
    BY ThreadAssumption, <1>0 DEF Quiet, Evict, Unreserve, counters, threads
  <1>2. Sem'
    BY ParentAssumption, ThreadAssumption, <1>0 DEF Sem, Evict, Unreserve, counters, threads
  <1>3. Unlinking'
    BY ParentAssumption, ThreadAssumption, <1>0 DEF Unlinking, Evict, Unreserve, counters,
                                                    threads
  <1>4. Flushing'
    BY ParentAssumption, ThreadAssumption, <1>0 DEF Flushing, FlushUnreserves, Decompletes,
                                                    Evict, Unreserve, counters, threads
  <1>5. Creators'
    BY ParentAssumption, ThreadAssumption, <1>0 DEF Creators, Evict, Unreserve, counters,
                                                    threads
  <1>6. Limits'
    BY ThreadAssumption, <1>0 DEF Limits, Evict, Unreserve, counters, threads
  <1>7. Rooted'
    BY ParentAssumption, ThreadAssumption, <1>0 DEF Rooted, May, Evict, Unreserve, counters,
                                                    threads
  <1>8. Listed'
    BY <1>0 DEF Listed
  <1>9. Clean'
    BY DEF Clean, May, Evict, Unreserve, counters, threads
  <1>10. QED
    BY <1>1, <1>2, <1>3, <1>4, <1>5, <1>6, <1>7, <1>8, <1>9 DEF Books

\* A new directory becomes a root.
LEMMA GrantBooks ==
  ASSUME TypeOK, Accounted, Books, conf' = conf, NEW d \in Dir,
         Grant(d)
  PROVE  Books'
  <1> USE SMT, SMTT(30) DEF TypeOK, Books
  <1>1. Quiet'
    BY ThreadAssumption DEF Quiet, Grant, counters, threads
  <1>2. Sem'
    BY ParentAssumption, ThreadAssumption DEF Sem, Grant, counters, threads
  <1>3. Unlinking'
    BY ParentAssumption, ThreadAssumption DEF Unlinking, Grant, counters, threads
  <1>4. Flushing'
    BY ParentAssumption, ThreadAssumption DEF Flushing, FlushUnreserves, Decompletes, Grant,
                                              counters, threads
  <1>5. Creators'
    BY ParentAssumption, ThreadAssumption DEF Creators, Grant, counters, threads
  <1>6. Limits'
    BY ThreadAssumption DEF Limits, Grant, counters, threads
  <1>7. Rooted'
    BY ParentAssumption, ThreadAssumption DEF Rooted, May, Grant, counters, threads
  <1>8. Listed'
    BY DEF Listed, Reserved, Grant, counters, threads
  <1>9. Clean'
    BY DEF Clean, May, Grant, counters, threads
  <1>10. QED
    BY <1>1, <1>2, <1>3, <1>4, <1>5, <1>6, <1>7, <1>8, <1>9 DEF Books

\* wbc_inode_lock_callback() is called.
LEMMA LockCallbackBooks ==
  ASSUME TypeOK, Accounted, Books, conf' = conf, NEW d \in Dir,
         LockCallback(d)
  PROVE  Books'
  <1> USE SMT, SMTT(30) DEF TypeOK, Books
  <1>1. Quiet'
    BY ThreadAssumption DEF Quiet, LockCallback, At, Go, Thread, counters
  <1>2. Sem'
    BY ParentAssumption, ThreadAssumption DEF Sem, LockCallback, At, Go, Thread, counters
  <1>3. Unlinking'
    BY ParentAssumption, ThreadAssumption DEF Unlinking, LockCallback, At, Go, Thread, counters
  <1>4. Flushing'
    BY ParentAssumption, ThreadAssumption DEF Flushing, FlushUnreserves, Decompletes,
                                              LockCallback, At, Go, Thread, counters
  <1>5. Creators'
    BY ParentAssumption, ThreadAssumption DEF Creators, LockCallback, At, Go, Thread, counters
  <1>6. Limits'
    BY ThreadAssumption DEF Limits, LockCallback, At, Go, Thread, counters
  <1>7. Rooted'
    BY ParentAssumption, ThreadAssumption DEF Rooted, May, LockCallback, At, Go, Thread,
                                              counters
  <1>8. Listed'
    BY DEF Listed, Reserved, LockCallback, At, Go, Thread, counters
  <1>9. Clean'
    BY DEF Clean, May, LockCallback, At, Go, Thread, counters
  <1>10. QED
    BY <1>1, <1>2, <1>3, <1>4, <1>5, <1>6, <1>7, <1>8, <1>9 DEF Books

\* The limit is changed.
LEMMA ConfUpdateBooks ==
  ASSUME TypeOK, Accounted, Books, conf' = conf, NEW t \in Admin, NEW n \in conf.limits,
         ConfUpdate(t, n)
  PROVE  Books'
  <1> USE SMT, SMTT(30) DEF TypeOK, Books
  <1>0. n \in Nat /\ n # 0
    BY ConfAssumption DEF TypeOK, Conf, Accounted
  <1>0a. pc[t] = "idle"
    BY DEF ConfUpdate, At
  <1>1. Quiet'
    BY <1>0 DEF Quiet, ConfUpdate, threads
  <1>2. Sem'
    BY <1>0 DEF Sem, ConfUpdate, threads
  <1>3. Unlinking'
    BY <1>0 DEF Unlinking, ConfUpdate, threads
  <1>4. Flushing'
    BY <1>0 DEF Flushing, FlushUnreserves, Decompletes, ConfUpdate, threads
  <1>5. Creators'
    BY <1>0 DEF Creators, ConfUpdate, threads
  <1>6. Limits'
    BY <1>0, <1>0a DEF Limits, ConfUpdate, threads
  <1>7. Rooted'
    BY <1>0 DEF Rooted, May, ConfUpdate, threads
  <1>8. Listed'
    BY DEF Listed, Reserved, ConfUpdate, threads
  <1>9. Clean'
    BY DEF Clean, May, ConfUpdate, threads
  <1>10. QED
    BY <1>1, <1>2, <1>3, <1>4, <1>5, <1>6, <1>7, <1>8, <1>9 DEF Books

\* wbc_super_disable_cache() begins.
LEMMA DisableBooks ==
  ASSUME TypeOK, Accounted, Books, conf' = conf, NEW t \in Admin,
         Disable(t)
  PROVE  Books'
  <1> USE SMT, SMTT(30) DEF TypeOK, Books
  <1>0. \A u \in Admin : pc[u] = "idle"
    BY DEF Disable, Accounted, May
  <1>1. Quiet'
    BY <1>0, ThreadAssumption DEF Quiet, Disable, At, Go, Thread
  <1>2. Sem'
    BY <1>0, ThreadAssumption DEF Sem, Disable, At, Go, Thread
  <1>3. Unlinking'
    BY <1>0, ThreadAssumption DEF Unlinking, Disable, At, Go, Thread
  <1>4. Flushing'
    BY <1>0, ThreadAssumption DEF Flushing, FlushUnreserves, Decompletes, Disable, At, Go,
                                  Thread
  <1>5. Creators'
    BY <1>0, ThreadAssumption DEF Creators, Disable, At, Go, Thread
  <1>6. Limits'
    BY <1>0, ThreadAssumption DEF Limits, Disable, At, Go, Thread
  <1>7. Rooted'
    BY <1>0, ThreadAssumption DEF Rooted, May, Disable, At, Go, Thread
  <1>8. Listed'
    BY DEF Listed, Reserved, Disable, At, Go, Thread
  <1>9. Clean'
    BY DEF Clean, May, Disable, At, Go, Thread
  <1>10. QED
    BY <1>1, <1>2, <1>3, <1>4, <1>5, <1>6, <1>7, <1>8, <1>9 DEF Books

\* wbc_new_node() makes an inode.
LEMMA NewNodeBooks ==
  ASSUME TypeOK, Accounted, Books, conf' = conf, NEW t \in Thread, NEW i \in Inode,
         NewNode(t, i)
  PROVE  Books'
  <1> USE SMT, SMTT(30) DEF TypeOK, Books
  <1>0. /\ max # 0 /\ dir[t] = Parent[i] /\ dst[Parent[i]] = "complete"
        /\ \A u \in Thread : pc[u] = "flush" => dir[u] # Parent[i]
    BY DEF NewNode, At, Creators, Limits, Sem
  <1>1. Quiet'
    BY <1>0 DEF Quiet, NewNode, At, Go, counters
  <1>2. Sem'
    BY <1>0, ParentAssumption DEF Sem, NewNode, At, Go, counters
  <1>3. Unlinking'
    BY <1>0, ParentAssumption DEF Unlinking, NewNode, At, Go, counters
  <1>4. Flushing'
    BY <1>0, ParentAssumption DEF Flushing, FlushUnreserves, Decompletes, NewNode, At, Go,
                                  counters
  <1>5. Creators'
    BY <1>0, ParentAssumption DEF Creators, NewNode, At, Go, counters
  <1>6. Limits'
    BY <1>0 DEF Limits, NewNode, At, Go, counters
  <1>7. Rooted'
    BY <1>0, ParentAssumption DEF Rooted, May, NewNode, At, Go, counters
  <1>8. Listed'
    BY DEF Listed, Reserved, NewNode, At, Go, counters
  <1>9. Clean'
    BY DEF Clean, May, NewNode, At, Go, counters
  <1>10. QED
    BY <1>1, <1>2, <1>3, <1>4, <1>5, <1>6, <1>7, <1>8, <1>9 DEF Books

\* memfs_unlink() returns the reservation.
LEMMA UnlinkEndBooks ==
  ASSUME TypeOK, Accounted, Books, conf' = conf, max # 0, NEW t \in Thread,
         UnlinkEnd(t)
  PROVE  Books'
  <1> USE SMT, SMTT(30) DEF TypeOK, Books
  <1>0. /\ node[t] \in Inode /\ ino[node[t]] = "reserved" /\ dir[t] = Parent[node[t]]
        /\ \A u \in Thread : pc[u] = "flush" => dir[u] # Parent[node[t]]
    BY DEF UnlinkEnd, At, Unlinking, Sem
  <1>0a. Reserved' = Reserved \ {node[t]} /\ lru' = lru \ {node[t]}
    BY <1>0, UnreserveSets DEF UnlinkEnd
  <1>1. Quiet'
    BY <1>0, <1>0a DEF Quiet, UnlinkEnd, Unreserve, At, Go
  <1>2. Sem'
    BY <1>0, <1>0a, ParentAssumption DEF Sem, UnlinkEnd, Unreserve, At, Go
  <1>3. Unlinking'
    BY <1>0, <1>0a, ParentAssumption DEF Unlinking, UnlinkEnd, Unreserve, At, Go
  <1>4. Flushing'
    BY <1>0, <1>0a, ParentAssumption DEF Flushing, FlushUnreserves, Decompletes, UnlinkEnd,
                                         Unreserve, At, Go
  <1>5. Creators'
    BY <1>0, <1>0a, ParentAssumption DEF Creators, UnlinkEnd, Unreserve, At, Go
  <1>6. Limits'
    BY <1>0, <1>0a DEF Limits, UnlinkEnd, Unreserve, At, Go
  <1>7. Rooted'
    BY <1>0, <1>0a, ParentAssumption DEF Rooted, May, UnlinkEnd, Unreserve, At, Go
  <1>8. Listed'
    BY <1>0a DEF Listed
  <1>9. Clean'
    BY DEF Clean, May, UnlinkEnd, Unreserve, At, Go
  <1>10. QED
    BY <1>1, <1>2, <1>3, <1>4, <1>5, <1>6, <1>7, <1>8, <1>9 DEF Books

==============================================================================
