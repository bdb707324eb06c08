-------------------------- MODULE WbcReserveProofs ---------------------------
(***************************************************************************)
(* Proofs about WbcReserve, for every number of directories, inodes and    *)
(* threads, every limit and every configuration: the reclaimer and the     *)
(* flushes keep the invariant of WbcReserveInv, the count of reservations, *)
(* and the theorems.                                                       *)
(***************************************************************************)
EXTENDS WbcReserveInv, FiniteSetTheorems

\* The reclaimer looks at the watermark, or ends a round.
LEMMA ReclaimTopBooks ==
  ASSUME TypeOK, Accounted, Books, conf' = conf,
         ReclaimTop \/ ReclaimEnd
  PROVE  Books'
  <1> USE SMT, SMTT(30) DEF TypeOK, Books
  <1>1. Quiet'
    BY ThreadAssumption DEF Quiet, ReclaimTop, ReclaimEnd, At, Go, Thread, counters
  <1>2. Sem'
    BY ThreadAssumption DEF Sem, ReclaimTop, ReclaimEnd, At, Go, Thread, counters
  <1>3. Unlinking'
    BY ThreadAssumption DEF Unlinking, ReclaimTop, ReclaimEnd, At, Go, Thread, counters
  <1>4. Flushing'
    BY ThreadAssumption DEF Flushing, FlushUnreserves, Decompletes, ReclaimTop, ReclaimEnd, At,
                            Go, Thread, counters
  <1>5. Creators'
    BY ThreadAssumption DEF Creators, ReclaimTop, ReclaimEnd, At, Go, Thread, counters
  <1>6. Limits'
    BY ThreadAssumption DEF Limits, ReclaimTop, ReclaimEnd, At, Go, Thread, counters
  <1>7. Rooted'
    BY ThreadAssumption DEF Rooted, May, ReclaimTop, ReclaimEnd, At, Go, Thread, counters
  <1>8. Listed'
    BY DEF Listed, Reserved, ReclaimTop, ReclaimEnd, At, Go, Thread, counters
  <1>9. Clean'
    BY DEF Clean, May, ReclaimTop, ReclaimEnd, At, Go, Thread, counters
  <1>10. QED
    BY <1>1, <1>2, <1>3, <1>4, <1>5, <1>6, <1>7, <1>8, <1>9 DEF Books

\* The reclaimer takes an inode from the list.
LEMMA ReclaimPickBooks ==
  ASSUME TypeOK, Accounted, Books, conf' = conf, NEW i \in Inode,
         ReclaimPick(i)
  PROVE  Books'
  <1> USE SMT, SMTT(30) DEF TypeOK, Books
  <1>1. Quiet'
    BY ThreadAssumption DEF Quiet, ReclaimPick, At, Go, Thread, counters
  <1>2. Sem'
    BY ThreadAssumption, ParentAssumption DEF Sem, ReclaimPick, At, Go, Thread, counters
  <1>3. Unlinking'
    BY ThreadAssumption, ParentAssumption DEF Unlinking, ReclaimPick, At, Go, Thread, counters
  <1>4. Flushing'
    BY ThreadAssumption, ParentAssumption DEF Flushing, FlushUnreserves, Decompletes,
                                              ReclaimPick, At, Go, Thread, counters
  <1>5. Creators'
    BY ThreadAssumption, ParentAssumption DEF Creators, ReclaimPick, At, Go, Thread, counters
  <1>6. Limits'
    BY ThreadAssumption DEF Limits, ReclaimPick, At, Go, Thread, counters
  <1>7. Rooted'
    BY ThreadAssumption, ParentAssumption DEF Rooted, May, ReclaimPick, At, Go, Thread, counters
  <1>8. Listed'
    BY DEF Listed, Reserved, ReclaimPick, At, Go, Thread, counters
  <1>9. Clean'
    BY DEF Clean, May, ReclaimPick, At, Go, Thread, counters
  <1>10. QED
    BY <1>1, <1>2, <1>3, <1>4, <1>5, <1>6, <1>7, <1>8, <1>9 DEF Books

\* A job that ends well: the thread goes on in its caller, with nothing in hand.
LEMMA ReturnOk ==
  ASSUME TypeOK, Quiet, NEW t \in Thread, pc[t] \in {"want", "flush"}, Return(t, "ok")
  PROVE  \E p \in {"loop", "idle", "shrink"} :
            /\ Go(t, p, NoDir, NoInode) /\ (p = "shrink" <=> t \in Admin)
            /\ rc' = [rc EXCEPT ![t] = "ok"] /\ job' = [job EXCEPT ![t] = "decomp0"]
  <1>1. After(t, "ok") \in {"loop", "idle", "shrink"} /\ (After(t, "ok") = "shrink" <=> t \in Admin)
    BY ThreadAssumption DEF After, Quiet, Thread
  <1>2. QED
    BY <1>1 DEF Return

\* A thread gets the semaphore and finds nothing to do.
LEMMA LockReturnBooks ==
  ASSUME TypeOK, Accounted, Books, conf' = conf, NEW t \in Thread,
         LockDir(t), JobDone(t)
  PROVE  Books'
  <1> USE SMT, SMTT(30) DEF TypeOK, Books
  <1>0. PICK p \in {"loop", "idle", "shrink"} :
            /\ Go(t, p, NoDir, NoInode) /\ (p = "shrink" <=> t \in Admin)
            /\ rc' = [rc EXCEPT ![t] = "ok"] /\ job' = [job EXCEPT ![t] = "decomp0"]
    BY ReturnOk DEF LockDir, At
  <1>0a. pc[t] = "want" /\ UNCHANGED <<todo, counters, dst, ino, lru, panic>>
    BY DEF LockDir, At
  <1>1. Quiet'
    BY <1>0, <1>0a DEF Quiet, Go, counters
  <1>2. Sem'
    BY <1>0, <1>0a DEF Sem, Go, counters
  <1>3. Unlinking'
    BY <1>0, <1>0a DEF Unlinking, Go, counters
  <1>4. Flushing'
    BY <1>0, <1>0a DEF Flushing, FlushUnreserves, Decompletes, Go, counters
  <1>5. Creators'
    BY <1>0, <1>0a DEF Creators, Go, counters
  <1>6. Limits'
    BY <1>0, <1>0a, ThreadAssumption DEF Limits, Go, Thread, counters
  <1>7. Rooted'
    BY <1>0, <1>0a DEF Rooted, May, Go, counters
  <1>8. Listed'
    BY <1>0a DEF Listed, Reserved
  <1>9. Clean'
    BY <1>0a DEF Clean, May
  <1>10. QED
    BY <1>1, <1>2, <1>3, <1>4, <1>5, <1>6, <1>7, <1>8, <1>9 DEF Books

\* A thread gets the semaphore and begins to flush.
LEMMA LockFlushBooks ==
  ASSUME TypeOK, Accounted, Books, conf' = conf, NEW t \in Thread,
         LockDir(t), ~JobDone(t)
  PROVE  Books'
  <1> USE SMT, SMTT(30) DEF TypeOK, Books
  <1>0. dir[t] \in Dir
    BY DEF LockDir, At, Flushing
  <1>1. Quiet'
    BY <1>0 DEF Quiet, LockDir, JobDone, At, counters
  <1>2. Sem'
    BY <1>0 DEF Sem, LockDir, JobDone, At, counters, CanWrite, Writers, Readers
  <1>3. Unlinking'
    BY <1>0 DEF Unlinking, LockDir, JobDone, At, counters
  <1>4. Flushing'
    BY <1>0 DEF Flushing, FlushUnreserves, Decompletes, LockDir, JobDone, At, counters,
                CanWrite, Writers, Readers
  <1>5. Creators'
    BY <1>0 DEF Creators, LockDir, JobDone, At, counters
  <1>6. Limits'
    BY DEF Limits, LockDir, At, Thread, counters
  <1>7. Rooted'
    BY <1>0 DEF Rooted, May, LockDir, JobDone, At, counters
  <1>8. Listed'
    BY DEF Listed, Reserved, LockDir, JobDone, At, counters
  <1>9. Clean'
    BY DEF Clean, May, LockDir, JobDone, At, counters
  <1>10. QED
    BY <1>1, <1>2, <1>3, <1>4, <1>5, <1>6, <1>7, <1>8, <1>9 DEF Books

\* The update of a child is answered; the child keeps its reservation.
LEMMA FlushKeepBooks ==
  ASSUME TypeOK, Accounted, Books, conf' = conf, NEW t \in Thread, NEW i \in Inode,
         FlushChild(t, i), ~FlushUnreserves(t)
  PROVE  Books'
  <1> USE SMT, SMTT(30) DEF TypeOK, Books
  <1>1. Quiet'
    BY DEF Quiet, FlushChild, At
  <1>2. Sem'
    BY DEF Sem, FlushChild, At
  <1>3. Unlinking'
    BY DEF Unlinking, FlushChild, At
  <1>4. Flushing'
    BY DEF Flushing, FlushUnreserves, Decompletes, FlushChild, At
  <1>5. Creators'
    BY DEF Creators, FlushChild, At
  <1>6. Limits'
    BY DEF Limits, FlushChild, At
  <1>7. Rooted'
    BY DEF Rooted, May, FlushChild, At
  <1>8. Listed'
    BY DEF Listed, Reserved, FlushChild, At
  <1>9. Clean'
    BY DEF Clean, May, FlushChild, At
  <1>10. QED
    BY <1>1, <1>2, <1>3, <1>4, <1>5, <1>6, <1>7, <1>8, <1>9 DEF Books

\* The update of a child is answered and the reservation returned.
LEMMA FlushUnreserveBooks ==
  ASSUME TypeOK, Accounted, Books, conf' = conf, max # 0, NEW t \in Thread, NEW i \in Inode,
         FlushChild(t, i), FlushUnreserves(t)
  PROVE  Books'
  <1> USE SMT, SMTT(30) DEF TypeOK, Books
  <1>0. /\ ino[i] = "reserved" /\ Parent[i] = dir[t] /\ pc[t] = "flush" /\ Unreserve(i)
        /\ \A u \in Thread : u # t /\ pc[u] \in {"new", "unlink", "flush"} => dir[u] # dir[t]
    BY DEF FlushChild, UnreserveDput, At, Flushing, Sem
  <1>0a. Reserved' = Reserved \ {i} /\ lru' = lru \ {i}
    BY <1>0, UnreserveSets
  <1>1. Quiet'
    BY <1>0, <1>0a DEF Quiet, FlushChild, UnreserveDput, Unreserve, At
  <1>2. Sem'
    BY <1>0, <1>0a, ParentAssumption DEF Sem, FlushChild, UnreserveDput, Unreserve, At
  <1>3. Unlinking'
    BY <1>0, <1>0a, ParentAssumption DEF Unlinking, FlushChild, UnreserveDput, Unreserve, At
  <1>4. Flushing'
    BY <1>0, <1>0a, ParentAssumption DEF Flushing, FlushUnreserves, Decompletes, FlushChild,
                                         UnreserveDput, Unreserve, At
  <1>5. Creators'
    BY <1>0, <1>0a, ParentAssumption DEF Creators, FlushChild, UnreserveDput, Unreserve, At
  <1>6. Limits'
    BY <1>0, <1>0a DEF Limits, FlushChild, UnreserveDput, Unreserve, At
  <1>7. Rooted'
    BY <1>0, <1>0a, ParentAssumption DEF Rooted, May, FlushChild, UnreserveDput, Unreserve, At
  <1>8. Listed'
    BY <1>0a DEF Listed
  <1>9. Clean'
    BY DEF Clean, May, FlushChild, UnreserveDput, Unreserve, At
  <1>10. QED
    BY <1>1, <1>2, <1>3, <1>4, <1>5, <1>6, <1>7, <1>8, <1>9 DEF Books

\* A flush ends and the directory is decompleted or derooted.
LEMMA FlushDoneBooks ==
  ASSUME TypeOK, Accounted, Books, conf' = conf, NEW t \in Thread,
         FlushDone(t)
  PROVE  Books'
  <1> USE SMT, SMTT(30) DEF TypeOK, Books
  <1>0. PICK p \in {"loop", "idle", "shrink"} :
            /\ Go(t, p, NoDir, NoInode) /\ (p = "shrink" <=> t \in Admin)
            /\ rc' = [rc EXCEPT ![t] = "ok"] /\ job' = [job EXCEPT ![t] = "decomp0"]
    BY ReturnOk DEF FlushDone, At, Quiet
  <1>0a. /\ pc[t] = "flush" /\ todo[t] = {} /\ UNCHANGED <<todo, counters, ino, lru, panic>>
         /\ dst' = [dst EXCEPT ![dir[t]] = IF Decompletes(t) THEN "incomplete" ELSE "none"]
         /\ dir[t] \in Dir /\ dst[dir[t]] # "none"
         /\ \A u \in Thread : u # t /\ pc[u] \in {"new", "unlink", "flush"} => dir[u] # dir[t]
    BY DEF FlushDone, At, Flushing, Sem
  <1>1. Quiet'
    BY <1>0, <1>0a DEF Quiet, Decompletes, Go, counters
  <1>2. Sem'
    BY <1>0, <1>0a DEF Sem, Decompletes, Go, counters
  <1>3. Unlinking'
    BY <1>0, <1>0a DEF Unlinking, Decompletes, Go, counters
  <1>4. Flushing'
    BY <1>0, <1>0a DEF Flushing, FlushUnreserves, Decompletes, Go, counters
  <1>5. Creators'
    BY <1>0, <1>0a DEF Creators, Decompletes, Go, counters
  <1>6. Limits'
    <2>1. /\ max' = max /\ cache' = cache /\ pc'[t] = p
          /\ \A u \in Thread \ {t} : pc'[u] = pc[u]
      BY <1>0, <1>0a DEF Go, counters
    <2>2. (\A d \in Dir : dst[d] = "none") => FALSE
      BY <1>0a
    <2>3. max # 0 /\ \A u \in Admin : u # t /\ t \in Admin => pc[u] = "idle"
      BY <1>0a, <2>2 DEF Limits
    <2>4. \A u \in Admin : pc'[u] = "assert" => pc[u] = "assert" /\ u # t
      BY <1>0, <2>1, ThreadAssumption DEF Thread
    <2>5. \A v, u \in Admin : v # u => pc'[v] = "idle" \/ pc'[u] = "idle"
      BY <1>0, <2>1, <2>3, ThreadAssumption DEF Limits, Thread
    <2>6. \A u \in Thread \ Admin : pc'[u] \notin {"shrink", "assert"}
      BY <1>0, <2>1 DEF Limits
    <2>7. \A u \in Admin : pc'[u] = "assert" /\ cache' = "off" => FALSE
      BY <2>1, <2>2, <2>4 DEF Limits
    <2>8. QED
      BY <2>1, <2>3, <2>5, <2>6, <2>7 DEF Limits
  <1>7. Rooted'
    BY <1>0, <1>0a, ParentAssumption DEF Rooted, Flushing, FlushUnreserves, Decompletes, May,
                                         counters
  <1>8. Listed'
    BY <1>0a DEF Listed, Reserved
  <1>9. Clean'
    BY <1>0a DEF Clean, May
  <1>10. QED
    BY <1>1, <1>2, <1>3, <1>4, <1>5, <1>6, <1>7, <1>8, <1>9 DEF Books

---------------------------------------------------------------------------

\* The count of free reservations is exact.
Balanced == free + Cardinality(Reserved) + Cardinality(Creating) = max

\* The inductive invariant.
Inv == TypeOK /\ (Accounted => Books /\ Balanced)

---------------------------------------------------------------------------
(* Sets and cardinalities. *)

\* The reserved inodes and the creations under way can be counted.
LEMMA CountsAreNat ==
  /\ IsFiniteSet(Reserved) /\ Cardinality(Reserved) \in Nat
  /\ IsFiniteSet(Creating) /\ Cardinality(Creating) \in Nat
  BY SMT, SMTT(30), FiniteAssumption, FS_Subset, FS_CardinalityType DEF Reserved, Creating

\* A thread that stays away from "new" leaves the creations alone.
LEMMA CreatingSame ==
  ASSUME TypeOK, NEW t \in Thread, NEW p, pc' = [pc EXCEPT ![t] = p],
         pc[t] # "new", p # "new"
  PROVE  Creating' = Creating
  BY DEF TypeOK, Creating

\* A thread that leaves "new" ends a creation.
LEMMA CreatingLess ==
  ASSUME TypeOK, NEW t \in Thread, NEW p, pc' = [pc EXCEPT ![t] = p],
         pc[t] = "new", p # "new"
  PROVE  Cardinality(Creating') = Cardinality(Creating) - 1
  <1>1. Creating' = Creating \ {t} /\ t \in Creating
    BY DEF TypeOK, Creating
  <1>2. QED
    BY <1>1, CountsAreNat, FS_RemoveElement, Zenon

\* wbc_reserve_inode() starts a creation.
LEMMA CreatingMore ==
  ASSUME TypeOK, NEW t \in Syscall, NEW d, pc[t] # "new", Reserve(t, d)
  PROVE  Cardinality(Creating') = Cardinality(Creating) + 1
  <1>1. Creating' = Creating \cup {t} /\ t \notin Creating
    BY ThreadAssumption DEF TypeOK, Creating, Reserve, Thread
  <1>2. QED
    BY <1>1, CountsAreNat, FS_AddElement, Zenon

\* An inode that gets a reservation is one more.
LEMMA ReservedMore ==
  ASSUME TypeOK, NEW i \in Inode, ino[i] = "none", ino' = [ino EXCEPT ![i] = "reserved"]
  PROVE  Cardinality(Reserved') = Cardinality(Reserved) + 1
  <1>1. Reserved' = Reserved \cup {i} /\ i \notin Reserved
    BY DEF TypeOK, Reserved
  <1>2. QED
    BY <1>1, CountsAreNat, FS_AddElement, Zenon

\* There is a limit as long as an inode is reserved.
LEMMA LimitInUse ==
  ASSUME TypeOK, Balanced, NEW i \in Inode, ino[i] # "none"
  PROVE  max # 0
  <1> USE SMT, SMTT(30)
  <1>1. i \in Reserved
    BY DEF Reserved
  <1>2. Cardinality(Reserved) # 0
    BY <1>1, CountsAreNat, FS_EmptySet
  <1>3. QED
    BY <1>2, CountsAreNat DEF TypeOK, Balanced

---------------------------------------------------------------------------
(* The count stays exact. *)

\* Steps that neither reserve nor return.
LEMMA BalanceKept ==
  ASSUME Balanced, UNCHANGED <<max, free>>, Reserved' = Reserved, Creating' = Creating
  PROVE  Balanced'
  BY DEF Balanced

\* Steps that move one thread between places other than "new".
LEMMA BalanceMoved ==
  ASSUME TypeOK, Balanced, UNCHANGED <<max, free, ino>>,
         NEW t \in Thread, NEW p, pc' = [pc EXCEPT ![t] = p], pc[t] # "new", p # "new"
  PROVE  Balanced'
  BY CreatingSame, BalanceKept, Zenon DEF Reserved

\* wbc_unreserve_inode() on a reserved inode returns one reservation.
LEMMA BalanceReturned ==
  ASSUME TypeOK, Balanced, NEW i \in Inode, ino[i] # "none", Unreserve(i),
         max' = max, Creating' = Creating
  PROVE  Balanced'
  <1>1. Reserved' = Reserved \ {i} /\ i \in Reserved /\ free' = free + 1
    BY SMT, SMTT(30), LimitInUse, UnreserveSets
  <1>2. Cardinality(Reserved') = Cardinality(Reserved) - 1
    BY <1>1, CountsAreNat, FS_RemoveElement, Zenon
  <1>3. QED
    BY SMT, SMTT(30), <1>1, <1>2, CountsAreNat DEF TypeOK, Balanced

\* wbc_cache_enter() takes a reservation for the creation it starts.
LEMMA CacheEnterBalance ==
  ASSUME TypeOK, Books, Balanced, NEW t \in Syscall, NEW d \in Dir, CacheEnter(t, d)
  PROVE  Balanced'
  <1>0. max # 0 /\ t \in Thread /\ pc[t] = "idle" /\ ino' = ino
    BY DEF CacheEnter, At, Books, Limits, Thread
  <1>1. CASE free = 0
    <2>1. EnterFull(t, d)
      BY <1>0, <1>1 DEF CacheEnter
    <2>2. pc' = [pc EXCEPT ![t] = "want"] /\ UNCHANGED <<max, free, ino>>
      BY SMT, SMTT(30), <1>0, <2>1 DEF EnterFull, Go
    <2>3. QED
      BY <1>0, <2>2, BalanceMoved, Zenon
  <1>2. CASE free # 0
    <2>1. Reserve(t, d)
      BY <1>2 DEF CacheEnter
    <2>2. Cardinality(Creating') = Cardinality(Creating) + 1
      BY SMT, SMTT(30), <1>0, <2>1, CreatingMore
    <2>3. free' = free - 1 /\ max' = max /\ Reserved' = Reserved
      BY SMT, SMTT(30), <1>0, <2>1 DEF Reserve, Reserved
    <2>4. QED
      BY SMT, SMTT(30), <2>2, <2>3, CountsAreNat DEF TypeOK, Balanced
  <1>3. QED
    BY SMT, SMTT(30), <1>1, <1>2

\* wbc_new_node() makes the reservation of a creation that of an inode.
LEMMA NewNodeBalance ==
  ASSUME TypeOK, Balanced, NEW t \in Thread, NEW i \in Inode, NewNode(t, i)
  PROVE  Balanced'
  <1>1. Cardinality(Creating') = Cardinality(Creating) - 1
    BY CreatingLess, Zenon DEF NewNode, At, Go
  <1>2. Cardinality(Reserved') = Cardinality(Reserved) + 1
    BY ReservedMore, Zenon DEF NewNode
  <1>3. QED
    <2>1. max' = max /\ free' = free
      BY DEF NewNode, counters
    <2>2. QED
      BY SMT, SMTT(30), <1>1, <1>2, <2>1, CountsAreNat DEF TypeOK, Balanced

\* wbc_super_conf_update() moves the limit and the free reservations together.
LEMMA ConfUpdateBalance ==
  ASSUME TypeOK, Balanced, Accounted, NEW t \in Admin, NEW n \in conf.limits, ConfUpdate(t, n)
  PROVE  Balanced'
  <1> USE SMT, SMTT(30)
  <1>1. Reserved' = Reserved /\ Creating' = Creating
    BY DEF ConfUpdate, Reserved, Creating, threads
  <1>2. n \in Nat
    BY ConfAssumption DEF TypeOK, Conf
  <1>3. QED
    BY <1>1, <1>2, CountsAreNat DEF ConfUpdate, TypeOK, Balanced

\* All roots are gone when wbc_super_disable_cache() compares its counters.
LEMMA DisableFinds ==
  ASSUME TypeOK, Books, Balanced, NEW t \in Thread, At(t, "assert"), cache = "off",
         conf.mode = "drop" \/ ~May("unlink")
  PROVE  max = free
  <1> USE SMT, SMTT(30)
  <1>1. \A d \in Dir : dst[d] = "none"
    BY DEF At, Books, Limits
  <1>2. Reserved = {} /\ Creating = {}
    BY <1>1, ParentAssumption DEF Books, Rooted, Creators, Reserved, Creating
  <1>3. QED
    BY <1>2, FS_EmptySet DEF TypeOK, Balanced

---------------------------------------------------------------------------
(* The invariant. *)

\* A fresh mount has all its reservations.
LEMMA InitInv == Init => Inv
  <1> USE SMT, SMTT(30)
  <1> SUFFICES ASSUME Init PROVE Inv
    OBVIOUS
  <1>1. Accounted => Books
    BY ThreadAssumption DEF Init, Books, Quiet, Sem, Unlinking, Flushing, Creators, Limits,
                            Rooted, Listed, Clean, Thread, Accounted
  <1>2. Reserved = {} /\ Creating = {}
    BY DEF Init, Reserved, Creating
  <1>3. Balanced
    <2>1. max \in Nat /\ free = max
      BY InitType DEF Init, TypeOK
    <2>2. Cardinality(Reserved) = 0 /\ Cardinality(Creating) = 0
      BY <1>2, FS_EmptySet
    <2>3. QED
      BY <2>1, <2>2 DEF Balanced
  <1>4. QED
    BY <1>1, <1>3, InitType DEF Inv

\* What the outside world starts.
LEMMA EnvironmentInv ==
  ASSUME TypeOK, Accounted, Books, Balanced, Environment
  PROVE  Books' /\ Balanced'
  <1> USE DEF At
  <1>0. conf' = conf
    BY DEF Environment
  <1>1. ASSUME NEW t \in Syscall, NEW d \in Dir, CacheEnter(t, d) PROVE Books' /\ Balanced'
    BY SMT, SMTT(30), <1>0, <1>1, CacheEnterBooks, CacheEnterBalance
  <1>2. ASSUME NEW t \in Syscall, NEW i \in Inode, UnlinkStart(t, i) \/ Ioctl(t, i)
        PROVE  Books' /\ Balanced'
    <2>1. Balanced'
      BY SMT, SMTT(30), <1>2, BalanceMoved DEF UnlinkStart, Ioctl, Go, Thread, counters
    <2>2. QED
      BY SMT, SMTT(30), <1>0, <1>2, <2>1, UnlinkStartBooks, IoctlBooks
  <1>3. ASSUME NEW i \in Inode, UnlinkMdt(i) PROVE Books' /\ Balanced'
    <2>1. Reserved' = Reserved /\ Creating' = Creating
      BY SMT, SMTT(30), <1>3 DEF UnlinkMdt, Reserved, Creating, threads, TypeOK
    <2>2. QED
      BY <1>0, <1>3, <2>1, UnlinkMdtBooks, BalanceKept, Zenon DEF UnlinkMdt, counters
  <1>4. ASSUME NEW i \in Inode, Evict(i) PROVE Books' /\ Balanced'
    <2>1. ino[i] # "none" /\ Unreserve(i) /\ max' = max /\ Creating' = Creating
      BY <1>4 DEF Evict, Creating, threads
    <2>2. QED
      BY SMT, SMTT(30), <1>0, <1>4, <2>1, EvictBooks, LimitInUse, BalanceReturned
  <1>5. ASSUME NEW d \in Dir, Grant(d) PROVE Books' /\ Balanced'
    <2>1. Reserved' = Reserved /\ Creating' = Creating
      BY <1>5 DEF Grant, Reserved, Creating, threads
    <2>2. QED
      BY <1>0, <1>5, <2>1, GrantBooks, BalanceKept, Zenon DEF Grant, counters
  <1>6. ASSUME NEW d \in Dir, LockCallback(d) PROVE Books' /\ Balanced'
    <2>1. Balanced'
      BY <1>6, BalanceMoved, Zenon DEF LockCallback, Go, Thread, counters
    <2>2. QED
      BY SMT, SMTT(30), <1>0, <1>6, <2>1, LockCallbackBooks
  <1>7. ASSUME NEW t \in Admin, NEW n \in conf.limits, ConfUpdate(t, n)
        PROVE  Books' /\ Balanced'
    BY SMT, SMTT(30), <1>0, <1>7, ConfUpdateBooks, ConfUpdateBalance
  <1>8. ASSUME NEW t \in Admin, Disable(t) PROVE Books' /\ Balanced'
    <2>1. Balanced'
      BY <1>8, BalanceMoved, Zenon DEF Disable, Go, Thread
    <2>2. QED
      BY <1>0, <1>8, <2>1, DisableBooks
  <1>9. ASSUME NEW t \in Admin, Enable(t) PROVE FALSE
    BY <1>9 DEF Enable, May, Accounted
  <1>10. QED
    BY <1>1, <1>2, <1>3, <1>4, <1>5, <1>6, <1>7, <1>8, <1>9, Zenon DEF Environment

\* The reclaimer.
LEMMA ReclaimInv ==
  ASSUME TypeOK, Accounted, Books, Balanced, Reclaim
  PROVE  Books' /\ Balanced'
  <1> USE SMT, SMTT(30)
  <1> USE DEF At
  <1>0. conf' = conf
    BY DEF Reclaim
  <1>1. ASSUME ReclaimTop \/ ReclaimEnd PROVE Books' /\ Balanced'
    <2>1. Balanced'
      BY <1>1, BalanceMoved DEF ReclaimTop, ReclaimEnd, Go, Thread, counters
    <2>2. QED
      BY <1>0, <1>1, <2>1, ReclaimTopBooks
  <1>2. ASSUME NEW i \in Inode, ReclaimPick(i) PROVE Books' /\ Balanced'
    <2>1. Creating' = Creating /\ Reserved' = Reserved
      BY <1>2 DEF ReclaimPick, Go, Creating, Reserved, TypeOK
    <2>2. QED
      BY <1>0, <1>2, <2>1, ReclaimPickBooks, BalanceKept DEF ReclaimPick, counters
  <1>3. QED
    BY <1>1, <1>2 DEF Reclaim

\* A thread gets the semaphore.
LEMMA LockInv ==
  ASSUME TypeOK, Accounted, Books, Balanced, NEW t \in Thread, Lock(t)
  PROVE  Books' /\ Balanced'
  <1> USE DEF At
  <1>0. conf' = conf /\ LockDir(t) /\ pc[t] = "want" /\ UNCHANGED <<max, free, ino>>
    BY DEF Lock, LockDir, counters
  <1>1. CASE JobDone(t)
    <2>1. PICK p \in {"loop", "idle", "shrink"} : Go(t, p, NoDir, NoInode)
      BY SMT, SMTT(30), <1>0, <1>1, ReturnOk DEF LockDir, Books
    <2>2. Balanced'
      BY <1>0, <2>1, BalanceMoved, Zenon DEF Go
    <2>3. QED
      BY SMT, SMTT(30), <1>0, <1>1, <2>2, LockReturnBooks
  <1>2. CASE ~JobDone(t)
    <2>1. Balanced'
      BY SMT, SMTT(30), <1>0, <1>2, BalanceMoved DEF LockDir
    <2>2. QED
      BY SMT, SMTT(30), <1>0, <1>2, <2>1, LockFlushBooks
  <1>3. QED
    BY SMT, SMTT(30), <1>1, <1>2

\* The steps inside a call.
LEMMA ProceedInv ==
  ASSUME TypeOK, Accounted, Books, Balanced, NEW t \in Thread, Proceed(t)
  PROVE  Books' /\ Balanced'
  <1> USE DEF At
  <1>0. conf' = conf
    BY DEF Proceed
  <1>1. ASSUME NEW i \in Inode, NewNode(t, i) PROVE Books' /\ Balanced'
    BY SMT, SMTT(30), <1>0, <1>1, NewNodeBooks, NewNodeBalance
  <1>2. ASSUME NEW i \in Inode, FlushChild(t, i) PROVE Books' /\ Balanced'
    <2>1. Creating' = Creating /\ max' = max /\ ino[i] # "none"
      BY SMT, SMTT(30), <1>2 DEF FlushChild, Creating, Books, Flushing
    <2>2. CASE FlushUnreserves(t)
      <3>1. Unreserve(i)
        BY SMT, SMTT(30), <1>2, <2>1, <2>2 DEF FlushChild, UnreserveDput
      <3>2. QED
        BY SMT, SMTT(30), <1>0, <1>2, <2>1, <2>2, <3>1, FlushUnreserveBooks, LimitInUse,
           BalanceReturned
    <2>3. CASE ~FlushUnreserves(t)
      <3>1. UNCHANGED <<max, free>> /\ Reserved' = Reserved
        BY SMT, SMTT(30), <1>2, <2>1, <2>3 DEF FlushChild, Reserved
      <3>2. QED
        BY SMT, SMTT(30), <1>0, <1>2, <2>1, <2>3, <3>1, FlushKeepBooks, BalanceKept
    <2>4. QED
      BY SMT, SMTT(30), <2>2, <2>3
  <1>3. ASSUME UnlinkEnd(t) PROVE Books' /\ Balanced'
    <2>1. /\ node[t] \in Inode /\ ino[node[t]] # "none"
          /\ Unreserve(node[t]) /\ max' = max
      BY <1>3 DEF UnlinkEnd, Books, Unlinking
    <2>2. Creating' = Creating
      BY <1>3, CreatingSame, Zenon DEF UnlinkEnd, Go
    <2>3. QED
      BY SMT, SMTT(30), <1>0, <1>3, <2>1, <2>2, UnlinkEndBooks, LimitInUse, BalanceReturned
  <1>4. ASSUME FlushDone(t) PROVE Books' /\ Balanced'
    <2>0. pc[t] = "flush" /\ rc[t] = "ok" /\ Return(t, rc[t]) /\ UNCHANGED <<max, free, ino>>
      BY SMT, SMTT(30), <1>4 DEF FlushDone, Books, Quiet, counters
    <2>1. PICK p \in {"loop", "idle", "shrink"} : Go(t, p, NoDir, NoInode)
      BY <2>0, ReturnOk DEF Books
    <2>2. Balanced'
      BY <2>0, <2>1, BalanceMoved, Zenon DEF Go
    <2>3. QED
      BY SMT, SMTT(30), <1>0, <1>4, <2>2, FlushDoneBooks
  <1>5. ASSUME (\E d \in Dir : ShrinkRoot(t, d)) \/ ShrinkEnd(t) PROVE Books' /\ Balanced'
    <2>1. Balanced'
      <3>1. /\ pc[t] = "shrink" /\ UNCHANGED <<max, free, ino>>
            /\ \E p \in {"want", "assert"} : pc' = [pc EXCEPT ![t] = p]
        BY SMT, SMTT(30), <1>5 DEF ShrinkRoot, ShrinkEnd, Go, counters
      <3>2. QED
        BY <3>1, BalanceMoved, Zenon
    <2>2. QED
      BY SMT, SMTT(30), <1>0, <1>5, <2>1, ShrinkBooks
  <1>6. ASSUME DisableEnd(t) PROVE Books' /\ Balanced'
    <2>1. Balanced'
      <3>1. Creating' = Creating
        BY <1>6, SMTT(30) DEF DisableEnd, Go, Creating, TypeOK
      <3>2. Reserved' = Reserved
        BY SMT, SMTT(30), <1>6 DEF DisableEnd, Reserved
      <3>3. UNCHANGED <<max, free>> \/ (max = free /\ max' = 0 /\ free' = 0)
        BY SMT, SMTT(30), <1>6 DEF DisableEnd, counters
      <3>4. QED
        BY SMT, SMTT(30), <3>1, <3>2, <3>3, CountsAreNat DEF TypeOK, Balanced
    <2>2. (conf.mode = "drop" \/ ~May("unlink")) /\ cache = "off" => max = free
      BY SMT, SMTT(30), <1>6, DisableFinds DEF DisableEnd
    <2>3. QED
      BY SMT, SMTT(30), <1>0, <1>6, <2>1, <2>2, DisableEndBooks
  <1>7. ASSUME IoctlCheck(t) \/ IoctlUnreserve(t) PROVE FALSE
    BY SMT, SMTT(30), <1>7 DEF IoctlCheck, IoctlUnreserve, Books, Quiet
  <1>8. ASSUME NewNodeNoInode(t) \/ NewNodeFails(t) PROVE FALSE
    BY <1>8 DEF NewNodeNoInode, NewNodeFails, Faulty, Accounted
  <1>9. ASSUME NEW i \in Inode, FlushChildRefused(t, i) \/ FlushChildFails(t, i) PROVE FALSE
    BY <1>9 DEF FlushChildRefused, FlushChildFails, Faulty, Accounted
  <1>10. QED
    BY SMT, SMTT(30), <1>1, <1>2, <1>3, <1>4, <1>5, <1>6, <1>7, <1>8, <1>9 DEF Proceed

\* Inv is inductive.
LEMMA NextInv == Inv /\ [Next]_vars => Inv'
  <1> SUFFICES ASSUME Inv, [Next]_vars PROVE Inv'
    OBVIOUS
  <1>1. TypeOK /\ TypeOK'
    BY NextType DEF Inv
  <1>2. CASE UNCHANGED vars
    <2> USE <1>2 DEF vars, counters, threads
    <2>a. (Quiet' <=> Quiet) /\ (Sem' <=> Sem) /\ (Unlinking' <=> Unlinking)
      BY SMT, SMTT(30) DEF Quiet, Sem, Unlinking
    <2>b. (Flushing' <=> Flushing) /\ (Creators' <=> Creators)
      BY SMT, SMTT(30) DEF Flushing, FlushUnreserves, Decompletes, Creators
    <2>c. (Limits' <=> Limits) /\ (Listed' <=> Listed)
      BY SMT, SMTT(30) DEF Limits, Listed, Reserved
    <2>d. (Rooted' <=> Rooted) /\ (Clean' <=> Clean)
      BY SMT, SMTT(30) DEF Rooted, Clean, May
    <2>1. Books' <=> Books
      BY SMT, SMTT(30), <2>a, <2>b, <2>c, <2>d DEF Books
    <2>2. Balanced' <=> Balanced
      BY SMT, SMTT(30) DEF Balanced, Reserved, Creating
    <2>3. Accounted' <=> Accounted
      BY DEF Accounted
    <2>4. QED
      BY <1>1, <2>1, <2>2, <2>3, Zenon DEF Inv
  <1>3. CASE Next
    <2>1. Accounted' <=> Accounted
      BY <1>3, Zenon DEF Next, Environment, Reclaim, Proceed, Lock, Accounted
    <2>2. ASSUME Accounted, Books, Balanced PROVE Books' /\ Balanced'
      BY SMT, SMTT(30), <1>1, <1>3, <2>2, EnvironmentInv, ReclaimInv, LockInv, ProceedInv DEF Next
    <2>3. QED
      BY SMT, SMTT(30), <1>1, <2>1, <2>2 DEF Inv
  <1>4. QED
    BY SMT, SMTT(30), <1>2, <1>3

\* Inv always holds.
LEMMA Invariance == Spec => []Inv
  BY InitInv, NextInv, PTL DEF Spec

\* Every variable keeps its type, whatever fails: wbcc_free_inodes is never taken
\* below zero by wbc_reserve_inode() or by a smaller limit.
THEOREM TypeAlways == Spec => []TypeOK
  <1>1. Inv => TypeOK
    BY DEF Inv
  <1>2. QED
    BY <1>1, Invariance, PTL

\* wbcc_free_inodes accounts for every reservation, for any number of threads,
\* directories and inodes and any sequence of limits.
THEOREM ConservationAlways == Spec => []Conservation
  <1>1. Inv => Conservation
    BY SMT, SMTT(30) DEF Inv, Balanced, Conservation
  <1>2. QED
    BY <1>1, Invariance, PTL

\* wbcs_rsvd_inode_lru never holds an inode whose reservation is gone.
THEOREM LruLiveAlways == Spec => []LruLive
  <1>1. Inv => LruLive
    BY SMT, SMTT(30) DEF Inv, Books, Listed, LruLive
  <1>2. QED
    BY <1>1, Invariance, PTL

\* The assertion of wbc_super_disable_cache() holds where no unlinked file of a
\* decompleted directory can be open.
THEOREM DisableCleanAlways == Spec => []DisableClean
  <1>1. Inv => DisableClean
    BY DEF Inv, Books, Clean, DisableClean
  <1>2. QED
    BY <1>1, Invariance, PTL

==============================================================================
