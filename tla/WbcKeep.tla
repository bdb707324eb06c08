------------------------------- MODULE WbcKeep -------------------------------
(***************************************************************************)
(* Metadata writeback in the lock-keep flush modes: directories and        *)
(* special files are created in MemFS under a root directory that holds    *)
(* the WBC EX lock and are written to the MDT later, without giving the    *)
(* lock back.  Several threads write the same inodes:                      *)
(*   "kf"       the kernel flusher, calling wbc_write_inode(),             *)
(*   "pf"       the work function of wbc.c, wbc_workfn(),                  *)
(*   Fsyncers   threads in memfs_fsync() -> wbc_make_inode_sync(),         *)
(*   "rm"       a thread in memfs_unlink() / memfs_rmdir().                *)
(* They agree through two bits per inode: the kernel's I_SYNC, held over a *)
(* call of ->write_inode(), and WBC_STATE_FL_WRITEBACK, held until the     *)
(* MDT has answered.  Regular files are left out, and with them the        *)
(* commit of cached pages (wbc_make_inode_assimilated() returns 0 for      *)
(* every inode here).                                                      *)
(***************************************************************************)
EXTENDS Integers, Sequences

CONSTANTS
  Node,       \* the inodes of one cached subtree
  NoNode,     \* the directory above the subtree, outside the cache
  Parent,     \* the parent of each node; NoNode for the root
  Fsyncers,   \* threads that may call fsync(2)
  Confs,      \* the configurations to consider
  RmOrder,    \* "empty": the application removes the entries of a directory first; "any": it may not
  Faults      \* which of FaultKinds can happen

\* prep: wbc_prep_op_item() fails; submit: md_reint_async() or md_batch_add()
\* fails; create: the MDT refuses a create; rmfid: md_rmfid() fails.
FaultKinds == {"prep", "submit", "create", "rmfid"}

Thread == {"kf", "pf", "rm"} \cup Fsyncers

\* A mount and the threads at work on it.
\*   mode     wbci_flush_mode          pol      wbcc_flush_pol
\*   rmpol    wbcc_rmpol               threads  who runs; "pf" needs wb_dirty_flush_thresh > 0
\*   kfmodes  sync modes the kernel flusher is asked for
\*   nodes, removable, setattrs: what the application creates and removes, and how
\*   often it calls setattr
Conf == [mode : {"AGING_KEEP", "LAZY_KEEP"}, pol : {"PTLRPCD", "BATCH", "RQSET"},
         rmpol : {"SYNC", "DELAY"}, threads : SUBSET Thread, kfmodes : SUBSET {"none", "all"},
         nodes : SUBSET Node, removable : SUBSET Node, setattrs : Nat]

ASSUME NodeAssumption == NoNode \notin Node /\ Parent \in [Node -> Node \cup {NoNode}]
ASSUME ThreadAssumption == {"kf", "pf", "rm"} \cap Fsyncers = {}
\* The entry of the root is in a directory outside the cache: memfs does not remove it.
ASSUME ConfAssumption == \A c \in Confs : c \in Conf /\ \A i \in c.removable : Parent[i] # NoNode
ASSUME FaultAssumption == RmOrder \in {"empty", "any"} /\ Faults \subseteq FaultKinds

VARIABLES
  conf,     \* the configuration, fixed at the start
  st,       \* "absent", "cached", or "gone" once unlinked
  flags,    \* wbci_flags without the bits every cached node has
  dflags,   \* wbci_dirty_flags
  isync,    \* the inodes with I_SYNC
  dirty,    \* the inodes with I_DIRTY
  older,    \* order of the writeback list: <<j, i>> when j was queued before i
  removed,  \* wbci_removed_list of each directory
  mdt,      \* what exists on the MDT
  rpc,      \* creates of each node that are sent, or answered "ok" or "err"
  batch,    \* creates in pf's unsent batch
  work,     \* directories in wb_work_list
  pc, at, op, rc,  \* each thread: step, inode, opcode and return code
  kfmode,   \* sync mode of the kernel flusher's current pass
  pfdir, todo,     \* pf: directory of the work item, children still to visit
  target, list,    \* fsync: inode asked for, fsync_list
  nset,     \* setattr calls so far
  panic     \* the first LASSERT that fails

inode == <<st, flags, dflags>>
wblist == <<isync, dirty, older>>
server == <<mdt, rpc>>
pfvars == <<batch, work, pfdir, todo>>
fsvars == <<target, list>>
misc == <<removed, nset, panic, kfmode>>
vars == <<conf, st, flags, dflags, isync, dirty, older, removed, mdt, rpc, batch, work,
          pc, at, op, rc, kfmode, pfdir, todo, target, list, nset, panic>>

RpcState == {"sent", "ok", "err"}

TypeOK ==
  /\ conf \in Confs
  /\ st \in [Node -> {"absent", "cached", "gone"}]
  /\ flags \in [Node -> SUBSET {"SYNC", "WRITEBACK", "FREEING"}]
  /\ dflags \in [Node -> SUBSET {"ATTR", "REMOVE", "FLUSHING"}]
  /\ isync \subseteq Node /\ dirty \subseteq Node /\ older \subseteq Node \X Node
  /\ removed \in [Node -> SUBSET Node]
  /\ mdt \subseteq Node /\ rpc \in [Node -> [RpcState -> Nat]]
  /\ batch \subseteq Node /\ work \subseteq Node
  /\ pc \in [Thread -> {"idle", "dep1", "dep2", "opc", "opcw", "send", "sync",
                        "reply", "finish", "pwork", "pnext", "pbg", "pfini",
                        "w1", "w2", "w3", "t1", "t2", "r1", "r2", "r3", "r4"}]
  /\ at \in [Thread -> Node \cup {NoNode}]
  /\ op \in [Thread -> {"NONE", "CREATE", "SETATTR", "REMOVE"}]
  /\ rc \in [Thread -> {"ok", "err", "undef"}]
  /\ kfmode \in {"none", "all"}
  /\ pfdir \in Node \cup {NoNode} /\ todo \subseteq Node
  /\ target \in [Fsyncers -> Node \cup {NoNode}] /\ list \in [Fsyncers -> Seq(Node)]
  /\ nset \in Nat /\ nset <= conf.setattrs
  /\ panic \in {"none", "was_flushed", "writing", "written_out"}

\* The root came from an intent that was granted the EX lock: it is on the MDT.
Init ==
  /\ conf \in Confs
  /\ st = [i \in Node |-> IF Parent[i] = NoNode THEN "cached" ELSE "absent"]
  /\ flags = [i \in Node |-> IF Parent[i] = NoNode THEN {"SYNC"} ELSE {}]
  /\ dflags = [i \in Node |-> {}]
  /\ isync = {} /\ dirty = {} /\ older = {}
  /\ removed = [i \in Node |-> {}]
  /\ mdt = {i \in Node : Parent[i] = NoNode}
  /\ rpc = [i \in Node |-> [s \in RpcState |-> 0]]
  /\ batch = {} /\ work = {}
  /\ pc = [t \in Thread |-> "idle"] /\ at = [t \in Thread |-> NoNode]
  /\ op = [t \in Thread |-> "NONE"] /\ rc = [t \in Thread |-> "ok"]
  /\ kfmode = "none" /\ pfdir = NoNode /\ todo = {}
  /\ target = [p \in Fsyncers |-> NoNode] /\ list = [p \in Fsyncers |-> <<>>]
  /\ nset = 0 /\ panic = "none"

Running == panic = "none"

Goto(t, l) == pc' = [pc EXCEPT ![t] = l]

SetFlag(i, f) == flags' = [flags EXCEPT ![i] = @ \cup {f}]
ClearFlag(i, f) == flags' = [flags EXCEPT ![i] = @ \ {f}]

\* An inode under writeback stays on the list until it is requeued.
Listed == dirty \cup isync

\* mark_inode_dirty() of the kernel: a clean inode goes to the tail of the list.
MarkDirty(i) ==
  /\ dirty' = dirty \cup {i}
  /\ older' = IF i \in Listed THEN older ELSE older \cup (Listed \X {i})

Delist(i) == {e \in older : e[1] # i /\ e[2] # i}

Oldest(S) == {i \in S : \A j \in S : <<j, i>> \notin older}

---------------------------------------------------------------------------
(* The application. *)

\* wbc_cache_enter(), wbc_new_node(): a new node is dirty in the aging modes.
Create(i) ==
  /\ Running /\ st[i] = "absent" /\ i \in conf.nodes
  /\ Parent[i] \in Node /\ st[Parent[i]] = "cached"
  /\ "FREEING" \notin flags[Parent[i]]
  /\ st' = [st EXCEPT ![i] = "cached"]
  /\ IF conf.mode = "AGING_KEEP" THEN MarkDirty(i) ELSE UNCHANGED <<dirty, older>>
  /\ UNCHANGED <<flags, dflags, isync, server, pfvars, fsvars, misc, pc, at, op, rc>>

\* Mutant: the inode is not marked dirty.
SetattrNoDirty(i) ==
  /\ Running /\ nset < conf.setattrs
  /\ st[i] = "cached" /\ "FREEING" \notin flags[i]
  /\ dflags' = [dflags EXCEPT ![i] = @ \cup {"ATTR"}]
  /\ nset' = nset + 1
  /\ UNCHANGED <<st, flags, wblist, server, pfvars, fsvars, removed, panic, kfmode,
                 pc, at, op, rc>>

\* memfs_setattr().  The VFS holds off calls on an inode that is being unlinked.
Setattr(i) ==
  /\ Running /\ nset < conf.setattrs
  /\ st[i] = "cached" /\ "FREEING" \notin flags[i]
  /\ dflags' = [dflags EXCEPT ![i] = @ \cup {"ATTR"}]
  /\ IF conf.mode = "AGING_KEEP" THEN MarkDirty(i) ELSE UNCHANGED <<dirty, older>>
  /\ nset' = nset + 1
  /\ UNCHANGED <<st, flags, isync, server, pfvars, fsvars, removed, panic, kfmode,
                 pc, at, op, rc>>

---------------------------------------------------------------------------
(* ->write_inode(), run by kf, pf and the fsync threads. *)

ForFsync(t) == t \in Fsyncers
ForPflush(t) == t = "pf"
SyncAll(t) == ForFsync(t) \/ (t = "kf" /\ kfmode = "all")
\* pf writes the children of a work item without taking I_SYNC.
NoISync(t) == t = "pf" /\ pfdir # NoNode

\* The caller of ->write_inode() takes I_SYNC and clears I_DIRTY first.
\* wbc_write_inode() then ignores lazy inodes unless it is called for fsync(2), and
\* checks the flush dependency for WB_SYNC_NONE only; all: the mode is WB_SYNC_ALL.
WriteInode(t, i, all) ==
  /\ isync' = isync \cup {i} /\ dirty' = dirty \ {i}
  /\ at' = [at EXCEPT ![t] = i]
  /\ Goto(t, IF conf.mode = "LAZY_KEEP" /\ ~ForFsync(t) THEN "finish"
             ELSE IF all THEN "opc" ELSE "dep1")

\* wbc_flush_dependency_check(): wait for the parent's I_SYNC ...
DependencyISync(t) ==
  /\ Running /\ pc[t] = "dep1" /\ Parent[at[t]] \notin isync
  /\ Goto(t, "dep2")
  /\ UNCHANGED <<inode, wblist, server, pfvars, fsvars, misc, at, op, rc>>

Busy(i) == i # NoNode /\ "WRITEBACK" \in flags[i]

EndDependency(t) ==
  /\ IF "FREEING" \in flags[at[t]]
       THEN isync' = isync \ {at[t]} /\ Goto(t, "finish")
       ELSE Goto(t, "opc") /\ UNCHANGED isync
  /\ UNCHANGED <<inode, dirty, older, server, pfvars, fsvars, misc, at, op, rc>>

\* Mutant: only I_SYNC is waited for, not the answer of the MDT.
DependencyWritebackNoWait(t) == Running /\ pc[t] = "dep2" /\ EndDependency(t)

\* ... and for its WRITEBACK; an inode being unlinked is left alone.
DependencyWriteback(t) ==
  /\ Running /\ pc[t] = "dep2" /\ ~Busy(Parent[at[t]])
  /\ EndDependency(t)

SendBatch ==
  /\ rpc' = [i \in Node |-> [rpc[i] EXCEPT !["sent"] = @ + IF i \in batch THEN 1 ELSE 0]]
  /\ batch' = {}

\* Mutant: the waiter sleeps without sending.
DependencyCommitNothing(t) == FALSE

\* A waiter with an I/O context sends what the context holds before it sleeps.
DependencyCommit(t) ==
  /\ Running /\ t = "pf" /\ pc[t] = "dep2" /\ Busy(Parent[at[t]]) /\ batch # {}
  /\ SendBatch
  /\ UNCHANGED <<inode, wblist, mdt, work, pfdir, todo, fsvars, misc, pc, at, op, rc>>

\* wbc_flush_opcode_get(): what there is to write, in a lock-keep mode and outside
\* of a lock callback.
Opcode(i) ==
  IF "SYNC" \notin flags[i] THEN "CREATE"
  ELSE IF "REMOVE" \in dflags[i] THEN "REMOVE"
  ELSE IF "ATTR" \in dflags[i] THEN "SETATTR" ELSE "NONE"

\* What follows ->write_inode(), or pf's call of wbcfs_writeback_dir_child().
AfterWrite(t) == IF NoISync(t) THEN "pnext" ELSE "finish"

GetOpcode(t) ==
  LET i == at[t]
      o == IF "FREEING" \in flags[i] THEN "NONE" ELSE Opcode(i)
  IN /\ dflags' = IF Opcode(i) = "NONE" THEN dflags
                  ELSE [dflags EXCEPT ![i] = {"FLUSHING"}]
     /\ op' = [op EXCEPT ![t] = o]
     /\ rc' = [rc EXCEPT ![t] = IF o = "NONE" THEN "ok" ELSE @]
     /\ IF o = "NONE" THEN UNCHANGED flags ELSE SetFlag(i, "WRITEBACK")
     /\ Goto(t, IF o = "NONE" THEN AfterWrite(t)
                ELSE IF o = "CREATE" /\ ~SyncAll(t) THEN "send" ELSE "sync")
     /\ UNCHANGED <<st, wblist, server, pfvars, fsvars, misc, at>>

NothingToWrite(t) ==
  /\ Goto(t, AfterWrite(t))
  /\ rc' = [rc EXCEPT ![t] = "ok"]
  /\ UNCHANGED <<inode, wblist, server, pfvars, fsvars, misc, at, op>>

WaitForAnswer(t) ==
  /\ Goto(t, "opcw")
  /\ UNCHANGED <<inode, wblist, server, pfvars, fsvars, misc, at, op, rc>>

\* Mutant: a writer does not wait for the answer to an earlier write.
OpcodeGetNoWait(t) == Running /\ pc[t] = "opc" /\ GetOpcode(t)

OpcodeGet(t) ==
  /\ Running /\ pc[t] = "opc"
  /\ LET fl == flags[at[t]]
         busy == "WRITEBACK" \in fl
     IN \/ ("FREEING" \in fl \/ (ForPflush(t) /\ busy)) /\ NothingToWrite(t)
        \/ "FREEING" \notin fl /\ busy /\ ~ForPflush(t) /\ ~ForFsync(t) /\ WaitForAnswer(t)
        \/ "FREEING" \notin fl /\ (~busy \/ ForFsync(t)) /\ GetOpcode(t)

OpcodeWaited(t) ==
  /\ Running /\ pc[t] = "opcw" /\ "WRITEBACK" \notin flags[at[t]]
  /\ GetOpcode(t)

\* wbcfs_writeback_dir_child() of a thread with an I/O context knows no request sets.
NoPolicy(t) == t = "pf" /\ conf.pol = "RQSET"

\* wbcfs_writeback_dir_child() sends a create.  When it cannot, WRITEBACK stays set.
SubmitCreate(t) ==
  /\ Running /\ pc[t] = "send" /\ ~NoPolicy(t)
  /\ IF t = "pf" /\ conf.pol = "BATCH"
       THEN batch' = batch \cup {at[t]} /\ UNCHANGED rpc
       ELSE rpc' = [rpc EXCEPT ![at[t]] = [rpc[at[t]] EXCEPT !["sent"] = @ + 1]] /\ UNCHANGED batch
  /\ rc' = [rc EXCEPT ![t] = "ok"]
  /\ Goto(t, AfterWrite(t))
  /\ UNCHANGED <<inode, wblist, mdt, work, pfdir, todo, fsvars, misc, at, op>>

SubmitFails(t) ==
  /\ Running /\ pc[t] = "send" /\ (NoPolicy(t) \/ {"prep", "submit"} \cap Faults # {})
  /\ rc' = [rc EXCEPT ![t] = "err"]
  /\ Goto(t, AfterWrite(t))
  /\ UNCHANGED <<inode, wblist, server, pfvars, fsvars, misc, at, op>>

\* The MDT creates a node once, in a directory it knows.
CanCreate(i) == Parent[i] \in mdt /\ i \notin mdt

\* Nodes the MDT can unlink together.
CanUnlink(S) == {x \in S : \A y \in mdt \ S : Parent[y] # x}

\* The blocking RPC of wbc_do_create(), wbc_do_setattr() or wbc_do_rmfid().
SyncRpc(t) ==
  LET i == at[t] IN
  /\ Running /\ pc[t] = "sync"
  /\ \/ /\ op[t] = "CREATE" /\ CanCreate(i)
        /\ mdt' = mdt \cup {i} /\ rc' = [rc EXCEPT ![t] = "ok"]
        /\ UNCHANGED removed
     \/ /\ op[t] = "CREATE" /\ (~CanCreate(i) \/ "create" \in Faults)
        /\ rc' = [rc EXCEPT ![t] = "err"]
        /\ UNCHANGED <<mdt, removed>>
     \/ /\ op[t] = "SETATTR"
        /\ rc' = [rc EXCEPT ![t] = "ok"]
        /\ UNCHANGED <<mdt, removed>>
     \/ /\ op[t] = "REMOVE"
        /\ mdt' = mdt \ CanUnlink(removed[i]) /\ removed' = [removed EXCEPT ![i] = {}]
        /\ rc' = [rc EXCEPT ![t] = "ok"]
     \/ /\ op[t] = "REMOVE" /\ "rmfid" \in Faults
        /\ removed' = [removed EXCEPT ![i] = {}]
        /\ rc' = [rc EXCEPT ![t] = "err"]
        /\ UNCHANGED mdt
  /\ Goto(t, "reply")
  /\ UNCHANGED <<inode, wblist, rpc, pfvars, fsvars, nset, panic, kfmode, at, op>>

\* Mutant: WRITEBACK is left to wbc_make_inode_sync() whoever the caller is.
SyncDoneKeeps(t) ==
  LET i == at[t] IN
  /\ Running /\ pc[t] = "reply"
  /\ dflags' = [dflags EXCEPT ![i] = @ \ {"FLUSHING"}]
  /\ flags' = [flags EXCEPT ![i] = @ \cup IF op[t] = "CREATE" /\ rc[t] = "ok" THEN {"SYNC"} ELSE {}]
  /\ Goto(t, AfterWrite(t))
  /\ UNCHANGED <<st, wblist, server, pfvars, fsvars, misc, at, op, rc>>

\* The rest of wbc_inode_flush_lockless_sync() or of the branch taken in
\* wbcfs_writeback_dir_child().
SyncDone(t) ==
  LET i == at[t]
      keep == op[t] = "CREATE" /\ ForFsync(t)   \* wbc_make_inode_sync() clears it
      sync == IF op[t] = "CREATE" /\ rc[t] = "ok" THEN {"SYNC"} ELSE {}
  IN
  /\ Running /\ pc[t] = "reply"
  /\ IF "WRITEBACK" \in flags[i] /\ "FLUSHING" \in dflags[i]
       THEN /\ dflags' = [dflags EXCEPT ![i] = @ \ {"FLUSHING"}]
            /\ flags' = [flags EXCEPT ![i] = (@ \cup sync) \ IF keep THEN {} ELSE {"WRITEBACK"}]
            /\ Goto(t, AfterWrite(t))
            /\ UNCHANGED panic
       ELSE panic' = "writing" /\ UNCHANGED <<flags, dflags, pc>>
  /\ UNCHANGED <<st, wblist, server, pfvars, fsvars, removed, nset, kfmode, at, op, rc>>

\* Mutant: fsync(2) does not clear WRITEBACK.
FinishKeeps(t) ==
  LET i == at[t] IN
  /\ Running /\ pc[t] = "finish"
  /\ isync' = isync \ {i}
  /\ older' = IF i \in dirty THEN older ELSE Delist(i)
  /\ at' = [at EXCEPT ![t] = NoNode]
  /\ Goto(t, IF ForFsync(t) THEN "t1" ELSE IF t = "pf" THEN "pbg" ELSE "idle")
  /\ UNCHANGED <<inode, dirty, server, pfvars, fsvars, misc, op, rc>>

\* I_SYNC is dropped.  The flushers requeue an inode that is dirty again at the tail
\* (requeue_inode()); sync_inode() leaves it where it is.
Finish(t) ==
  LET i == at[t] IN
  /\ Running /\ pc[t] = "finish"
  /\ isync' = isync \ {i}
  /\ older' = IF i \notin dirty THEN Delist(i)
              ELSE IF ForFsync(t) THEN older
              ELSE Delist(i) \cup ((Listed \ {i}) \X {i})
  /\ IF ForFsync(t) THEN ClearFlag(i, "WRITEBACK") ELSE UNCHANGED flags
  /\ at' = [at EXCEPT ![t] = NoNode]
  /\ Goto(t, IF ForFsync(t) THEN "t1" ELSE IF t = "pf" THEN "pbg" ELSE "idle")
  /\ UNCHANGED <<st, dflags, dirty, server, pfvars, fsvars, misc, op, rc>>

---------------------------------------------------------------------------
(* Asynchronous creates. *)

\* The MDT executes one create; requests may overtake each other.
MdtCreate(i) ==
  /\ Running /\ rpc[i]["sent"] > 0
  /\ \/ /\ CanCreate(i)
        /\ mdt' = mdt \cup {i}
        /\ rpc' = [rpc EXCEPT ![i] = [rpc[i] EXCEPT !["sent"] = @ - 1, !["ok"] = @ + 1]]
     \/ /\ ~CanCreate(i) \/ "create" \in Faults
        /\ rpc' = [rpc EXCEPT ![i] = [rpc[i] EXCEPT !["sent"] = @ - 1, !["err"] = @ + 1]]
        /\ UNCHANGED mdt
  /\ UNCHANGED <<inode, wblist, pfvars, fsvars, misc, pc, at, op, rc>>

HasDirents(i) == \E c \in Node : Parent[c] = i /\ st[c] = "cached"

\* wbc_create_lockless_cb(), run by ptlrpcd: WRITEBACK ends with either answer.  A
\* directory with children is queued for pf (wbcd_dirent_num > 2 scaled to 1).
CreateOk(i) ==
  /\ Running /\ rpc[i]["ok"] > 0
  /\ rpc' = [rpc EXCEPT ![i] = [rpc[i] EXCEPT !["ok"] = @ - 1]]
  /\ flags' = [flags EXCEPT ![i] = (@ \cup {"SYNC"}) \ {"WRITEBACK"}]
  /\ dflags' = [dflags EXCEPT ![i] = @ \ {"FLUSHING"}]
  /\ work' = IF "pf" \in conf.threads /\ HasDirents(i) THEN work \cup {i} ELSE work
  /\ UNCHANGED <<st, wblist, mdt, batch, pfdir, todo, fsvars, misc, pc, at, op, rc>>

CreateErr(i) ==
  /\ Running /\ rpc[i]["err"] > 0
  /\ rpc' = [rpc EXCEPT ![i] = [rpc[i] EXCEPT !["err"] = @ - 1]]
  /\ ClearFlag(i, "WRITEBACK")
  /\ UNCHANGED <<st, dflags, wblist, mdt, pfvars, fsvars, misc, pc, at, op, rc>>

---------------------------------------------------------------------------
(* The kernel flusher. *)

\* writeback_sb_inodes(): the oldest inode; one with I_SYNC is skipped, or waited for
\* in a WB_SYNC_ALL pass.
KfPick(i) ==
  /\ Running /\ "kf" \in conf.threads /\ pc["kf"] = "idle"
  /\ kfmode' \in conf.kfmodes
  /\ i \in Oldest(IF kfmode' = "all" THEN Listed ELSE dirty \ isync) /\ i \notin isync
  /\ WriteInode("kf", i, kfmode' = "all")
  /\ UNCHANGED <<inode, older, server, pfvars, fsvars, removed, nset, panic, op, rc>>

---------------------------------------------------------------------------
(* wbc_workfn(): the work items first, then a background pass. *)

\* Woken by wb_queue_work(), or by wbc_check_dirty_flush() above the threshold.
PfStart ==
  /\ Running /\ "pf" \in conf.threads /\ pc["pf"] = "idle" /\ (work # {} \/ dirty # {})
  /\ Goto("pf", "pwork")
  /\ UNCHANGED <<inode, wblist, server, pfvars, fsvars, misc, at, op, rc>>

\* get_next_work_item().  The order of the work list is left open.
PfTakeWork(d) ==
  /\ Running /\ pc["pf"] = "pwork" /\ d \in work
  /\ work' = work \ {d} /\ pfdir' = d
  /\ todo' = {i \in Node : Parent[i] = d /\ st[i] = "cached"}
  /\ rc' = [rc EXCEPT !["pf"] = "undef"]
  /\ Goto("pf", "pnext")
  /\ UNCHANGED <<inode, wblist, server, batch, fsvars, misc, at, op>>

LeaveItem(l) == pfdir' = NoNode /\ todo' = {} /\ Goto("pf", l)

\* wb_writeback_parallel(), one child.  I_SYNC is read without a lock.  rc is tested
\* after a child that was skipped, even if it was never assigned.
PfChild(i) ==
  /\ Running /\ pc["pf"] = "pnext" /\ i \in todo /\ rc["pf"] # "err"
  /\ \/ /\ st[i] = "cached" /\ i \notin isync
        /\ at' = [at EXCEPT !["pf"] = i] /\ Goto("pf", "opc")
        /\ todo' = todo \ {i} /\ UNCHANGED pfdir
     \/ /\ st[i] # "cached" \/ i \in isync
        /\ todo' = todo \ {i} /\ UNCHANGED <<at, pc, pfdir>>
     \/ /\ st[i] = "cached" /\ i \in isync /\ rc["pf"] = "undef"
        /\ LeaveItem("pfini") /\ UNCHANGED at
  /\ UNCHANGED <<inode, wblist, server, batch, work, fsvars, misc, op, rc>>

PfEndItem ==
  /\ Running /\ pc["pf"] = "pnext"
  /\ \/ todo = {} /\ rc["pf"] # "err" /\ LeaveItem("pwork")
     \/ rc["pf"] = "err" /\ LeaveItem("pfini")
     \/ todo = {} /\ rc["pf"] = "undef" /\ LeaveItem("pfini")
  /\ UNCHANGED <<inode, wblist, server, batch, work, fsvars, misc, at, op, rc>>

\* wbcfs_context_commit() once wb_work_list is empty.
PfCommit ==
  /\ Running /\ pc["pf"] = "pwork" /\ work = {}
  /\ SendBatch
  /\ Goto("pf", "pbg")
  /\ UNCHANGED <<inode, wblist, mdt, work, pfdir, todo, fsvars, misc, at, op, rc>>

WrittenOut(i) == i = NoNode \/ "SYNC" \in flags[i]

\* wbc_inode_check_parent() leaves its result unset when the parent is not flushed.
CheckParent(i) == IF WrittenOut(Parent[i]) THEN {TRUE} ELSE BOOLEAN

\* wbc_writeback_sb_inodes(): the oldest inode, given up when it is being written.
PfBackground(i) ==
  /\ Running /\ pc["pf"] = "pbg" /\ i \in Oldest(Listed)
  /\ \E ok \in CheckParent(i) :
       IF ok /\ i \notin isync /\ "WRITEBACK" \notin flags[i]
         THEN WriteInode("pf", i, FALSE)
         ELSE Goto("pf", "pfini") /\ UNCHANGED <<isync, dirty, at>>
  /\ UNCHANGED <<inode, older, server, pfvars, fsvars, misc, op, rc>>

PfBackgroundDone ==
  /\ Running /\ pc["pf"] = "pbg" /\ Listed = {}
  /\ Goto("pf", "pfini")
  /\ UNCHANGED <<inode, wblist, server, pfvars, fsvars, misc, at, op, rc>>

\* wbcfs_context_fini() sends what is left.
PfFini ==
  /\ Running /\ pc["pf"] = "pfini"
  /\ SendBatch
  /\ Goto("pf", "idle") /\ at' = [at EXCEPT !["pf"] = NoNode]
  /\ UNCHANGED <<inode, wblist, mdt, work, pfdir, todo, fsvars, misc, op, rc>>

---------------------------------------------------------------------------
(* memfs_fsync() -> wbc_make_inode_sync() -> wbc_flush_ancestors_topdown(). *)

FsyncStart(p, i) ==
  /\ Running /\ pc[p] = "idle" /\ p \in conf.threads
  /\ st[i] = "cached" /\ {"FREEING", "SYNC"} \cap flags[i] = {}
  /\ at' = [at EXCEPT ![p] = i] /\ target' = [target EXCEPT ![p] = i]
  /\ rc' = [rc EXCEPT ![p] = "ok"]
  /\ Goto(p, "w1")
  /\ UNCHANGED <<inode, wblist, server, pfvars, list, misc, op>>

\* Mutant: the ancestors are written bottom up.
ClimbAppend(p) ==
  LET i == at[p] IN
  \/ /\ WrittenOut(i) /\ Goto(p, "t1")
     /\ UNCHANGED <<flags, list, at>>
  \/ /\ ~WrittenOut(i)
     /\ SetFlag(i, "WRITEBACK")
     /\ list' = [list EXCEPT ![p] = Append(@, i)]
     /\ at' = [at EXCEPT ![p] = Parent[i]]
     /\ Goto(p, "w1")

\* The walk upwards, holding i_lock except while it waits.
Climb(p) ==
  LET i == at[p] IN
  \/ /\ WrittenOut(i) /\ Goto(p, "t1")
     /\ UNCHANGED <<flags, list, at>>
  \/ /\ ~WrittenOut(i)
     /\ SetFlag(i, "WRITEBACK")
     /\ list' = [list EXCEPT ![p] = <<i>> \o @]
     /\ at' = [at EXCEPT ![p] = Parent[i]]
     /\ Goto(p, "w1")

FsyncWalk(p) ==
  LET i == at[p] IN
  /\ Running /\ pc[p] = "w1"
  /\ \/ ~WrittenOut(i) /\ Busy(i)
        /\ Goto(p, "w2") /\ UNCHANGED <<flags, list, at>>
     \/ ~WrittenOut(i) /\ ~Busy(i) /\ i \in isync
        /\ Goto(p, "w3") /\ UNCHANGED <<flags, list, at>>
     \/ (WrittenOut(i) \/ (~Busy(i) /\ i \notin isync))
        /\ Climb(p)
  /\ UNCHANGED <<st, dflags, wblist, server, pfvars, target, misc, op, rc>>

\* LASSERT(wbc_inode_was_flushed(wbci)) after WRITEBACK has gone.
FsyncWaitWriteback(p) ==
  /\ Running /\ pc[p] = "w2" /\ ~Busy(at[p])
  /\ IF WrittenOut(at[p]) THEN Goto(p, "t1") /\ UNCHANGED panic
     ELSE panic' = "was_flushed" /\ UNCHANGED pc
  /\ UNCHANGED <<inode, wblist, server, pfvars, fsvars, removed, nset, kfmode, at, op, rc>>

\* After I_SYNC has gone WRITEBACK is not looked at again.
FsyncWaitISync(p) ==
  /\ Running /\ pc[p] = "w3" /\ at[p] \notin isync
  /\ Climb(p)
  /\ UNCHANGED <<st, dflags, wblist, server, pfvars, target, misc, op, rc>>

\* The next inode from the top; after an error WRITEBACK is only cleared.
FsyncNext(p) ==
  LET i == Head(list[p]) IN
  /\ Running /\ pc[p] = "t1" /\ list[p] # <<>>
  /\ list' = [list EXCEPT ![p] = Tail(@)]
  /\ IF conf.mode = "LAZY_KEEP" THEN MarkDirty(i) ELSE UNCHANGED <<dirty, older>>
  /\ IF rc[p] = "ok" THEN Goto(p, "t2") /\ UNCHANGED flags
     ELSE ClearFlag(i, "WRITEBACK") /\ UNCHANGED pc
  /\ at' = [at EXCEPT ![p] = i]
  /\ UNCHANGED <<st, dflags, isync, server, pfvars, target, misc, op, rc>>

\* sync_inode() of the kernel: waits for I_SYNC, then skips a clean inode.
FsyncInode(p) ==
  LET i == at[p] IN
  /\ Running /\ pc[p] = "t2" /\ i \notin isync
  /\ IF i \in dirty
       THEN WriteInode(p, i, TRUE) /\ UNCHANGED flags
       ELSE ClearFlag(i, "WRITEBACK") /\ Goto(p, "t1") /\ UNCHANGED <<isync, dirty, at>>
  /\ UNCHANGED <<st, dflags, older, server, pfvars, fsvars, misc, op, rc>>

\* LASSERTF(wbc_inode_written_out(wbci)) before a successful return.
FsyncReturn(p) ==
  /\ Running /\ pc[p] = "t1" /\ list[p] = <<>>
  /\ IF rc[p] = "err" \/ WrittenOut(target[p])
       THEN Goto(p, "idle") /\ UNCHANGED panic
       ELSE panic' = "written_out" /\ UNCHANGED pc
  /\ at' = [at EXCEPT ![p] = NoNode] /\ target' = [target EXCEPT ![p] = NoNode]
  /\ UNCHANGED <<inode, wblist, server, pfvars, list, removed, nset, kfmode, op, rc>>

---------------------------------------------------------------------------
(* memfs_unlink(), memfs_rmdir(). *)

\* memfs_remove_policy(): FREEING keeps the flushers away, then the writers that are
\* already there are waited for.  Neither it nor memfs_rmdir() looks for entries.
RemoveStart(i) ==
  /\ Running /\ pc["rm"] = "idle"
  /\ i \in conf.removable /\ st[i] = "cached" /\ "FREEING" \notin flags[i]
  /\ RmOrder = "empty" => ~HasDirents(i)
  /\ SetFlag(i, "FREEING")
  /\ at' = [at EXCEPT !["rm"] = i]
  /\ Goto("rm", "r1")
  /\ UNCHANGED <<st, dflags, wblist, server, pfvars, fsvars, misc, op, rc>>

\* Mutant: the answer of the MDT is not waited for.
RemoveWaitISyncOnly ==
  /\ Running /\ pc["rm"] = "r1" /\ at["rm"] \notin isync
  /\ Goto("rm", "r3")
  /\ UNCHANGED <<inode, wblist, server, pfvars, fsvars, misc, at, op, rc>>

RemoveWaitISync ==
  /\ Running /\ pc["rm"] = "r1" /\ at["rm"] \notin isync
  /\ Goto("rm", IF Busy(at["rm"]) THEN "r2" ELSE "r3")
  /\ UNCHANGED <<inode, wblist, server, pfvars, fsvars, misc, at, op, rc>>

RemoveWaitWriteback ==
  /\ Running /\ pc["rm"] = "r2" /\ ~Busy(at["rm"])
  /\ Goto("rm", "r3")
  /\ UNCHANGED <<inode, wblist, server, pfvars, fsvars, misc, at, op, rc>>

\* A node the MDT does not know is only dropped; otherwise it is unlinked there now,
\* or put on the removed list of its parent.  A failed unlink leaves FREEING set.
RemovePolicy ==
  LET i == at["rm"] IN
  /\ Running /\ pc["rm"] = "r3"
  /\ \/ /\ "SYNC" \notin flags[i]
        /\ op' = [op EXCEPT !["rm"] = "NONE"] /\ Goto("rm", "r4")
        /\ UNCHANGED <<mdt, removed, at>>
     \/ /\ "SYNC" \in flags[i] /\ conf.rmpol = "SYNC" /\ i \in CanUnlink({i})
        /\ mdt' = mdt \ {i}
        /\ op' = [op EXCEPT !["rm"] = "NONE"] /\ Goto("rm", "r4")
        /\ UNCHANGED <<removed, at>>
     \/ /\ "SYNC" \in flags[i] /\ conf.rmpol = "SYNC" /\ i \notin CanUnlink({i})
        /\ Goto("rm", "idle") /\ at' = [at EXCEPT !["rm"] = NoNode]
        /\ UNCHANGED <<mdt, removed, op>>
     \/ /\ "SYNC" \in flags[i] /\ conf.rmpol = "DELAY"
        /\ removed' = [removed EXCEPT ![i] = {}, ![Parent[i]] = @ \cup removed[i] \cup {i}]
        /\ op' = [op EXCEPT !["rm"] = "REMOVE"] /\ Goto("rm", "r4")
        /\ UNCHANGED <<mdt, at>>
  /\ UNCHANGED <<inode, wblist, rpc, pfvars, fsvars, nset, panic, kfmode, rc>>

\* memfs_remove_from_dcache(), the eviction of the inode (which waits for I_SYNC), and
\* with a delayed removal the dirtying of the parent.
RemoveDone ==
  LET i == at["rm"]
      d == Parent[i]
      delayed == op["rm"] = "REMOVE"
  IN
  /\ Running /\ pc["rm"] = "r4" /\ i \notin isync
  /\ st' = [st EXCEPT ![i] = "gone"]
  /\ dflags' = IF delayed THEN [dflags EXCEPT ![d] = @ \cup {"REMOVE"}] ELSE dflags
  /\ dirty' = (dirty \ {i}) \cup IF delayed THEN {d} ELSE {}
  /\ older' = Delist(i) \cup IF delayed /\ d \notin Listed THEN (Listed \ {i}) \X {d} ELSE {}
  /\ at' = [at EXCEPT !["rm"] = NoNode]
  /\ Goto("rm", "idle")
  /\ UNCHANGED <<flags, isync, server, pfvars, fsvars, misc, op, rc>>

---------------------------------------------------------------------------

Writer(t) ==
  \/ DependencyISync(t) \/ DependencyWriteback(t) \/ DependencyCommit(t)
  \/ OpcodeGet(t) \/ OpcodeWaited(t) \/ SubmitCreate(t) \/ SubmitFails(t)
  \/ SyncRpc(t) \/ SyncDone(t) \/ Finish(t)

Application ==
  /\ \/ \E i \in Node : Create(i) \/ Setattr(i) \/ RemoveStart(i)
     \/ \E p \in Fsyncers, i \in Node : FsyncStart(p, i)
  /\ UNCHANGED conf

Network ==
  /\ \E i \in Node : MdtCreate(i) \/ CreateOk(i) \/ CreateErr(i)
  /\ UNCHANGED conf

KfStep ==
  /\ (\E i \in Node : KfPick(i)) \/ Writer("kf")
  /\ UNCHANGED conf

PfStep ==
  /\ \/ PfStart \/ PfEndItem \/ PfCommit \/ PfBackgroundDone \/ PfFini \/ Writer("pf")
     \/ \E i \in Node : PfTakeWork(i) \/ PfChild(i) \/ PfBackground(i)
  /\ UNCHANGED conf

FsyncStep(p) ==
  /\ \/ FsyncWalk(p) \/ FsyncWaitWriteback(p) \/ FsyncWaitISync(p)
     \/ FsyncNext(p) \/ FsyncInode(p) \/ FsyncReturn(p) \/ Writer(p)
  /\ UNCHANGED conf

RmStep ==
  /\ RemoveWaitISync \/ RemoveWaitWriteback \/ RemovePolicy \/ RemoveDone
  /\ UNCHANGED conf

Next ==
  \/ Application \/ Network \/ KfStep \/ PfStep \/ RmStep
  \/ \E p \in Fsyncers : FsyncStep(p)

\* Threads that can run do run, and the MDT answers.  The application may stop.
Fairness ==
  /\ WF_vars(Network) /\ WF_vars(KfStep) /\ WF_vars(PfStep) /\ WF_vars(RmStep)
  /\ \A p \in Fsyncers : WF_vars(FsyncStep(p))

Spec == Init /\ [][Next]_vars /\ Fairness

---------------------------------------------------------------------------
(* Properties. *)

Pending(i) == \E s \in RpcState : rpc[i][s] > 0

\* A thread has taken the inode off the dirty list and not yet decided what to write.
Held(i) == \E t \in Thread : at[t] = i /\ ~NoISync(t) /\ pc[t] \in {"dep1", "dep2", "opc", "opcw"}

Writing(i) == \E t \in Thread : at[t] = i /\ pc[t] \in {"send", "sync", "reply"}

\* "When flush a file, it must ensure that its parent has been flushed": a create that
\* has been sent finds its parent on the MDT.
ParentFirst ==
  \A i \in Node : rpc[i]["sent"] > 0 \/ (\E t \in Thread : pc[t] = "sync" /\ op[t] = "CREATE" /\ at[t] = i)
    => Parent[i] \in mdt

\* "All its ancestor directories should be also flushed to MDT": a node with SYNC
\* that is still linked has a parent with SYNC.
SyncAncestors ==
  \A i \in Node : st[i] = "cached" /\ "SYNC" \in flags[i] => WrittenOut(Parent[i])

\* No node and no change is forgotten in an aging mode: while a cached node is not on
\* the MDT, or has dirty attributes or removals, it is on the dirty list or a writer is
\* at it.
NothingStranded ==
  \A i \in Node : conf.mode = "AGING_KEEP" /\ st[i] = "cached" /\ "FREEING" \notin flags[i] =>
    /\ "SYNC" \notin flags[i] =>
         i \in dirty \/ Held(i) \/ Writing(i) \/ Pending(i) \/ i \in batch
    /\ {"ATTR", "REMOVE"} \cap dflags[i] # {} => i \in dirty \/ Held(i)

\* WRITEBACK excludes writers from each other: one create per node at a time.
OneWriter ==
  \A i \in Node : ~(Writing(i) /\ (Pending(i) \/ i \in batch))

\* "The file is being written back": WRITEBACK is set only while an RPC or a thread
\* is there to clear it again.
WritebackMeansBusy ==
  \A i \in Node : "WRITEBACK" \in flags[i] =>
    \/ Writing(i) \/ Pending(i) \/ i \in batch
    \/ \E p \in Fsyncers : \/ \E k \in 1..Len(list[p]) : list[p][k] = i
                           \/ at[p] = i /\ pc[p] \in {"t2", "opc", "finish"}

WillBeWritten(x) ==
  \/ x \in dirty \/ Held(x) \/ Writing(x)
  \/ pc["rm"] # "idle" /\ (at["rm"] = x \/ (pc["rm"] = "r4" /\ Parent[at["rm"]] = x))

\* A node that was unlinked does not come back: no create of it is on the way, and the
\* MDT knows it only while its removal is queued in a directory that will be written
\* again, or that is itself being removed and hands the queue to its parent.
NoResurrection ==
  \A i \in Node : st[i] = "gone" =>
    /\ ~Pending(i) /\ i \notin batch
    /\ i \in mdt => \E x \in Node : i \in removed[x] /\ st[x] = "cached" /\ WillBeWritten(x)

\* None of the LASSERTs of the writeback path fails.
NoPanic == panic = "none"

\* In an aging mode the flushers catch up with the application: from some time on every
\* node is on the MDT or being unlinked.
Durable ==
  <>[](\A i \in Node : conf.mode = "AGING_KEEP" /\ st[i] = "cached" => {"SYNC", "FREEING"} \cap flags[i] # {})

\* memfs_fsync(), memfs_unlink() and memfs_rmdir() return, unless an assertion stopped
\* the node.
CallsReturn == \A t \in Fsyncers \cup {"rm"} : pc[t] # "idle" ~> (pc[t] = "idle" \/ ~Running)
=============================================================================
