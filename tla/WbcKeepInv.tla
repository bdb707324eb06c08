----------------------------- MODULE WbcKeepInv -----------------------------
(*****************************************************************************)
(* Steps of WbcKeep without fsync(2): what the kernel flusher, the work      *)
(* function of wbc.c, the remover and the requests on the way to the MDT do  *)
(* to the state, and the types they keep.  WbcKeepProofs states what         *)
(* follows.                                                                  *)
(*****************************************************************************)
EXTENDS WbcKeep, TLAPS

-----------------------------------------------------------------------------
(* Creates on the way. *)

\* The threads considered: the kernel flusher and wbc_workfn().
Flushers == {"kf", "pf"}

\* The steps of ->write_inode() before it has decided what to write, ...
Early == {"dep1", "dep2", "opc", "opcw"}

\* ... and those between that decision and the answer.
Late == {"send", "sync", "reply"}

\* No thread calls fsync(2) in this configuration.  wbc_make_inode_sync() writes a whole
\* path of ancestors outside ->write_inode(), which the invariant below does not follow;
\* next to a flusher it can reach the assertion NoPanic is about (run KeepLazyFsync).
FlushersOnly == conf.threads \cap Fsyncers = {}

\* How many creates of one node are in which state.
Rpcs == [RpcState -> Nat]

\* Sending n creates of a node leaves its answered ones alone.
LEMMA RpcSent ==
  ASSUME NEW r \in Rpcs, NEW n \in Nat
  PROVE  LET s == [r EXCEPT !["sent"] = @ + n]
         IN s \in Rpcs /\ s["sent"] = r["sent"] + n /\ s["ok"] = r["ok"] /\ s["err"] = r["err"]
  BY DEF Rpcs, RpcState

\* An answer of the MDT moves one create from "sent" to "ok" or "err".
LEMMA RpcAnswer ==
  ASSUME NEW r \in Rpcs, r["sent"] > 0, NEW a \in {"ok", "err"}
  PROVE  LET s == [r EXCEPT !["sent"] = @ - 1, ![a] = @ + 1]
         IN s \in Rpcs /\ s["sent"] = r["sent"] - 1 /\ s[a] = r[a] + 1
            /\ \A b \in {"ok", "err"} : b # a => s[b] = r[b]
  BY DEF Rpcs, RpcState

\* wbc_create_lockless_cb() takes one answer.
LEMMA RpcDone ==
  ASSUME NEW r \in Rpcs, NEW a \in {"ok", "err"}, r[a] > 0
  PROVE  LET s == [r EXCEPT ![a] = @ - 1]
         IN s \in Rpcs /\ s[a] = r[a] - 1 /\ \A b \in RpcState : b # a => s[b] = r[b]
  BY DEF Rpcs, RpcState

\* The counters of all nodes.
RpcType == rpc \in [Node -> Rpcs]

\* The MDT executes a create: one of the node's creates is answered.
LEMMA MdtCreateRpc ==
  ASSUME RpcType, NEW i \in Node, MdtCreate(i)
  PROVE  /\ RpcType'
         /\ \A j \in Node : j # i => rpc'[j] = rpc[j]
         /\ rpc'[i]["sent"] = rpc[i]["sent"] - 1
         /\ \/ rpc'[i]["ok"] = rpc[i]["ok"] + 1 /\ rpc'[i]["err"] = rpc[i]["err"]
               /\ mdt' = mdt \cup {i} /\ CanCreate(i)
            \/ rpc'[i]["ok"] = rpc[i]["ok"] /\ rpc'[i]["err"] = rpc[i]["err"] + 1
               /\ mdt' = mdt /\ (~CanCreate(i) \/ "create" \in Faults)
<1> DEFINE r == rpc[i]
           s == [r EXCEPT !["sent"] = @ - 1, !["ok"] = @ + 1]
           e == [r EXCEPT !["sent"] = @ - 1, !["err"] = @ + 1]
<1>1. r \in Rpcs /\ r["sent"] > 0
  BY DEF RpcType, MdtCreate
<1>2. s \in Rpcs /\ s["sent"] = r["sent"] - 1 /\ s["ok"] = r["ok"] + 1 /\ s["err"] = r["err"]
  BY <1>1, RpcAnswer, Zenon
<1>3. e \in Rpcs /\ e["sent"] = r["sent"] - 1 /\ e["err"] = r["err"] + 1 /\ e["ok"] = r["ok"]
  BY <1>1, RpcAnswer, Zenon
<1>4. \/ rpc' = [rpc EXCEPT ![i] = s] /\ mdt' = mdt \cup {i} /\ CanCreate(i)
      \/ rpc' = [rpc EXCEPT ![i] = e] /\ mdt' = mdt /\ (~CanCreate(i) \/ "create" \in Faults)
  BY DEF MdtCreate
<1> QED
  BY <1>1, <1>2, <1>3, <1>4, Zenon DEF RpcType

\* wbc_create_lockless_cb() without an error consumes an answer of its node only.
LEMMA CreateOkRpc ==
  ASSUME RpcType, NEW i \in Node, CreateOk(i)
  PROVE  /\ RpcType'
         /\ \A j \in Node : j # i => rpc'[j] = rpc[j]
         /\ rpc'[i]["ok"] = rpc[i]["ok"] - 1
         /\ rpc'[i]["sent"] = rpc[i]["sent"] /\ rpc'[i]["err"] = rpc[i]["err"]
<1> DEFINE s == [rpc[i] EXCEPT !["ok"] = @ - 1]
<1>1. rpc[i] \in Rpcs /\ rpc[i]["ok"] > 0 /\ rpc' = [rpc EXCEPT ![i] = s]
  BY DEF RpcType, CreateOk
<1>2. /\ s \in Rpcs /\ s["ok"] = rpc[i]["ok"] - 1 /\ s["sent"] = rpc[i]["sent"]
      /\ s["err"] = rpc[i]["err"]
  BY <1>1, RpcDone, Zenon DEF RpcState
<1> QED
  BY <1>1, <1>2 DEF RpcType

\* So does the call with an error.
LEMMA CreateErrRpc ==
  ASSUME RpcType, NEW i \in Node, CreateErr(i)
  PROVE  /\ RpcType'
         /\ \A j \in Node : j # i => rpc'[j] = rpc[j]
         /\ rpc'[i]["err"] = rpc[i]["err"] - 1
         /\ rpc'[i]["sent"] = rpc[i]["sent"] /\ rpc'[i]["ok"] = rpc[i]["ok"]
<1> DEFINE s == [rpc[i] EXCEPT !["err"] = @ - 1]
<1>1. rpc[i] \in Rpcs /\ rpc[i]["err"] > 0 /\ rpc' = [rpc EXCEPT ![i] = s]
  BY DEF RpcType, CreateErr
<1>2. /\ s \in Rpcs /\ s["err"] = rpc[i]["err"] - 1 /\ s["sent"] = rpc[i]["sent"]
      /\ s["ok"] = rpc[i]["ok"]
  BY <1>1, RpcDone, Zenon DEF RpcState
<1> QED
  BY <1>1, <1>2 DEF RpcType

\* wbcfs_context_commit() sends one create of every node in the batch.
LEMMA SendBatchRpc ==
  ASSUME RpcType, SendBatch
  PROVE  /\ RpcType'
         /\ \A j \in Node : /\ rpc'[j]["sent"] = rpc[j]["sent"] + IF j \in batch THEN 1 ELSE 0
                            /\ rpc'[j]["ok"] = rpc[j]["ok"] /\ rpc'[j]["err"] = rpc[j]["err"]
<1> DEFINE n(j) == IF j \in batch THEN 1 ELSE 0
           s(j) == [rpc[j] EXCEPT !["sent"] = @ + n(j)]
<1>1. rpc' = [j \in Node |-> s(j)]
  BY DEF SendBatch
<1>2. ASSUME NEW j \in Node
      PROVE  /\ s(j) \in Rpcs /\ s(j)["sent"] = rpc[j]["sent"] + n(j)
             /\ s(j)["ok"] = rpc[j]["ok"] /\ s(j)["err"] = rpc[j]["err"]
  <2>1. rpc[j] \in Rpcs /\ n(j) \in Nat
    BY DEF RpcType
  <2> HIDE DEF n
  <2> QED BY <2>1, RpcSent
<1> HIDE DEF s
<1>3. \A j \in Node : rpc'[j] = s(j)
  BY <1>1
<1> QED
  BY <1>1, <1>2, <1>3 DEF RpcType

\* wbcfs_writeback_dir_child() puts its node into the batch or sends its create.
LEMMA SubmitRpc ==
  ASSUME RpcType, NEW t \in Thread, at[t] \in Node, SubmitCreate(t)
  PROVE  /\ RpcType'
         /\ \/ rpc' = rpc /\ batch' = batch \cup {at[t]} /\ t = "pf"
            \/ /\ batch' = batch
               /\ \A j \in Node : j # at[t] => rpc'[j] = rpc[j]
               /\ rpc'[at[t]]["sent"] = rpc[at[t]]["sent"] + 1
               /\ rpc'[at[t]]["ok"] = rpc[at[t]]["ok"] /\ rpc'[at[t]]["err"] = rpc[at[t]]["err"]
<1> DEFINE s == [rpc[at[t]] EXCEPT !["sent"] = @ + 1]
<1>1. rpc[at[t]] \in Rpcs
  BY DEF RpcType
<1>2. /\ s \in Rpcs /\ s["sent"] = rpc[at[t]]["sent"] + 1 /\ s["ok"] = rpc[at[t]]["ok"]
      /\ s["err"] = rpc[at[t]]["err"]
  BY <1>1, RpcSent
<1>3. \/ rpc' = rpc /\ batch' = batch \cup {at[t]} /\ t = "pf"
      \/ rpc' = [rpc EXCEPT ![at[t]] = s] /\ batch' = batch
  BY DEF SubmitCreate
<1> QED
  BY <1>1, <1>2, <1>3, Zenon DEF RpcType

-----------------------------------------------------------------------------
(* Types and threads. *)

\* Where a thread can be when no fsync(2) is called.
Stage ==
  {"idle", "finish", "pwork", "pnext", "pbg", "pfini", "r1", "r2", "r3", "r4"} \cup Early \cup Late

\* Types of what the threads hold.
Threads ==
  /\ pc \in [Thread -> Stage] /\ at \in [Thread -> Node \cup {NoNode}]
  /\ op \in [Thread -> {"NONE", "CREATE", "SETATTR", "REMOVE"}]
  /\ rc \in [Thread -> {"ok", "err", "undef"}]

\* Types of the inodes, the lists and the work of pf.
Shape ==
  /\ conf \in Confs
  /\ st \in [Node -> {"absent", "cached", "gone"}]
  /\ flags \in [Node -> SUBSET {"SYNC", "WRITEBACK", "FREEING"}]
  /\ dflags \in [Node -> SUBSET {"ATTR", "REMOVE", "FLUSHING"}]
  /\ isync \subseteq Node /\ dirty \subseteq Node
  /\ removed \in [Node -> SUBSET Node]
  /\ batch \subseteq Node /\ work \subseteq Node
  /\ pfdir \in Node \cup {NoNode} /\ todo \subseteq Node

\* Each thread stays in its own code and is at a node while it needs one: fsync threads
\* do not run, rm is in memfs_remove_policy() at an entry of a directory, and pf runs
\* only where wbc_workfn() is configured.
Roles ==
  /\ \A p \in Fsyncers : pc[p] = "idle"
  /\ pc["kf"] \in {"idle", "finish"} \cup Early \cup Late
  /\ pc["pf"] \in {"idle", "dep1", "dep2", "opc", "finish", "pwork", "pnext", "pbg", "pfini"}
                  \cup Late
  /\ pc["rm"] \in {"idle", "r1", "r2", "r3", "r4"}
  /\ \A t \in Flushers : pc[t] \in Early \cup Late \cup {"finish"} => at[t] \in Node
  /\ pc["rm"] # "idle" => at["rm"] \in Node /\ Parent[at["rm"]] \in Node
  /\ pc["pf"] # "idle" => "pf" \in conf.threads

\* What every later argument takes for granted.
Ground == Shape /\ Threads /\ RpcType /\ Roles

-----------------------------------------------------------------------------
(* The steps. *)

\* What the application and the VFS do to the cache.
Applies(i) == Create(i) \/ Setattr(i) \/ RemoveStart(i)

\* The MDT and the interpret callback of a create.
Replies(i) == MdtCreate(i) \/ CreateOk(i) \/ CreateErr(i)

\* A flusher takes a node: from b_dirty, from the work item, from the directory being
\* scanned or from the background list.
Enters(i) == KfPick(i) \/ PfTakeWork(i) \/ PfChild(i) \/ PfBackground(i)

\* The rest of wbc_workfn().
Works == PfStart \/ PfEndItem \/ PfCommit \/ PfBackgroundDone \/ PfFini

\* An unlink or rmdir under way: memfs_remove_policy() and what surrounds it.
Removes == RemoveWaitISync \/ RemoveWaitWriteback \/ RemovePolicy \/ RemoveDone

\* The steps that are left without fsync(2).
FlusherNext ==
  /\ UNCHANGED conf
  /\ \/ \E i \in Node : Applies(i) \/ Replies(i) \/ Enters(i)
     \/ \E t \in Flushers : Writer(t)
     \/ Works \/ Removes

\* Without fsync(2) there are no others: an fsync thread is idle and cannot start.
LEMMA OnlyFlushers ==
  ASSUME FlushersOnly, Ground, Next PROVE FlusherNext
<1> USE DEF Ground, Roles
<1>1. ASSUME NEW p \in Fsyncers, NEW i \in Node, FsyncStart(p, i) PROVE FALSE
  BY <1>1 DEF FsyncStart, Shape, FlushersOnly
<1>2. ASSUME NEW p \in Fsyncers, FsyncStep(p) PROVE FALSE
  <2>1. pc[p] = "idle"
    OBVIOUS
  <2>2. ~Writer(p)
    BY <2>1 DEF Writer, DependencyISync, DependencyWriteback, DependencyCommit, OpcodeGet,
         OpcodeWaited, SubmitCreate, SubmitFails, SyncRpc, SyncDone, Finish
  <2> QED
    BY <1>2, <2>1, <2>2 DEF FsyncStep, FsyncWalk, FsyncWaitWriteback, FsyncWaitISync, FsyncNext,
         FsyncInode, FsyncReturn
<1> QED
  BY <1>1, <1>2 DEF Next, Application, Network, KfStep, PfStep, RmStep, FlusherNext, Flushers,
       Applies, Replies, Enters, Works, Removes

\* memfs_remove_policy() has set FREEING.
Free(i) == "FREEING" \in flags[i]

\* wbc_flush_opcode_get() of a flusher ends in one of three ways.  It finds nothing to
\* write: the node is being removed, pf meets a node under writeback, or it is clean.
Pass(t) ==
  LET i == at[t] IN
  /\ pc[t] \in {"opc", "opcw"} /\ pc' = [pc EXCEPT ![t] = AfterWrite(t)]
  /\ \/ Free(i) /\ (dflags' = dflags \/ dflags' = [dflags EXCEPT ![i] = {"FLUSHING"}])
     \/ t = "pf" /\ Busy(i) /\ dflags' = dflags
     \/ ~Free(i) /\ ~Busy(i) /\ Opcode(i) = "NONE" /\ dflags' = dflags
  /\ rc' = [rc EXCEPT ![t] = "ok"]
  /\ op' = op \/ op' = [op EXCEPT ![t] = "NONE"]
  /\ UNCHANGED <<st, flags, wblist, server, pfvars, fsvars, misc, at>>

\* The kernel flusher waits for an earlier write.
Wait(t) ==
  /\ t = "kf" /\ pc[t] = "opc" /\ Busy(at[t]) /\ ~Free(at[t]) /\ pc' = [pc EXCEPT ![t] = "opcw"]
  /\ UNCHANGED <<inode, wblist, server, pfvars, fsvars, misc, at, op, rc>>

\* It takes WRITEBACK and FLUSHING and goes on to write.
Begin(t, l) ==
  LET i == at[t] IN
  /\ pc[t] \in {"opc", "opcw"} /\ pc' = [pc EXCEPT ![t] = l]
  /\ ~Free(i) /\ ~Busy(i) /\ Opcode(i) # "NONE"
  /\ l = "send" <=> Opcode(i) = "CREATE" /\ ~SyncAll(t)
  /\ flags' = [flags EXCEPT ![i] = @ \cup {"WRITEBACK"}]
  /\ dflags' = [dflags EXCEPT ![i] = {"FLUSHING"}]
  /\ op' = [op EXCEPT ![t] = Opcode(i)]
  /\ UNCHANGED <<st, wblist, server, pfvars, fsvars, misc, at, rc>>

\* There is no fourth way: the branches of wbc_flush_opcode_get(), before and after the
\* wait, come down to these.
LEMMA OpcodeSteps ==
  ASSUME Ground, NEW t \in Flushers, OpcodeGet(t) \/ OpcodeWaited(t)
  PROVE  Pass(t) \/ Wait(t) \/ \E l \in {"send", "sync"} : Begin(t, l)
<1> DEFINE i == at[t]
<1> USE NodeAssumption, ThreadAssumption DEF inode, wblist, server, pfvars, fsvars, misc
<1>0. /\ i \in Node /\ i # NoNode /\ t \in Thread /\ ~ForFsync(t)
      /\ Busy(i) <=> "WRITEBACK" \in flags[i]
  BY DEF Ground, Roles, Flushers, OpcodeGet, OpcodeWaited, Early, Late, Thread, ForFsync, Busy
<1>0a. [rc EXCEPT ![t] = rc[t]] = rc
  BY <1>0 DEF Ground, Threads
<1>1. ASSUME GetOpcode(t), pc[t] \in {"opc", "opcw"}, ~Busy(i)
      PROVE  Pass(t) \/ \E l \in {"send", "sync"} : Begin(t, l)
  <2>1. CASE Free(i)
    BY <1>0, <1>1, <2>1 DEF GetOpcode, Pass, Goto, Free
  <2>2. CASE ~Free(i) /\ Opcode(i) = "NONE"
    BY <1>0, <1>1, <2>2 DEF GetOpcode, Pass, Goto, Free
  <2>3. CASE ~Free(i) /\ Opcode(i) = "CREATE" /\ ~SyncAll(t)
    <3>1. Begin(t, "send")
      BY <1>0, <1>0a, <1>1, <2>3 DEF GetOpcode, Begin, Goto, Free, SetFlag
    <3> QED BY <3>1
  <2>4. CASE ~Free(i) /\ Opcode(i) # "NONE" /\ (Opcode(i) # "CREATE" \/ SyncAll(t))
    <3>1. Begin(t, "sync")
      BY <1>0, <1>0a, <1>1, <2>4, Zenon DEF GetOpcode, Begin, Goto, Free, SetFlag
    <3> QED BY <3>1
  <2> QED BY <2>1, <2>2, <2>3, <2>4
<1>2. ASSUME NothingToWrite(t), pc[t] = "opc", Free(i) \/ (t = "pf" /\ Busy(i)) PROVE Pass(t)
  BY <1>0, <1>2 DEF NothingToWrite, Pass, Goto
<1>3. ASSUME WaitForAnswer(t), pc[t] = "opc", ~Free(i), Busy(i), ~ForPflush(t) PROVE Wait(t)
  BY <1>0, <1>3 DEF WaitForAnswer, Wait, Goto, ForPflush, Flushers
<1>4. CASE OpcodeGet(t)
  BY <1>0, <1>1, <1>2, <1>3, <1>4 DEF OpcodeGet, Free, ForPflush
<1>5. CASE OpcodeWaited(t)
  BY <1>0, <1>1, <1>5 DEF OpcodeWaited
<1> QED BY <1>4, <1>5

\* ->write_inode() up to the decision what to write, ...
Decides(t) ==
  \/ DependencyISync(t) \/ DependencyWriteback(t) \/ DependencyCommit(t)
  \/ Pass(t) \/ Wait(t) \/ \E l \in {"send", "sync"} : Begin(t, l)

\* ... and from there to its end.
Delivers(t) == SubmitCreate(t) \/ SubmitFails(t) \/ SyncRpc(t) \/ SyncDone(t) \/ Finish(t)

\* A step of the flushers' specification is one of these seven kinds.
LEMMA FlusherSteps ==
  ASSUME Ground, FlusherNext
  PROVE  \/ \E i \in Node : Applies(i) \/ Replies(i) \/ Enters(i)
         \/ \E t \in Flushers : Decides(t) \/ Delivers(t)
         \/ Works \/ Removes
<1>1. ASSUME NEW t \in Flushers, Writer(t) PROVE Decides(t) \/ Delivers(t)
  BY <1>1, OpcodeSteps DEF Writer, Decides, Delivers
<1> QED BY <1>1 DEF FlusherNext

-----------------------------------------------------------------------------
(* What a step does to the writers of a node. *)

\* WBC_STATE_FL_WRITEBACK.
WB(i) == "WRITEBACK" \in flags[i]

\* WBC_STATE_FL_SYNC: the node is on the MDT.
Synced(i) == "SYNC" \in flags[i]

\* Nobody takes WRITEBACK or gives it back, and who has it stays where it is.
SameWriters ==
  \A u \in Flushers :
    /\ pc'[u] \in Late <=> pc[u] \in Late
    /\ pc[u] \in Late => pc'[u] = pc[u] /\ at'[u] = at[u] /\ op'[u] = op[u] /\ rc'[u] = rc[u]

\* No node gains or loses WRITEBACK or SYNC, and FLUSHING is not cleared.
SameMarks ==
  \A i \in Node : /\ (WB(i)' <=> WB(i)) /\ (Synced(i)' <=> Synced(i))
                  /\ "FLUSHING" \in dflags[i] => "FLUSHING" \in dflags'[i]

\* A step beside the writes: of the application, of the remover, of a flusher before its
\* decision or after the end of its write.
Aside == UNCHANGED <<rpc, batch, panic>> /\ SameMarks /\ SameWriters

\* wbcfs_context_commit() in one of its three places.
Commits == SendBatch /\ UNCHANGED <<st, flags, dflags, mdt, removed, panic>> /\ SameWriters

\* What a step can do to the writes: nothing, send the batch, one of the steps of a create
\* at the MDT and in its callback, or one of a flusher between its decision and the end.
WriteStep ==
  \/ Aside \/ Commits
  \/ \E i \in Node : MdtCreate(i) \/ CreateOk(i) \/ CreateErr(i)
  \/ \E t \in Flushers : \/ SubmitCreate(t) \/ SubmitFails(t) \/ SyncRpc(t) \/ SyncDone(t)
                          \/ \E l \in {"send", "sync"} : Begin(t, l)

\* There is nothing else: only wbc_flush_opcode_get(), the senders and the callbacks touch
\* WRITEBACK, the requests and the batch.
LEMMA WriteSteps ==
  ASSUME Ground, FlusherNext PROVE WriteStep
<1> USE ThreadAssumption DEF Goto, inode, wblist, server, pfvars, fsvars, misc, Thread, Flushers
<1>0. /\ pc \in [Thread -> Stage] /\ at \in [Thread -> Node \cup {NoNode}]
      /\ op \in [Thread -> {"NONE", "CREATE", "SETATTR", "REMOVE"}]
      /\ rc \in [Thread -> {"ok", "err", "undef"}]
      /\ flags \in [Node -> SUBSET {"SYNC", "WRITEBACK", "FREEING"}]
      /\ dflags \in [Node -> SUBSET {"ATTR", "REMOVE", "FLUSHING"}]
  BY DEF Ground, Shape, Threads
<1>m. ASSUME UNCHANGED <<flags, dflags>> PROVE SameMarks
  BY <1>m DEF SameMarks, WB, Synced
<1>1. ASSUME NEW i \in Node, Applies(i) PROVE Aside
  <2>1. UNCHANGED <<rpc, batch, panic>> /\ SameWriters
    BY <1>0, <1>1 DEF Applies, Create, Setattr, RemoveStart, SameWriters
  <2>2. SameMarks
    BY <1>0, <1>1 DEF Applies, Create, Setattr, RemoveStart, SetFlag, SameMarks, WB, Synced
  <2> QED BY <2>1, <2>2 DEF Aside
<1>2. ASSUME NEW i \in Node, Replies(i) PROVE WriteStep
  BY <1>2 DEF Replies, WriteStep
<1>3. ASSUME NEW i \in Node, Enters(i) PROVE Aside
  <2>1. UNCHANGED <<rpc, batch, panic, flags, dflags>>
    BY <1>3, Zenon DEF Enters, KfPick, PfTakeWork, PfChild, PfBackground
  <2>2. SameWriters
    <3>1. CASE KfPick(i) \/ PfTakeWork(i)
      BY <1>0, <3>1 DEF SameWriters, KfPick, PfTakeWork, WriteInode, Late
    <3>2. CASE PfChild(i) \/ PfBackground(i)
      BY <1>0, <3>2 DEF SameWriters, PfChild, PfBackground, WriteInode, LeaveItem, Late
    <3> QED BY <1>3, <3>1, <3>2 DEF Enters
  <2> QED BY <1>m, <2>1, <2>2 DEF Aside
<1>4. ASSUME NEW t \in Flushers, Decides(t) PROVE WriteStep
  <2>1. CASE DependencyISync(t) \/ DependencyWriteback(t) \/ Wait(t)
    <3>1. UNCHANGED <<rpc, batch, panic, flags, dflags>>
      BY <2>1 DEF DependencyISync, DependencyWriteback, EndDependency, Wait
    <3>2. SameWriters
      BY <1>0, <2>1 DEF SameWriters, DependencyISync, DependencyWriteback, EndDependency, Wait,
                        Late
    <3> QED BY <1>m, <3>1, <3>2 DEF Aside, WriteStep
  <2>2. CASE DependencyCommit(t)
    <3>1. SameWriters
      BY <2>2 DEF SameWriters, DependencyCommit
    <3> QED BY <2>2, <3>1 DEF DependencyCommit, Commits, WriteStep
  <2>3. CASE Pass(t)
    <3>1. UNCHANGED <<rpc, batch, panic, flags>>
      BY <2>3 DEF Pass
    <3>2. SameWriters
      BY <1>0, <2>3 DEF SameWriters, Pass, AfterWrite, Late
    <3>3. SameMarks
      BY <1>0, <2>3, <3>1 DEF SameMarks, Pass, WB, Synced
    <3> QED BY <3>1, <3>2, <3>3 DEF Aside, WriteStep
  <2> QED BY <1>4, <2>1, <2>2, <2>3 DEF Decides, WriteStep
<1>5. ASSUME NEW t \in Flushers, Delivers(t) PROVE WriteStep
  <2>1. CASE Finish(t)
    <3>1. UNCHANGED <<rpc, batch, panic, flags, dflags>>
      BY <2>1 DEF Finish, ForFsync
    <3>2. SameWriters
      BY <1>0, <2>1 DEF SameWriters, Finish, ForFsync, Late
    <3> QED BY <1>m, <3>1, <3>2 DEF Aside, WriteStep
  <2> QED BY <1>5, <2>1 DEF Delivers, WriteStep
<1>6. ASSUME Works PROVE WriteStep
  <2>1. CASE PfStart \/ PfEndItem \/ PfBackgroundDone
    <3>1. UNCHANGED <<rpc, batch, panic, flags, dflags>>
      BY <2>1 DEF PfStart, PfEndItem, PfBackgroundDone
    <3>2. SameWriters
      BY <1>0, <2>1 DEF SameWriters, PfStart, PfEndItem, LeaveItem, PfBackgroundDone, Late
    <3> QED BY <1>m, <3>1, <3>2 DEF Aside, WriteStep
  <2>2. CASE PfCommit \/ PfFini
    <3>1. SameWriters
      BY <1>0, <2>2 DEF SameWriters, PfCommit, PfFini, Late
    <3> QED BY <2>2, <3>1 DEF PfCommit, PfFini, Commits, WriteStep
  <2> QED BY <1>6, <2>1, <2>2 DEF Works
<1>7. ASSUME Removes PROVE Aside
  <2>1. UNCHANGED <<rpc, batch, panic, flags>>
    BY <1>7, Zenon DEF Removes, RemoveWaitISync, RemoveWaitWriteback, RemovePolicy, RemoveDone
  <2>3. SameWriters
    <3>1. \A u \in Flushers : pc'[u] = pc[u] /\ at'[u] = at[u] /\ op'[u] = op[u] /\ rc'[u] = rc[u]
      <4>1. CASE RemoveWaitISync \/ RemoveWaitWriteback \/ RemoveDone
        BY <1>0, <4>1 DEF RemoveWaitISync, RemoveWaitWriteback, RemoveDone
      <4>2. CASE RemovePolicy
        BY <1>0, <4>2 DEF RemovePolicy
      <4> QED BY <1>7, <4>1, <4>2 DEF Removes
    <3> QED BY <3>1 DEF SameWriters
  <2>2. SameMarks
    <3>1. CASE RemoveWaitISync \/ RemoveWaitWriteback \/ RemovePolicy
      <4>1. UNCHANGED dflags
        BY <3>1, Zenon DEF RemoveWaitISync, RemoveWaitWriteback, RemovePolicy
      <4> QED BY <1>m, <2>1, <4>1
    <3>2. CASE RemoveDone
      BY <1>0, <2>1, <3>2 DEF RemoveDone, SameMarks, WB, Synced
    <3> QED BY <1>7, <3>1, <3>2 DEF Removes
  <2> QED BY <2>1, <2>2, <2>3, Zenon DEF Aside
<1> QED BY FlusherSteps, <1>1, <1>2, <1>3, <1>4, <1>5, <1>6, <1>7 DEF WriteStep

-----------------------------------------------------------------------------
(* Types are kept. *)

\* Sends, answers and callbacks move creates from one counter to the next, none below zero.
LEMMA RpcStep ==
  ASSUME Ground, FlusherNext
  PROVE  RpcType'
<1> USE DEF server, Flushers, Thread
<1>b. ASSUME UNCHANGED rpc PROVE RpcType'
  BY <1>b DEF Ground, RpcType
<1>1. ASSUME NEW i \in Node, Applies(i) PROVE RpcType'
  BY <1>b, <1>1 DEF Applies, Create, MarkDirty, Listed, Setattr, RemoveStart, SetFlag
<1>2. ASSUME NEW i \in Node, Replies(i) PROVE RpcType'
  <2>1. CASE MdtCreate(i)
    BY MdtCreateRpc, <2>1 DEF Ground
  <2>2. CASE CreateOk(i)
    BY CreateOkRpc, <2>2 DEF Ground
  <2>3. CASE CreateErr(i)
    BY CreateErrRpc, <2>3 DEF Ground
  <2> QED BY <1>2, <2>1, <2>2, <2>3 DEF Replies
<1>3. ASSUME NEW i \in Node, Enters(i) PROVE RpcType'
  BY <1>b, <1>3 DEF Enters, KfPick, WriteInode, PfTakeWork, PfChild, LeaveItem, PfBackground
<1>4. ASSUME NEW t \in Flushers, Decides(t) PROVE RpcType'
  <2>1. CASE DependencyCommit(t)
    BY SendBatchRpc, <2>1 DEF Ground, DependencyCommit
  <2>2. CASE \/ DependencyISync(t) \/ DependencyWriteback(t) \/ Pass(t) \/ Wait(t)
             \/ \E l \in {"send", "sync"} : Begin(t, l)
    BY <1>b, <2>2 DEF DependencyISync, DependencyWriteback, EndDependency, Pass, Wait, Begin
  <2> QED BY <1>4, <2>1, <2>2 DEF Decides
<1>5. ASSUME NEW t \in Flushers, Delivers(t) PROVE RpcType'
  <2>1. CASE SubmitCreate(t)
    <3>1. at[t] \in Node
      BY <2>1 DEF SubmitCreate, Ground, Roles, Late
    <3> QED BY <3>1, <2>1, SubmitRpc DEF Ground
  <2>2. CASE SubmitFails(t) \/ SyncRpc(t)
    BY <1>b, <2>2 DEF SubmitFails, SyncRpc
  <2>3. CASE SyncDone(t) \/ Finish(t)
    BY <1>b, <2>3 DEF SyncDone, Finish
  <2> QED BY <1>5, <2>1, <2>2, <2>3 DEF Delivers
<1>6. ASSUME Works PROVE RpcType'
  <2>1. CASE PfCommit
    BY SendBatchRpc, <2>1 DEF Ground, PfCommit
  <2>2. CASE PfFini
    BY SendBatchRpc, <2>2 DEF Ground, PfFini
  <2>3. CASE PfStart \/ PfEndItem \/ PfBackgroundDone
    BY <1>b, <2>3 DEF PfStart, PfEndItem, LeaveItem, PfBackgroundDone
  <2> QED BY <1>6, <2>1, <2>2, <2>3 DEF Works
<1>7. ASSUME Removes PROVE RpcType'
  BY <1>b, <1>7, Zenon DEF Removes, RemoveWaitISync, RemoveWaitWriteback, RemovePolicy, RemoveDone
<1> QED BY FlusherSteps, <1>1, <1>2, <1>3, <1>4, <1>5, <1>6, <1>7

\* Every step keeps the types of the inodes, the lists and the work of pf.
LEMMA ShapeStep ==
  ASSUME Ground, FlusherNext
  PROVE  Shape'
<1> USE NodeAssumption DEF inode, wblist, server, pfvars, fsvars, misc, Flushers, Goto
<1>0. UNCHANGED conf
  BY DEF FlusherNext
<1>b. ASSUME UNCHANGED <<st, flags, dflags, isync, dirty, removed, batch, work, pfdir, todo>>
      PROVE  Shape'
  BY <1>b, <1>0 DEF Ground, Shape
<1>1. ASSUME NEW i \in Node, Applies(i) PROVE Shape'
  <2>1. CASE Create(i)
    BY <1>0, <2>1 DEF Ground, Shape, Create, MarkDirty, Listed
  <2>2. CASE Setattr(i)
    BY <1>0, <2>2 DEF Ground, Shape, Setattr, MarkDirty, Listed
  <2>3. CASE RemoveStart(i)
    BY <1>0, <2>3 DEF Ground, Shape, RemoveStart, SetFlag
  <2> QED BY <1>1, <2>1, <2>2, <2>3 DEF Applies
<1>2. ASSUME NEW i \in Node, Replies(i) PROVE Shape'
  <2>1. CASE CreateOk(i)
    BY <1>0, <2>1 DEF Ground, Shape, CreateOk
  <2>2. CASE CreateErr(i)
    BY <1>0, <2>2 DEF Ground, Shape, CreateErr, ClearFlag
  <2>3. CASE MdtCreate(i)
    BY <1>b, <2>3 DEF MdtCreate
  <2> QED BY <1>2, <2>1, <2>2, <2>3 DEF Replies
<1>3. ASSUME NEW i \in Node, Enters(i) PROVE Shape'
  <2>1. CASE KfPick(i)
    BY <1>0, <2>1 DEF Ground, Shape, KfPick, WriteInode
  <2>2. CASE PfTakeWork(i)
    BY <1>0, <2>2 DEF Ground, Shape, PfTakeWork
  <2>3. CASE PfChild(i)
    BY <1>0, <2>3 DEF Ground, Shape, PfChild, LeaveItem
  <2>4. CASE PfBackground(i)
    BY <1>0, <2>4 DEF Ground, Shape, PfBackground, WriteInode
  <2> QED BY <1>3, <2>1, <2>2, <2>3, <2>4 DEF Enters
<1>4. ASSUME NEW t \in Flushers, Decides(t) PROVE Shape'
  <2>1. CASE DependencyWriteback(t)
    BY <1>0, <2>1 DEF Ground, Shape, DependencyWriteback, EndDependency
  <2>2. CASE DependencyCommit(t)
    BY <1>0, <2>2 DEF Ground, Shape, DependencyCommit, SendBatch
  <2>3. CASE Pass(t)
    BY <1>0, <2>3 DEF Ground, Shape, Pass
  <2>4. ASSUME NEW l \in {"send", "sync"}, Begin(t, l) PROVE Shape'
    BY <1>0, <2>4, Zenon DEF Ground, Shape, Begin
  <2>5. CASE DependencyISync(t) \/ Wait(t)
    BY <1>b, <2>5 DEF DependencyISync, Wait
  <2> QED BY <1>4, <2>1, <2>2, <2>3, <2>4, <2>5 DEF Decides
<1>5. ASSUME NEW t \in Flushers, Delivers(t) PROVE Shape'
  <2>1. CASE SubmitCreate(t)
    BY <1>0, <2>1 DEF Ground, Shape, SubmitCreate, Roles, Late
  <2>2. CASE SyncRpc(t)
    BY <1>0, <2>2 DEF Ground, Shape, SyncRpc
  <2>3. CASE SyncDone(t)
    BY <1>0, <2>3 DEF Ground, Shape, SyncDone
  <2>4. CASE Finish(t)
    BY <1>0, <2>4 DEF Ground, Shape, Finish, ClearFlag
  <2>5. CASE SubmitFails(t)
    BY <1>b, <2>5 DEF SubmitFails
  <2> QED BY <1>5, <2>1, <2>2, <2>3, <2>4, <2>5 DEF Delivers
<1>6. ASSUME Works PROVE Shape'
  <2>1. CASE PfEndItem
    BY <1>0, <2>1 DEF Ground, Shape, PfEndItem, LeaveItem
  <2>2. CASE PfCommit
    BY <1>0, <2>2 DEF Ground, Shape, PfCommit, SendBatch
  <2>3. CASE PfFini
    BY <1>0, <2>3 DEF Ground, Shape, PfFini, SendBatch
  <2>4. CASE PfStart \/ PfBackgroundDone
    BY <1>b, <2>4 DEF PfStart, PfBackgroundDone
  <2> QED BY <1>6, <2>1, <2>2, <2>3, <2>4 DEF Works
<1>7. ASSUME Removes PROVE Shape'
  <2>1. CASE RemovePolicy
    BY <1>0, <2>1 DEF Ground, Shape, RemovePolicy, Roles
  <2>2. CASE RemoveDone
    BY <1>0, <2>2 DEF Ground, Shape, RemoveDone, Roles, Delist
  <2>3. CASE RemoveWaitISync \/ RemoveWaitWriteback
    BY <1>b, <2>3 DEF RemoveWaitISync, RemoveWaitWriteback
  <2> QED BY <1>7, <2>1, <2>2, <2>3 DEF Removes
<1> QED BY FlusherSteps, <1>1, <1>2, <1>3, <1>4, <1>5, <1>6, <1>7

=============================================================================
