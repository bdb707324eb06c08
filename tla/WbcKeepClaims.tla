--------------------------- MODULE WbcKeepClaims ----------------------------
(*****************************************************************************)
(* The threads of WbcKeep stay in their code, and what a node is waited for  *)
(* is counted: the claims on its WRITEBACK bit.                              *)
(*****************************************************************************)
EXTENDS WbcKeepInv

-----------------------------------------------------------------------------
(* Types are kept. *)

\* Every step moves its thread to another place of the same code.
LEMMA ThreadsStep ==
  ASSUME Ground, FlusherNext
  PROVE  Threads'
<1> USE NodeAssumption, ThreadAssumption DEF Goto, inode, wblist, server, pfvars, fsvars, misc,
     Thread, Flushers
<1>0. Threads
  BY DEF Ground
<1>b. ASSUME UNCHANGED <<pc, at, op, rc>> PROVE Threads'
  BY <1>0, <1>b DEF Threads
<1>1. ASSUME NEW i \in Node, Applies(i) PROVE Threads'
  <2>1. CASE RemoveStart(i)
    BY <1>0, <2>1 DEF Threads, Stage, Early, Late, RemoveStart, SetFlag
  <2>2. CASE Create(i) \/ Setattr(i)
    BY <1>b, <2>2 DEF Create, MarkDirty, Listed, Setattr
  <2> QED BY <1>1, <2>1, <2>2 DEF Applies
<1>2. ASSUME NEW i \in Node, Replies(i) PROVE Threads'
  BY <1>b, <1>2 DEF Replies, MdtCreate, CreateOk, CreateErr, ClearFlag
<1>3. ASSUME NEW i \in Node, Enters(i) PROVE Threads'
  <2>1. CASE KfPick(i)
    BY <1>0, <2>1 DEF Threads, Stage, Early, Late, KfPick, WriteInode
  <2>2. CASE PfTakeWork(i)
    BY <1>0, <2>2 DEF Threads, Stage, Early, Late, PfTakeWork
  <2>3. CASE PfChild(i)
    <3>1. CASE LeaveItem("pfini") /\ UNCHANGED at
      BY <1>0, <2>3, <3>1 DEF Threads, Stage, Early, Late, PfChild, LeaveItem
    <3>2. CASE at' = [at EXCEPT !["pf"] = i] /\ Goto("pf", "opc") /\ UNCHANGED pfdir
      BY <1>0, <2>3, <3>2 DEF Threads, Stage, Early, Late, PfChild, LeaveItem
    <3>3. CASE UNCHANGED <<at, pc, pfdir>>
      BY <1>0, <2>3, <3>3 DEF Threads, Stage, Early, Late, PfChild, LeaveItem
    <3> QED BY <2>3, <3>1, <3>2, <3>3 DEF PfChild, LeaveItem
  <2>4. CASE PfBackground(i)
    <3>1. CASE WriteInode("pf", i, FALSE)
      BY <1>0, <2>4, <3>1 DEF Threads, Stage, Early, Late, PfBackground, WriteInode
    <3>2. CASE Goto("pf", "pfini") /\ UNCHANGED at
      BY <1>0, <2>4, <3>2 DEF Threads, Stage, Early, Late, PfBackground, WriteInode
    <3> QED BY <2>4, <3>1, <3>2 DEF PfBackground, WriteInode
  <2> QED BY <1>3, <2>1, <2>2, <2>3, <2>4 DEF Enters
<1>4. ASSUME NEW t \in Flushers, Decides(t) PROVE Threads'
  <2>1. CASE DependencyISync(t)
    BY <1>0, <2>1 DEF Threads, Stage, Early, Late, DependencyISync
  <2>2. CASE DependencyWriteback(t)
    BY <1>0, <2>2, Zenon DEF Threads, Stage, Early, Late, DependencyWriteback, EndDependency
  <2>3. CASE Pass(t)
    BY <1>0, <2>3, Zenon DEF Threads, Stage, Early, Late, Pass, AfterWrite
  <2>4. CASE Wait(t)
    BY <1>0, <2>4 DEF Threads, Stage, Early, Late, Wait
  <2>5. ASSUME NEW l \in {"send", "sync"}, Begin(t, l) PROVE Threads'
    BY <1>0, <2>5 DEF Threads, Stage, Early, Late, Begin, Opcode
  <2>6. CASE DependencyCommit(t)
    BY <1>b, <2>6 DEF DependencyCommit
  <2> QED BY <1>4, <2>1, <2>2, <2>3, <2>4, <2>5, <2>6 DEF Decides
<1>5. ASSUME NEW t \in Flushers, Delivers(t) PROVE Threads'
  <2>1. CASE SubmitCreate(t)
    BY <1>0, <2>1 DEF Threads, Stage, Early, Late, SubmitCreate, AfterWrite
  <2>2. CASE SubmitFails(t)
    BY <1>0, <2>2 DEF Threads, Stage, Early, Late, SubmitFails, AfterWrite
  <2>3. CASE SyncRpc(t)
    BY <1>0, <2>3, Zenon DEF Threads, Stage, Early, Late, SyncRpc
  <2>4. CASE SyncDone(t)
    BY <1>0, <2>4, Zenon DEF Threads, Stage, Early, Late, SyncDone, AfterWrite
  <2>5. CASE Finish(t)
    BY <1>0, <2>5 DEF Threads, Stage, Early, Late, Finish, ForFsync
  <2> QED BY <1>5, <2>1, <2>2, <2>3, <2>4, <2>5 DEF Delivers
<1>6. ASSUME Works PROVE Threads'
  <2>1. CASE PfStart
    BY <1>0, <2>1 DEF Threads, Stage, Early, Late, PfStart
  <2>2. CASE PfEndItem
    BY <1>0, <2>2, Zenon DEF Threads, Stage, Early, Late, PfEndItem, LeaveItem
  <2>3. CASE PfCommit
    BY <1>0, <2>3 DEF Threads, Stage, Early, Late, PfCommit
  <2>4. CASE PfBackgroundDone
    BY <1>0, <2>4 DEF Threads, Stage, Early, Late, PfBackgroundDone
  <2>5. CASE PfFini
    BY <1>0, <2>5 DEF Threads, Stage, Early, Late, PfFini
  <2> QED BY <1>6, <2>1, <2>2, <2>3, <2>4, <2>5 DEF Works
<1>7. ASSUME Removes PROVE Threads'
  <2>1. CASE RemoveWaitISync
    BY <1>0, <2>1 DEF Threads, Stage, Early, Late, RemoveWaitISync
  <2>2. CASE RemoveWaitWriteback
    BY <1>0, <2>2 DEF Threads, Stage, Early, Late, RemoveWaitWriteback
  <2>3. CASE RemovePolicy
    <3>1. CASE Goto("rm", "r4") /\ UNCHANGED at
      BY <1>0, <2>3, <3>1, Zenon DEF Threads, Stage, Early, Late, RemovePolicy
    <3>2. CASE Goto("rm", "idle") /\ at' = [at EXCEPT !["rm"] = NoNode]
      BY <1>0, <2>3, <3>2 DEF Threads, Stage, Early, Late, RemovePolicy
    <3> QED BY <2>3, <3>1, <3>2 DEF RemovePolicy
  <2>4. CASE RemoveDone
    BY <1>0, <2>4 DEF Threads, Stage, Early, Late, RemoveDone
  <2> QED BY <1>7, <2>1, <2>2, <2>3, <2>4 DEF Removes
<1> QED BY FlusherSteps, <1>1, <1>2, <1>3, <1>4, <1>5, <1>6, <1>7

\* No thread leaves its code, and a thread in ->write_inode() or memfs_remove_policy() is
\* at a node all the time.
LEMMA RolesStep ==
  ASSUME Ground, FlusherNext
  PROVE  Roles'
<1> USE NodeAssumption, ThreadAssumption DEF Goto, inode, wblist, server, pfvars, fsvars, misc,
     Thread, Flushers
<1>0. /\ UNCHANGED conf /\ Roles
      /\ pc \in [Thread -> Stage] /\ at \in [Thread -> Node \cup {NoNode}]
      /\ pfdir \in Node \cup {NoNode}
  BY DEF FlusherNext, Ground, Threads, Shape
<1>b. ASSUME UNCHANGED <<pc, at, pfdir>> PROVE Roles'
  BY <1>b, <1>0 DEF Roles
<1>1. ASSUME NEW i \in Node, Applies(i) PROVE Roles'
  <2>1. CASE RemoveStart(i)
    BY <1>0, ConfAssumption, <2>1 DEF Roles, Early, Late, RemoveStart, SetFlag, Ground, Shape,
                                      Conf
  <2>2. CASE Create(i) \/ Setattr(i)
    BY <1>b, <2>2 DEF Create, MarkDirty, Listed, Setattr
  <2> QED BY <1>1, <2>1, <2>2 DEF Applies
<1>2. ASSUME NEW i \in Node, Replies(i) PROVE Roles'
  BY <1>b, <1>2 DEF Replies, MdtCreate, CreateOk, CreateErr, ClearFlag
<1>3. ASSUME NEW i \in Node, Enters(i) PROVE Roles'
  <2>1. CASE KfPick(i)
    BY <1>0, <2>1 DEF Roles, Early, Late, KfPick, WriteInode
  <2>2. CASE PfTakeWork(i)
    BY <1>0, <2>2 DEF Roles, Early, Late, PfTakeWork
  <2>3. CASE PfChild(i)
    <3>1. CASE LeaveItem("pfini") /\ UNCHANGED at
      BY <1>0, <2>3, <3>1 DEF Roles, Early, Late, PfChild, LeaveItem
    <3>2. CASE at' = [at EXCEPT !["pf"] = i] /\ Goto("pf", "opc") /\ UNCHANGED pfdir
      BY <1>0, <2>3, <3>2 DEF Roles, Early, Late, PfChild, LeaveItem
    <3>3. CASE UNCHANGED <<at, pc, pfdir>>
      BY <1>0, <2>3, <3>3 DEF Roles, Early, Late, PfChild, LeaveItem
    <3> QED BY <2>3, <3>1, <3>2, <3>3 DEF PfChild, LeaveItem
  <2>4. CASE PfBackground(i)
    <3>1. CASE WriteInode("pf", i, FALSE)
      BY <1>0, <2>4, <3>1 DEF Roles, Early, Late, PfBackground, WriteInode
    <3>2. CASE Goto("pf", "pfini") /\ UNCHANGED at
      BY <1>0, <2>4, <3>2 DEF Roles, Early, Late, PfBackground, WriteInode
    <3> QED BY <2>4, <3>1, <3>2 DEF PfBackground, WriteInode
  <2> QED BY <1>3, <2>1, <2>2, <2>3, <2>4 DEF Enters
<1>4. ASSUME NEW t \in Flushers, Decides(t) PROVE Roles'
  <2>1. CASE DependencyISync(t)
    BY <1>0, <2>1 DEF Roles, Early, Late, DependencyISync
  <2>2. CASE DependencyWriteback(t)
    <3>1. CASE pc' = [pc EXCEPT ![t] = "finish"]
      BY <1>0, <2>2, <3>1 DEF Roles, Early, Late, DependencyWriteback, EndDependency
    <3>2. CASE pc' = [pc EXCEPT ![t] = "opc"]
      BY <1>0, <2>2, <3>2 DEF Roles, Early, Late, DependencyWriteback, EndDependency
    <3> QED BY <2>2, <3>1, <3>2 DEF DependencyWriteback, EndDependency
  <2>3. CASE Pass(t)
    BY <1>0, <2>3 DEF Roles, Early, Late, Pass, AfterWrite, NoISync
  <2>4. CASE Wait(t)
    BY <1>0, <2>4 DEF Roles, Early, Late, Wait
  <2>5. ASSUME NEW l \in {"send", "sync"}, Begin(t, l) PROVE Roles'
    BY <1>0, <2>5 DEF Roles, Early, Late, Begin
  <2>6. CASE DependencyCommit(t)
    BY <1>b, <2>6 DEF DependencyCommit
  <2> QED BY <1>4, <2>1, <2>2, <2>3, <2>4, <2>5, <2>6 DEF Decides
<1>5. ASSUME NEW t \in Flushers, Delivers(t) PROVE Roles'
  <2>1. CASE SubmitCreate(t)
    BY <1>0, <2>1 DEF Roles, Early, Late, SubmitCreate, AfterWrite, NoISync
  <2>2. CASE SubmitFails(t)
    BY <1>0, <2>2 DEF Roles, Early, Late, SubmitFails, AfterWrite, NoISync
  <2>3. CASE SyncRpc(t)
    BY <1>0, <2>3 DEF Roles, Early, Late, SyncRpc
  <2>4. CASE SyncDone(t)
    <3>1. CASE UNCHANGED pc
      BY <1>0, <2>4, <3>1 DEF Roles, Early, Late, SyncDone, AfterWrite, NoISync
    <3>2. CASE pc' = [pc EXCEPT ![t] = AfterWrite(t)]
      BY <1>0, <2>4, <3>2 DEF Roles, Early, Late, SyncDone, AfterWrite, NoISync
    <3> QED BY <2>4, <3>1, <3>2 DEF SyncDone
  <2>5. CASE Finish(t)
    BY <1>0, <2>5 DEF Roles, Early, Late, Finish, ForFsync
  <2> QED BY <1>5, <2>1, <2>2, <2>3, <2>4, <2>5 DEF Delivers
<1>6. ASSUME Works PROVE Roles'
  <2>1. CASE PfStart
    BY <1>0, <2>1 DEF Roles, Early, Late, PfStart
  <2>2. CASE PfEndItem
    <3>1. CASE LeaveItem("pwork")
      BY <1>0, <2>2, <3>1 DEF Roles, Early, Late, PfEndItem, LeaveItem
    <3>2. CASE LeaveItem("pfini")
      BY <1>0, <2>2, <3>2 DEF Roles, Early, Late, PfEndItem, LeaveItem
    <3> QED BY <2>2, <3>1, <3>2 DEF PfEndItem, LeaveItem
  <2>3. CASE PfCommit
    BY <1>0, <2>3 DEF Roles, Early, Late, PfCommit
  <2>4. CASE PfBackgroundDone
    BY <1>0, <2>4 DEF Roles, Early, Late, PfBackgroundDone
  <2>5. CASE PfFini
    BY <1>0, <2>5 DEF Roles, Early, Late, PfFini
  <2> QED BY <1>6, <2>1, <2>2, <2>3, <2>4, <2>5 DEF Works
<1>7. ASSUME Removes PROVE Roles'
  <2>1. CASE RemoveWaitISync
    BY <1>0, <2>1 DEF Roles, Early, Late, RemoveWaitISync
  <2>2. CASE RemoveWaitWriteback
    BY <1>0, <2>2 DEF Roles, Early, Late, RemoveWaitWriteback
  <2>3. CASE RemovePolicy
    <3>1. CASE Goto("rm", "r4") /\ UNCHANGED at
      BY <1>0, <2>3, <3>1 DEF Roles, Early, Late, RemovePolicy
    <3>2. CASE Goto("rm", "idle") /\ at' = [at EXCEPT !["rm"] = NoNode]
      BY <1>0, <2>3, <3>2 DEF Roles, Early, Late, RemovePolicy
    <3> QED BY <2>3, <3>1, <3>2 DEF RemovePolicy
  <2>4. CASE RemoveDone
    BY <1>0, <2>4 DEF Roles, Early, Late, RemoveDone
  <2> QED BY <1>7, <2>1, <2>2, <2>3, <2>4 DEF Removes
<1> QED BY FlusherSteps, <1>1, <1>2, <1>3, <1>4, <1>5, <1>6, <1>7

\* Together: every step keeps the types and the threads in their code.
LEMMA GroundStep ==
  ASSUME Ground, FlusherNext PROVE Ground'
  BY RpcStep, ShapeStep, ThreadsStep, RolesStep DEF Ground

-----------------------------------------------------------------------------
(* The claims on a node. *)

\* A claim is counted as 0 or 1.
One(b) == IF b THEN 1 ELSE 0

\* Thread t has taken WRITEBACK of i and has neither sent a request nor got an answer.
Writes(t, i) == at[t] = i /\ pc[t] \in Late

\* The creates of a node that are on the way or answered, ...
Asked(i) == rpc[i]["sent"] + rpc[i]["ok"] + rpc[i]["err"]

\* ... and those who have yet to send one: a place in the batch and the two flushers.
Pledged(i) == One(i \in batch) + One(Writes("kf", i)) + One(Writes("pf", i))

\* All that can end the writeback of a node.
Claims(i) == Asked(i) + Pledged(i)

\* The strengthening OneWriter needs.  OneWriter speaks of pairs, which a step of a third
\* party can break; what the code maintains is a count: WRITEBACK stands for one claim
\* and without it there is none.  A thread that writes also finds FLUSHING set, which is
\* what the LASSERT after a blocking request asks for.
Exclusive ==
  /\ \A i \in Node : Claims(i) <= One(WB(i))
  /\ \A t \in Flushers : pc[t] \in Late => "FLUSHING" \in dflags[at[t]]

\* No flusher starts or stops writing the node.
SameWrites(j) == \A t \in Flushers : Writes(t, j)' <=> Writes(t, j)

\* The claims on a node are natural numbers.
LEMMA ClaimTypes ==
  ASSUME Ground, NEW j \in Node
  PROVE  /\ rpc[j]["sent"] \in Nat /\ rpc[j]["ok"] \in Nat /\ rpc[j]["err"] \in Nat
         /\ Asked(j) \in Nat /\ Pledged(j) \in Nat /\ Claims(j) \in Nat
<1>1. rpc[j]["sent"] \in Nat /\ rpc[j]["ok"] \in Nat /\ rpc[j]["err"] \in Nat
  BY DEF Ground, RpcType, Rpcs, RpcState
<1>2. Asked(j) \in Nat
  BY <1>1 DEF Asked
<1>3. Pledged(j) \in Nat
  BY DEF Pledged, One
<1> QED BY <1>1, <1>2, <1>3 DEF Claims

\* Without a change of the batch and of the writers nothing is pledged or taken back.
LEMMA SamePledges ==
  ASSUME NEW j \in Node, (j \in batch') <=> (j \in batch), SameWrites(j)
  PROVE  Pledged(j)' = Pledged(j)
<1>1. /\ One(j \in batch)' = One(j \in batch) /\ One(Writes("kf", j))' = One(Writes("kf", j))
      /\ One(Writes("pf", j))' = One(Writes("pf", j))
  BY DEF One, SameWrites, Flushers
<1> QED BY <1>1 DEF Pledged

\* A flusher that starts or stops writing a node adds or removes one claim.
LEMMA PledgeMoves ==
  ASSUME NEW j \in Node, batch' = batch, NEW t \in Flushers, ~(Writes(t, j)' <=> Writes(t, j)),
         \A u \in Flushers : u # t => (Writes(u, j)' <=> Writes(u, j))
  PROVE  /\ Writes(t, j) => Pledged(j)' = Pledged(j) - 1 /\ Pledged(j) > 0
         /\ ~Writes(t, j) => Pledged(j)' = Pledged(j) + 1
<1> DEFINE c == One(j \in batch)
           k == One(Writes("kf", j))
           p == One(Writes("pf", j))
<1>1. c \in Nat /\ k \in Nat /\ p \in Nat /\ c' = c
  BY DEF One
<1>2. CASE t = "kf"
  <2>1. p' = p /\ (Writes(t, j) => k = 1 /\ k' = 0) /\ (~Writes(t, j) => k = 0 /\ k' = 1)
    BY <1>2 DEF One, Flushers
  <2> QED BY <1>1, <2>1 DEF Pledged
<1>3. CASE t = "pf"
  <2>1. k' = k /\ (Writes(t, j) => p = 1 /\ p' = 0) /\ (~Writes(t, j) => p = 0 /\ p' = 1)
    BY <1>3 DEF One, Flushers
  <2> QED BY <1>1, <2>1 DEF Pledged
<1> QED BY <1>2, <1>3 DEF Flushers

\* With one claim at most, a create on the way, a place in the batch and each flusher
\* exclude the others.
LEMMA OneClaim ==
  ASSUME Ground, NEW j \in Node, Claims(j) <= 1
  PROVE  /\ Asked(j) > 0 => j \notin batch /\ ~Writes("kf", j) /\ ~Writes("pf", j)
         /\ j \in batch => ~Writes("kf", j) /\ ~Writes("pf", j)
         /\ ~(Writes("kf", j) /\ Writes("pf", j))
<1> DEFINE c == One(j \in batch)
           k == One(Writes("kf", j))
           p == One(Writes("pf", j))
<1>1. /\ c \in Nat /\ k \in Nat /\ p \in Nat
      /\ (j \in batch => c = 1) /\ (Writes("kf", j) => k = 1) /\ (Writes("pf", j) => p = 1)
  BY DEF One
<1>2. Asked(j) + (c + k + p) <= 1 /\ Asked(j) \in Nat
  BY ClaimTypes DEF Claims, Pledged
<1> QED BY <1>1, <1>2

\* A flusher that writes has WRITEBACK and FLUSHING of its node for itself: no other
\* writer, no place in the batch, no create on the way or answered.
LEMMA WriterAlone ==
  ASSUME Ground, Exclusive, NEW t \in Flushers, pc[t] \in Late
  PROVE  /\ at[t] \in Node /\ Writes(t, at[t]) /\ \A u \in Flushers : u # t => ~Writes(u, at[t])
         /\ WB(at[t]) /\ "FLUSHING" \in dflags[at[t]]
         /\ at[t] \notin batch /\ \A s \in RpcState : rpc[at[t]][s] = 0
<1>1. at[t] \in Node /\ Writes(t, at[t]) /\ "FLUSHING" \in dflags[at[t]]
  BY DEF Ground, Roles, Writes, Exclusive
<1> DEFINE j == at[t]
<1>2. Claims(j) <= One(WB(j)) /\ Claims(j) \in Nat /\ One(WB(j)) \in {0, 1}
  BY <1>1, ClaimTypes DEF Exclusive, One
<1>3. Asked(j) = 0 /\ j \notin batch /\ ~(Writes("kf", j) /\ Writes("pf", j)) /\ Asked(j) \in Nat
  BY <1>1, <1>2, OneClaim, ClaimTypes DEF Flushers
<1>4. Pledged(j) >= 1
  BY <1>1 DEF Pledged, One, Flushers
<1>5. WB(j)
  BY <1>1, <1>2, <1>3, <1>4, ClaimTypes DEF Claims, One
<1>6. \A s \in RpcState : rpc[j][s] = 0
  <2>1. rpc[j]["sent"] \in Nat /\ rpc[j]["ok"] \in Nat /\ rpc[j]["err"] \in Nat
    BY <1>1, ClaimTypes
  <2> QED BY <1>3, <2>1 DEF Asked, RpcState
<1> QED BY <1>1, <1>3, <1>5, <1>6 DEF Flushers

=============================================================================
