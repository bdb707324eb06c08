--------------------------- MODULE WbcKeepProofs ----------------------------
(*****************************************************************************)
(* Mutual exclusion in WbcKeep: the kernel flusher, the work function of     *)
(* wbc.c and the requests on the way to the MDT keep out of each other's way *)
(* by WRITEBACK.  The invariant counts the claims on a node.                 *)
(*****************************************************************************)
EXTENDS WbcKeepClaims

-----------------------------------------------------------------------------
(* What a step does to the claims. *)

\* What a step does to the claims on a node: nothing, WRITEBACK is taken with a claim, it
\* is dropped with one, or a claim is lost while WRITEBACK stays (a create that could not
\* be sent).
ClaimMove(j) ==
  \/ Claims(j)' = Claims(j) /\ (WB(j)' <=> WB(j))
  \/ Claims(j)' = Claims(j) + 1 /\ ~WB(j) /\ WB(j)'
  \/ Claims(j)' = Claims(j) - 1 /\ Claims(j) > 0 /\ ~WB(j)'
  \/ /\ Claims(j)' = Claims(j) - 1 /\ Claims(j) > 0 /\ (WB(j)' <=> WB(j))
     /\ (NoPolicy("pf") /\ pc["pf"] # "idle") \/ {"prep", "submit"} \cap Faults # {}

\* A flusher hands its write over to the MDT or gives it up.
Ends(t) == SubmitCreate(t) \/ SubmitFails(t) \/ SyncDone(t)

\* It then writes no longer, the other flusher goes on, and no LASSERT fails.
LEMMA WriteEnds ==
  ASSUME Ground, Exclusive, NEW t \in Flushers, Ends(t)
  PROVE  /\ pc[t] \in Late /\ Writes(t, at[t]) /\ pc'[t] \notin Late /\ at' = at /\ panic' = panic
         /\ \A u \in Flushers :
              u # t => pc'[u] = pc[u] /\ \A j \in Node : Writes(u, j)' <=> Writes(u, j)
         /\ \A j \in Node : j # at[t] => SameWrites(j)
<1> USE ThreadAssumption DEF Goto, inode, wblist, server, pfvars, fsvars, misc, Thread, Flushers
<1>0. pc \in [Thread -> Stage] /\ pc[t] \in Late /\ AfterWrite(t) \notin Late
  BY DEF Ground, Threads, Ends, SubmitCreate, SubmitFails, SyncDone, Late, AfterWrite
<1>1. WB(at[t]) /\ "FLUSHING" \in dflags[at[t]] /\ ~ForFsync(t) /\ Writes(t, at[t])
  BY <1>0, WriterAlone DEF ForFsync
<1>2. pc' = [pc EXCEPT ![t] = AfterWrite(t)] /\ at' = at /\ panic' = panic
  <2>1. CASE SubmitCreate(t) \/ SubmitFails(t)
    BY <2>1 DEF SubmitCreate, SubmitFails
  <2>2. CASE SyncDone(t)
    BY <1>1, <2>2 DEF SyncDone, WB
  <2> QED BY <2>1, <2>2 DEF Ends
<1> QED BY <1>0, <1>1, <1>2 DEF Writes, SameWrites

\* Every step of the flushers, the MDT, the application and the remover moves the claims
\* on each node in one of these four ways.  The case that matters is Begin(): it adds a
\* claim, and wbc_flush_opcode_get() has just seen that WRITEBACK is clear.
LEMMA ClaimStep ==
  ASSUME Ground, Exclusive, FlusherNext, NEW j \in Node PROVE ClaimMove(j)
<1> USE NodeAssumption, ThreadAssumption
    DEF Goto, inode, wblist, server, pfvars, fsvars, misc, Thread
<1>0. Asked(j) \in Nat /\ Pledged(j) \in Nat /\ Claims(j) = Asked(j) + Pledged(j)
  BY ClaimTypes DEF Claims
<1>r. rpc[j]["sent"] \in Nat /\ rpc[j]["ok"] \in Nat /\ rpc[j]["err"] \in Nat
  BY ClaimTypes
<1>s. ASSUME Asked(j)' = Asked(j), (j \in batch') <=> (j \in batch), SameWrites(j),
             WB(j)' <=> WB(j)
      PROVE  ClaimMove(j)
  BY <1>s, SamePledges DEF ClaimMove, Claims
<1>1. CASE Aside
  <2>1. SameWrites(j)
    BY <1>1 DEF Aside, SameWriters, SameWrites, Writes
  <2> QED BY <1>1, <1>s, <2>1 DEF Aside, SameMarks, Asked
<1>2. CASE Commits
  <2>1. /\ rpc'[j]["sent"] = rpc[j]["sent"] + One(j \in batch)
        /\ rpc'[j]["ok"] = rpc[j]["ok"] /\ rpc'[j]["err"] = rpc[j]["err"]
    BY <1>2, SendBatchRpc DEF Ground, Commits, One
  <2>2. Asked(j)' = Asked(j) + One(j \in batch) /\ One(j \in batch) \in Nat
    BY <1>r, <2>1 DEF Asked, One
  <2>3. batch' = {} /\ SameWriters /\ (WB(j)' <=> WB(j))
    BY <1>2 DEF Commits, SendBatch, WB
  <2>4. /\ One(j \in batch)' = 0 /\ One(Writes("kf", j))' = One(Writes("kf", j))
        /\ One(Writes("pf", j))' = One(Writes("pf", j))
    BY <2>3 DEF One, SameWriters, Writes, Flushers
  <2>5. Pledged(j)' = Pledged(j) - One(j \in batch)
    BY <2>2, <2>4 DEF Pledged, One
  <2> QED BY <1>0, <2>2, <2>3, <2>5 DEF ClaimMove, Claims
<1>3. ASSUME NEW i \in Node, MdtCreate(i) PROVE ClaimMove(j)
  <2>1. \/ rpc'[j] = rpc[j]
        \/ /\ rpc'[j]["sent"] = rpc[j]["sent"] - 1
           /\ \/ rpc'[j]["ok"] = rpc[j]["ok"] + 1 /\ rpc'[j]["err"] = rpc[j]["err"]
              \/ rpc'[j]["ok"] = rpc[j]["ok"] /\ rpc'[j]["err"] = rpc[j]["err"] + 1
    BY <1>3, MdtCreateRpc DEF Ground
  <2>2. Asked(j)' = Asked(j)
    BY <1>r, <2>1 DEF Asked
  <2>3. UNCHANGED <<batch, pc, at, flags>>
    BY <1>3 DEF MdtCreate
  <2> QED BY <1>s, <2>2, <2>3 DEF SameWrites, Writes, WB
<1>4. ASSUME NEW i \in Node, CreateOk(i) \/ CreateErr(i) PROVE ClaimMove(j)
  <2>1. batch' = batch /\ SameWrites(j)
    BY <1>4 DEF CreateOk, CreateErr, SameWrites, Writes
  <2>2. CASE j = i
    <3>1. Asked(j)' = Asked(j) - 1 /\ Asked(j) > 0
      <4>1. CASE CreateOk(i)
        <5>1. /\ rpc[j]["ok"] > 0 /\ rpc'[j]["ok"] = rpc[j]["ok"] - 1
              /\ rpc'[j]["sent"] = rpc[j]["sent"] /\ rpc'[j]["err"] = rpc[j]["err"]
          BY <2>2, <4>1, CreateOkRpc, Zenon DEF Ground, CreateOk
        <5> QED BY <1>r, <5>1 DEF Asked
      <4>2. CASE CreateErr(i)
        <5>1. /\ rpc[j]["err"] > 0 /\ rpc'[j]["err"] = rpc[j]["err"] - 1
              /\ rpc'[j]["sent"] = rpc[j]["sent"] /\ rpc'[j]["ok"] = rpc[j]["ok"]
          BY <2>2, <4>2, CreateErrRpc, Zenon DEF Ground, CreateErr
        <5> QED BY <1>r, <5>1 DEF Asked
      <4> QED BY <1>4, <4>1, <4>2
    <3>2. ~WB(j)'
      BY <1>4, <2>2 DEF CreateOk, CreateErr, ClearFlag, WB, Ground, Shape
    <3> QED BY <1>0, <2>1, <3>1, <3>2, SamePledges DEF ClaimMove, Claims
  <2>3. CASE j # i
    <3>1. rpc'[j] = rpc[j]
      BY <1>4, <2>3, CreateOkRpc, CreateErrRpc DEF Ground
    <3>2. WB(j)' <=> WB(j)
      BY <1>4, <2>3 DEF Ground, Shape, CreateOk, CreateErr, ClearFlag, WB
    <3> QED BY <1>s, <2>1, <3>1, <3>2 DEF Asked
  <2> QED BY <2>2, <2>3
<1>5. ASSUME NEW t \in Flushers, NEW l \in {"send", "sync"}, Begin(t, l) PROVE ClaimMove(j)
  <2>1. /\ at[t] \in Node /\ pc[t] \notin Late /\ pc'[t] \in Late /\ at' = at
        /\ \A u \in Flushers : u # t => pc'[u] = pc[u]
    BY <1>5 DEF Begin, Ground, Roles, Threads, Flushers, Early, Late
  <2>2. batch' = batch /\ Asked(j)' = Asked(j)
    BY <1>5 DEF Begin, Asked
  <2>3. CASE j # at[t]
    <3>1. SameWrites(j) /\ (WB(j)' <=> WB(j))
      BY <1>5, <2>1, <2>3 DEF SameWrites, Writes, Begin, WB, Ground, Shape
    <3> QED BY <1>s, <2>2, <3>1
  <2>4. CASE j = at[t]
    <3>1. /\ ~Writes(t, j) /\ Writes(t, j)'
          /\ \A u \in Flushers : u # t => (Writes(u, j)' <=> Writes(u, j))
      BY <2>1, <2>4 DEF Writes
    <3>2. Pledged(j)' = Pledged(j) + 1
      BY <2>2, <3>1, PledgeMoves
    <3>3. ~WB(j) /\ WB(j)'
      BY <1>5, <2>1, <2>4 DEF Begin, Busy, WB, Ground, Shape
    <3> QED BY <1>0, <2>2, <3>2, <3>3 DEF ClaimMove, Claims
  <2> QED BY <2>3, <2>4
<1>6. ASSUME NEW t \in Flushers, SyncRpc(t) PROVE ClaimMove(j)
  <2>1. SameWrites(j)
    BY <1>6 DEF SameWrites, Writes, Ground, Threads, Late, Flushers, SyncRpc
  <2> QED BY <1>6, <1>s, <2>1 DEF SyncRpc, WB, Asked
<1>7. ASSUME NEW t \in Flushers, Ends(t) PROVE ClaimMove(j)
  <2>1. /\ at[t] \in Node /\ WB(at[t]) /\ "FLUSHING" \in dflags[at[t]] /\ ~ForFsync(t)
        /\ at[t] \notin batch
    BY <1>7, WriteEnds, WriterAlone DEF ForFsync, Flushers
  <2>2. /\ \A i \in Node : i # at[t] => SameWrites(i)
        /\ Writes(t, at[t]) /\ pc'[t] \notin Late
        /\ \A u \in Flushers : u # t => \A i \in Node : Writes(u, i)' <=> Writes(u, i)
    BY <1>7, WriteEnds
  <2>4. j = at[t] => /\ ~(Writes(t, j)' <=> Writes(t, j)) /\ Writes(t, j)
                     /\ \A u \in Flushers : u # t => (Writes(u, j)' <=> Writes(u, j))
    BY <2>1, <2>2 DEF Writes
  <2>3. CASE SubmitCreate(t)
    <3>0. UNCHANGED flags
      BY <2>3 DEF SubmitCreate
    <3>1. CASE j # at[t]
      BY <1>s, <2>1, <2>2, <2>3, <3>0, <3>1, SubmitRpc DEF Ground, Flushers, Asked, WB
    <3>2. CASE j = at[t] /\ j \in batch'
      <4>1. rpc' = rpc
        BY <2>1, <2>3, <3>2, SubmitRpc DEF Ground, Flushers
      <4>2. /\ One(j \in batch) = 0 /\ One(j \in batch)' = 1
            /\ One(Writes(t, j)) = 1 /\ One(Writes(t, j))' = 0
            /\ \A u \in Flushers : u # t => One(Writes(u, j))' = One(Writes(u, j))
            /\ \A u \in Flushers : One(Writes(u, j)) \in Nat
        BY <2>1, <2>4, <3>2 DEF One
      <4>3. Pledged(j)' = Pledged(j)
        BY <4>2 DEF Pledged, Flushers
      <4> QED BY <3>0, <4>1, <4>3 DEF ClaimMove, Claims, Asked, WB
    <3>3. CASE j = at[t] /\ j \notin batch'
      <4>1. /\ batch' = batch /\ rpc'[j]["sent"] = rpc[j]["sent"] + 1
            /\ rpc'[j]["ok"] = rpc[j]["ok"] /\ rpc'[j]["err"] = rpc[j]["err"]
        BY <2>1, <2>3, <3>3, SubmitRpc DEF Ground, Flushers
      <4>2. Asked(j)' = Asked(j) + 1
        BY <1>r, <4>1 DEF Asked
      <4>3. Pledged(j)' = Pledged(j) - 1
        BY <2>4, <3>3, <4>1, PledgeMoves
      <4> QED BY <1>0, <3>0, <4>2, <4>3 DEF ClaimMove, Claims, WB
    <3> QED BY <3>1, <3>2, <3>3
  <2>5. CASE SubmitFails(t) \/ SyncDone(t)
    <3>1. rpc' = rpc /\ batch' = batch
      BY <2>5 DEF SubmitFails, SyncDone
    <3>2. /\ j # at[t] => (WB(j)' <=> WB(j))
          /\ j = at[t] => \/ ~WB(j)'
                          \/ /\ WB(j)' <=> WB(j)
                             /\ \/ NoPolicy("pf") /\ pc["pf"] # "idle"
                                \/ {"prep", "submit"} \cap Faults # {}
      <4>1. CASE SubmitFails(t)
        BY <4>1 DEF SubmitFails, WB, NoPolicy
      <4>2. CASE SyncDone(t)
        BY <2>1, <4>2 DEF SyncDone, WB, Ground, Shape
      <4> QED BY <2>5, <4>1, <4>2
    <3>3. CASE j # at[t]
      BY <1>s, <2>2, <3>1, <3>2, <3>3 DEF Asked
    <3>4. CASE j = at[t]
      <4>1. Pledged(j)' = Pledged(j) - 1 /\ Pledged(j) > 0
        BY <2>4, <3>1, <3>4, PledgeMoves
      <4>2. Claims(j)' = Claims(j) - 1 /\ Claims(j) > 0
        BY <1>0, <3>1, <4>1 DEF Claims, Asked
      <4> QED BY <3>2, <3>4, <4>2 DEF ClaimMove
    <3> QED BY <3>3, <3>4
  <2> QED BY <1>7, <2>3, <2>5 DEF Ends
<1> QED BY WriteSteps, <1>1, <1>2, <1>3, <1>4, <1>5, <1>6, <1>7 DEF WriteStep, Ends

\* FLUSHING stays while a thread writes: only the end of the same write, or a callback of
\* a create, clears it, and there is none of the latter while a thread has the claim.
LEMMA FlushingStep ==
  ASSUME Ground, Exclusive, FlusherNext, NEW u \in Flushers, pc'[u] \in Late
  PROVE  "FLUSHING" \in dflags'[at'[u]]
<1> USE NodeAssumption, ThreadAssumption
    DEF Goto, inode, wblist, server, pfvars, fsvars, misc, Thread
<1>0. pc[u] \in Late => at[u] \in Node /\ Writes(u, at[u]) /\ "FLUSHING" \in dflags[at[u]]
  BY WriterAlone
<1>a. CASE UNCHANGED dflags /\ UNCHANGED at /\ pc[u] \in Late
  BY <1>0, <1>a
<1>1. CASE Aside
  BY <1>0, <1>1 DEF Aside, SameMarks, SameWriters
<1>2. CASE Commits
  BY <1>0, <1>2 DEF Commits, SameWriters
<1>3. ASSUME NEW i \in Node, MdtCreate(i) \/ CreateErr(i) PROVE "FLUSHING" \in dflags'[at'[u]]
  BY <1>3, <1>a DEF MdtCreate, CreateErr
<1>4. ASSUME NEW i \in Node, CreateOk(i) PROVE "FLUSHING" \in dflags'[at'[u]]
  <2>1. pc[u] \in Late /\ at'[u] = at[u] /\ rpc[i]["ok"] > 0
    BY <1>4 DEF CreateOk
  <2>2. at[u] # i
    BY <2>1, WriterAlone DEF RpcState
  <2> QED BY <1>0, <1>4, <2>1, <2>2 DEF CreateOk, Ground, Shape
<1>5. ASSUME NEW t \in Flushers, NEW l \in {"send", "sync"}, Begin(t, l)
      PROVE  "FLUSHING" \in dflags'[at'[u]]
  <2>1. at[t] \in Node /\ at' = at /\ (u # t => pc'[u] = pc[u])
    BY <1>5 DEF Begin, Ground, Roles, Threads, Flushers, Early, Late
  <2>2. /\ dflags' = [dflags EXCEPT ![at[t]] = {"FLUSHING"}]
        /\ dflags \in [Node -> SUBSET {"ATTR", "REMOVE", "FLUSHING"}]
    BY <1>5 DEF Begin, Ground, Shape
  <2> QED BY <1>0, <2>1, <2>2
<1>6. ASSUME NEW t \in Flushers, SyncRpc(t) PROVE "FLUSHING" \in dflags'[at'[u]]
  BY <1>6, <1>a DEF SyncRpc, Ground, Threads, Late, Flushers
<1>7. ASSUME NEW t \in Flushers, Ends(t) PROVE "FLUSHING" \in dflags'[at'[u]]
  <2>1. pc[t] \in Late /\ at' = at /\ u # t /\ pc[u] \in Late
    BY <1>7, WriteEnds DEF Writes
  <2>2. at[u] # at[t]
    BY <2>1, WriterAlone
  <2>3. CASE SubmitCreate(t) \/ SubmitFails(t)
    BY <1>a, <2>1, <2>3 DEF SubmitCreate, SubmitFails
  <2>4. CASE SyncDone(t)
    <3>1. at[t] \in Node /\ WB(at[t]) /\ "FLUSHING" \in dflags[at[t]]
      BY <2>1, WriterAlone
    <3>2. dflags' = [dflags EXCEPT ![at[t]] = @ \ {"FLUSHING"}]
      BY <2>4, <3>1 DEF SyncDone, WB
    <3> QED BY <1>0, <2>1, <2>2, <3>1, <3>2 DEF Ground, Shape
  <2> QED BY <1>7, <2>3, <2>4 DEF Ends
<1> QED BY WriteSteps, <1>1, <1>2, <1>3, <1>4, <1>5, <1>6, <1>7 DEF WriteStep, Ends

\* No LASSERT fails in a step: the only one the flushers reach is the one after a
\* blocking request, and it finds WRITEBACK and FLUSHING.
LEMMA CalmStep ==
  ASSUME Ground, Exclusive, FlusherNext, panic = "none" PROVE panic' = "none"
<1>1. CASE Aside \/ Commits
  BY <1>1 DEF Aside, Commits
<1>2. ASSUME NEW i \in Node, MdtCreate(i) \/ CreateOk(i) \/ CreateErr(i) PROVE panic' = "none"
  BY <1>2 DEF MdtCreate, CreateOk, CreateErr, misc
<1>3. ASSUME NEW t \in Flushers, SyncRpc(t) \/ \E l \in {"send", "sync"} : Begin(t, l)
      PROVE  panic' = "none"
  BY <1>3 DEF SyncRpc, Begin, misc
<1>4. ASSUME NEW t \in Flushers, Ends(t) PROVE panic' = "none"
  BY <1>4, WriteEnds
<1> QED BY WriteSteps, <1>1, <1>2, <1>3, <1>4 DEF WriteStep, Ends

-----------------------------------------------------------------------------
(* The invariant and the theorems. *)

\* Creates can be sent.  When wbc_prep_op_item(), md_reint_async() or md_batch_add()
\* fails, or pf runs with the request-set policy it does not know, WRITEBACK stays set
\* with nobody left to clear it.
Submits ==
  /\ {"prep", "submit"} \cap Faults = {}
  /\ "pf" \in conf.threads => conf.pol # "RQSET"

\* Then WRITEBACK is never left without a claim either.
Answered == \A i \in Node : Claims(i) = One(WB(i))

\* At the start nothing is claimed and every thread is idle.
LEMMA InitGround ==
  ASSUME Init PROVE Ground /\ Exclusive /\ Answered /\ panic = "none"
<1> USE NodeAssumption, ThreadAssumption, Init
<1>1. Shape
  BY DEF Init, Shape
<1>2. Threads
  BY DEF Init, Threads, Thread, Stage
<1>3. RpcType
  BY DEF Init, RpcType, Rpcs
<1>4. Roles
  BY DEF Init, Roles, Thread, Flushers, Early, Late
<1>5. ASSUME NEW i \in Node PROVE Claims(i) = 0 /\ ~WB(i)
  BY DEF Init, Claims, Asked, Pledged, One, Writes, Thread, Late, WB, RpcState
<1> QED BY <1>1, <1>2, <1>3, <1>4, <1>5 DEF Ground, Exclusive, Answered, One, Init, Thread,
     Flushers, Late

\* A step never leaves two claims on a node.
LEMMA ExclusiveStep ==
  ASSUME Ground, Exclusive, FlusherNext PROVE Exclusive'
<1>1. ASSUME NEW i \in Node PROVE Claims(i)' <= One(WB(i))'
  <2>1. Claims(i) \in Nat
    BY ClaimTypes
  <2> QED BY <2>1, ClaimStep DEF ClaimMove, Exclusive, One
<1> QED BY <1>1, FlushingStep DEF Exclusive

\* If creates can be sent, no step leaves WRITEBACK without a claim.
LEMMA AnsweredStep ==
  ASSUME Submits, Ground, Exclusive, Answered, FlusherNext PROVE Answered'
<1>1. ~(NoPolicy("pf") /\ pc["pf"] # "idle") /\ {"prep", "submit"} \cap Faults = {}
  BY DEF Submits, Ground, Shape, Roles, NoPolicy
<1> SUFFICES ASSUME NEW i \in Node PROVE Claims(i)' = One(WB(i))'
  BY DEF Answered
<1>2. Claims(i) \in Nat /\ Claims(i) = One(WB(i))
  BY ClaimTypes DEF Answered
<1>3. ClaimMove(i)
  BY ClaimStep
<1> QED
  BY <1>1, <1>2, <1>3 DEF ClaimMove, One

\* The inductive invariant of the writers.
FlushInv == Ground /\ Exclusive /\ panic = "none"

\* The configuration of a mount does not change.
LEMMA ConfFixed ==
  ASSUME [Next]_vars PROVE conf' = conf
  BY DEF Next, Application, Network, KfStep, PfStep, RmStep, FsyncStep, vars

\* It holds without fsync(2), whatever fails: every bound, every tree, every fault.
THEOREM FlushInvAlways ==
  Spec => [](FlushersOnly => FlushInv)
<1>1. Init => FlushInv
  BY InitGround DEF FlushInv
<1>2. (FlushersOnly => FlushInv) /\ [Next]_vars => (FlushersOnly => FlushInv)'
  <2> SUFFICES ASSUME FlushersOnly => FlushInv, [Next]_vars, FlushersOnly' PROVE FlushInv'
    OBVIOUS
  <2>1. FlushersOnly /\ FlushInv
    BY ConfFixed DEF FlushersOnly
  <2>2. CASE Next
    <3>1. FlusherNext
      BY <2>1, <2>2, OnlyFlushers DEF FlushInv
    <3> QED BY <2>1, <3>1, GroundStep, ExclusiveStep, CalmStep DEF FlushInv
  <2>3. CASE UNCHANGED vars
    <3>1. Ground'
      <4>1. Shape' /\ RpcType'
        BY <2>1, <2>3 DEF FlushInv, Ground, Shape, RpcType, vars
      <4>2. Threads' /\ Roles'
        BY <2>1, <2>3 DEF FlushInv, Ground, Threads, Roles, vars
      <4> QED BY <4>1, <4>2 DEF Ground
    <3>2. Exclusive'
      BY <2>1, <2>3 DEF FlushInv, Exclusive, Claims, Asked, Pledged, One, Writes, WB, vars
    <3> QED BY <2>1, <2>3, <3>1, <3>2 DEF FlushInv, vars
  <2> QED BY <2>2, <2>3
<1> QED BY <1>1, <1>2, PTL DEF Spec

\* One claim at most leaves no room for a writer next to a request.
LEMMA ClaimsExclude ==
  ASSUME Ground, Exclusive PROVE OneWriter
<1> SUFFICES ASSUME NEW i \in Node, Writing(i), Pending(i) \/ i \in batch PROVE FALSE
  BY DEF OneWriter
<1>1. \E t \in Flushers : Writes(t, i)
  BY DEF Writing, Ground, Roles, Thread, Flushers, Writes, Late
<1>2. Claims(i) <= 1
  BY ClaimTypes DEF Exclusive, One
<1>3. Asked(i) > 0 \/ i \in batch
  BY ClaimTypes DEF Pending, RpcState, Asked
<1> QED BY <1>1, <1>2, <1>3, OneClaim DEF Flushers

\* WRITEBACK excludes the kernel flusher, wbc_workfn() and requests on the way from each
\* other: a node has one create at a time, also when requests or answers fail.
THEOREM OneWriterAlways ==
  Spec => [](FlushersOnly => OneWriter)
<1>1. FlushInv => OneWriter
  BY ClaimsExclude DEF FlushInv
<1> QED BY <1>1, FlushInvAlways, PTL

\* The LASSERT of wbc_inode_flush_lockless_sync() and wbcfs_writeback_dir_child() after a
\* blocking request holds in every interleaving of the flushers and the remover.
THEOREM NoPanicAlways ==
  Spec => [](FlushersOnly => NoPanic)
<1>1. FlushInv => NoPanic
  BY DEF FlushInv, NoPanic
<1> QED BY <1>1, FlushInvAlways, PTL

\* The one claim behind WRITEBACK is a writer, a request or a place in the batch.
LEMMA WritebackCounted ==
  ASSUME Ground, Answered, NEW i \in Node, WB(i) PROVE Writing(i) \/ Pending(i) \/ i \in batch
<1>1. Claims(i) = 1
  BY DEF Answered, One
<1>2. CASE Asked(i) > 0
  BY <1>2, ClaimTypes DEF Asked, Pending, RpcState
<1>3. CASE Asked(i) = 0
  BY <1>1, <1>3, ClaimTypes DEF Claims, Pledged, One, Writes, Writing, Late, Thread
<1> QED BY <1>2, <1>3, ClaimTypes

\* When creates can be sent, WRITEBACK is set only while a thread or a request is there
\* to clear it: those who wait for it (wbc_flush_dependency_check(),
\* memfs_remove_policy()) wait for something.
THEOREM WritebackMeansBusyAlways ==
  Spec => [](FlushersOnly /\ Submits => WritebackMeansBusy)
<1> DEFINE Inv == Submits => Answered
<1>1. Init => Inv
  BY InitGround
<1>2. (FlushersOnly => FlushInv) /\ (FlushersOnly => Inv) /\ [Next]_vars => (FlushersOnly => Inv)'
  <2> SUFFICES ASSUME FlushersOnly => FlushInv, FlushersOnly => Inv, [Next]_vars, FlushersOnly',
       Submits'
               PROVE  Answered'
    OBVIOUS
  <2>1. FlushersOnly /\ FlushInv /\ Submits /\ Answered
    BY ConfFixed DEF FlushersOnly, Submits
  <2>2. CASE Next
    BY <2>1, <2>2, OnlyFlushers, AnsweredStep DEF FlushInv
  <2>3. CASE UNCHANGED vars
    BY <2>1, <2>3 DEF Answered, Claims, Asked, Pledged, One, Writes, WB, vars
  <2> QED BY <2>2, <2>3
<1>3. FlushInv /\ Answered => WritebackMeansBusy
  BY WritebackCounted DEF FlushInv, WritebackMeansBusy, WB
<1> QED BY <1>1, <1>2, <1>3, FlushInvAlways, PTL DEF Spec

=============================================================================
