------------------------------ MODULE WbcContext ------------------------------
(***************************************************************************)
(* One call of wbc_flush_dir(): the flusher walks the children of a        *)
(* directory, hands their updates to an I/O context in lists of bounded    *)
(* length, waits for the answers and reports one return code.  The context *)
(* sends through one of three policies:                                    *)
(*   "PTLRPCD"  one asynchronous RPC per update,                           *)
(*   "BATCH"    updates packed into one request per MDT (mdc_batch.c),     *)
(*   "RQSET"    one RPC per update, collected in a request set.            *)
(* Completions run in the ptlrpcd threads, at any time after the send and  *)
(* in any order.  A return code is "ok" or "err"; what an update says is   *)
(* irrelevant here.                                                        *)
(***************************************************************************)
EXTENDS Integers, FiniteSets

CONSTANTS
  Children,   \* the cached children of the directory being flushed
  Tgts,       \* the MDTs
  TgtOf,      \* the MDT each child's update goes to
  Policies,   \* the values of wbcc_flush_pol to consider
  MaxQlen,    \* wbcc_max_qlen; 0 is unlimited
  MaxBatch,   \* wbcc_max_batch_count; 0 is unlimited
  Faults      \* which of FaultKinds can happen

\* Where the code has an error path.
\*   md      update of the directory's own metadata     init    context set-up
\*   prep    building an update (wbc_prep_op_item)       submit  sending one RPC
\*   head    allocating a batch request                  pack    packing into it
\*   send    building the batch RPC                      rpc     a failed answer
\*   reopen  reopening the local file handles
FaultKinds == {"md", "init", "prep", "submit", "head", "pack", "send", "rpc", "reopen"}

ASSUME ChildrenFinite == IsFiniteSet(Children)
ASSUME TgtAssumption == TgtOf \in [Children -> Tgts]
ASSUME PolicyAssumption == Policies \subseteq {"PTLRPCD", "BATCH", "RQSET"}
ASSUME BoundAssumption == MaxQlen \in Nat /\ MaxBatch \in Nat
ASSUME FaultAssumption == Faults \subseteq FaultKinds

VARIABLES
  pol,        \* ioc_pol: the configuration does not change during a call
  pc,         \* where the flusher is in wbc_flush_dir()
  unscanned,  \* children of d_subdirs the scan has not reached
  childlist,  \* dirty_children_list
  call,       \* why the list is flushed: "unplug" in mid-scan, or "last"
  rc,         \* the flusher's return code
  ctx,        \* "lazy" until ioc_inited is set, then "inited"
  syncNr,     \* ioc_anchor.wsi_sync_nr
  syncRc,     \* ioc_anchor.wsi_sync_rc
  rqset,      \* ioc_rqset: "null" or "live"
  head,       \* mbh_head of each MDT's sub batch; "nosub" before there is one
  item,       \* the update of each child
  panic       \* the first assertion or memory error the kernel stops at

flusher == <<pc, unscanned, childlist, call, rc>>
anchor == <<syncNr, syncRc>>
vars == <<pol, pc, unscanned, childlist, call, rc, ctx, syncNr, syncRc, rqset,
          head, item, panic>>

Rc == {"ok", "err"}

\* none: not looked at; skipped: nothing to flush; unbuilt: wbc_prep_op_item()
\* failed; failed: not sent after an error, or answered with one; queued: in a
\* batch request; sent: at the MDT; lost: its batch request was freed without a
\* callback; done: answered.
ItemState == {"none", "skipped", "unbuilt", "failed", "queued", "sent", "lost", "done"}

TypeOK ==
  /\ pol \in Policies
  /\ pc \in {"start", "scan", "prepare", "submit", "commit", "wait", "check",
             "fini", "finiwait", "returned"}
  /\ unscanned \subseteq Children /\ childlist \subseteq Children
  /\ call \in {"unplug", "last"} /\ ctx \in {"lazy", "inited"}
  /\ rc \in Rc /\ syncRc \in Rc
  /\ syncNr \in Int
  /\ rqset \in {"null", "live"}
  /\ head \in [Tgts -> {"nosub", "null", "open", "errptr"}]
  /\ item \in [Children -> ItemState]
  /\ panic \in {"none", "list", "memory", "waitq"}

\* wbcfs_context_init(.., lazy_init = true, anchor_used = true): all zero.
Init ==
  /\ pol \in Policies
  /\ pc = "start" /\ unscanned = Children /\ childlist = {} /\ call = "last"
  /\ rc = "ok" /\ ctx = "lazy"
  /\ syncNr = 0 /\ syncRc = "ok" /\ rqset = "null"
  /\ head = [t \in Tgts |-> "nosub"]
  /\ item = [c \in Children |-> "none"]
  /\ panic = "none"

Running == panic = "none"

\* ret is the outcome of a call that has error path f: "ok", or "err" if f may happen.
Outcome(f) == IF f \in Faults THEN Rc ELSE {"ok"}

\* Mutant: the last result is kept.
NoteRcLast(ret) == syncRc' = ret

\* wbc_sync_io_note(): the first error is kept.
NoteRc(ret) == syncRc' = IF syncRc = "ok" THEN ret ELSE syncRc

Queued(t) == {c \in Children : item[c] = "queued" /\ TgtOf[c] = t}

---------------------------------------------------------------------------
(* The scan of wbc_flush_dir(). *)

\* wbc_inode_update_metadata() on the directory itself comes first.
UpdateMetadata ==
  /\ Running /\ pc = "start"
  /\ rc' \in Outcome("md")
  /\ pc' = IF rc' = "ok" THEN "scan" ELSE "returned"
  /\ UNCHANGED <<unscanned, childlist, call, ctx, anchor, rqset, head, item, panic>>

NeedUnplug(count) == MaxQlen > 0 /\ count > MaxQlen

CollectChild(c) ==
  /\ Running /\ pc = "scan" /\ c \in unscanned
  /\ unscanned' = unscanned \ {c}
  /\ childlist' = childlist \cup {c}
  /\ IF NeedUnplug(Cardinality(childlist'))
       THEN pc' = "prepare" /\ call' = "unplug"
       ELSE UNCHANGED <<pc, call>>
  /\ UNCHANGED <<rc, ctx, anchor, rqset, head, item, panic>>

EndScan ==
  /\ Running /\ pc = "scan" /\ unscanned = {}
  /\ pc' = "prepare" /\ call' = "last"
  /\ UNCHANGED <<unscanned, childlist, rc, ctx, anchor, rqset, head, item, panic>>

---------------------------------------------------------------------------
(* wbc_flush_dir_children(): prepare, submit every child of the list, commit. *)

\* Mutant: the anchor starts without the flusher's reference.
PrepareContextNoRef ==
  /\ Running /\ pc = "prepare"
  /\ pc' = "submit" /\ rc' = "ok" /\ ctx' = "inited"
  /\ syncNr' = (IF ctx = "inited" THEN syncNr ELSE 0)
  /\ UNCHANGED <<unscanned, childlist, call, head, item, panic, syncRc, rqset>>

\* Mutant: each list sets the context up again.
PrepareContextResets ==
  /\ Running /\ pc = "prepare"
  /\ pc' = "submit" /\ rc' = "ok" /\ ctx' = "inited" /\ syncRc' = "ok"
  /\ syncNr' = (IF ctx = "inited" THEN syncNr ELSE IF pol = "RQSET" THEN 0 ELSE 1)
  /\ rqset' = (IF pol = "RQSET" THEN "live" ELSE "null")
  /\ UNCHANGED <<unscanned, childlist, call, head, item, panic>>

\* wbcfs_context_prepare(): the context is set up by the first list.  Only RQSET
\* leaves the anchor at zero, without the flusher's own reference.
PrepareContext ==
  /\ Running /\ pc = "prepare"
  /\ \/ ctx = "inited" /\ pc' = "submit" /\ rc' = "ok" /\ UNCHANGED <<ctx, anchor, rqset>>
     \/ ctx = "lazy" /\ "init" \in Faults
        /\ pc' = "check" /\ rc' = "err" /\ UNCHANGED <<ctx, anchor, rqset>>
     \/ ctx = "lazy" /\ pc' = "submit" /\ rc' = "ok" /\ ctx' = "inited" /\ syncRc' = "ok"
        /\ syncNr' = (IF pol = "RQSET" THEN 0 ELSE 1)
        /\ rqset' = (IF pol = "RQSET" THEN "live" ELSE "null")
  /\ UNCHANGED <<unscanned, childlist, call, head, item, panic>>

Submitting(c) == Running /\ pc = "submit" /\ c \in childlist /\ childlist' = childlist \ {c}

\* wbc_flush_opcode_get() found nothing to flush for the child.
SkipChild(c) ==
  /\ Submitting(c)
  /\ item' = [item EXCEPT ![c] = "skipped"]
  /\ UNCHANGED <<pc, unscanned, call, rc, ctx, anchor, rqset, head, panic>>

\* An error before the update takes a reference on the anchor ends the list.
PrepFails(c) ==
  /\ Submitting(c) /\ "prep" \in Faults
  /\ item' = [item EXCEPT ![c] = "unbuilt"]
  /\ rc' = "err" /\ pc' = "check"
  /\ UNCHANGED <<unscanned, call, ctx, anchor, rqset, head, panic>>

\* Mutant: a failed submission does not drop its reference.
SubmitFailsNoNote(c) ==
  /\ rc' = "err" /\ pc' = "check"
  /\ syncNr' = syncNr + 1 /\ UNCHANGED syncRc
  /\ UNCHANGED <<unscanned, call, ctx, rqset>>

\* An error after that: wbc_fini_op_item() notes it, and the list ends.
SubmitFails(c) ==
  /\ rc' = "err" /\ pc' = "check"
  /\ NoteRc("err") /\ UNCHANGED syncNr
  /\ UNCHANGED <<unscanned, call, ctx, rqset>>

\* md_reint_async() or md_intent_lock_async(): one RPC for the child.
SendRpc(c) ==
  /\ Submitting(c) /\ pol \in {"PTLRPCD", "RQSET"}
  /\ item' = [item EXCEPT ![c] = "sent"]
  /\ syncNr' = syncNr + 1
  /\ UNCHANGED <<pc, unscanned, call, rc, ctx, syncRc, rqset, head, panic>>

\* With RQSET the note can bring the count to zero, and then wakes up a wait
\* queue that was never initialised.
SendRpcFails(c) ==
  /\ Submitting(c) /\ pol \in {"PTLRPCD", "RQSET"} /\ "submit" \in Faults
  /\ item' = [item EXCEPT ![c] = "failed"]
  /\ panic' = IF pol = "RQSET" /\ syncNr = 0 THEN "waitq" ELSE panic
  /\ SubmitFails(c) /\ UNCHANGED head

\* batch_update_request_create() failed.  Inside mdc_batch_add() the error
\* pointer stays behind in mbh_head.
BatchHeadFails(c) ==
  /\ Submitting(c) /\ pol = "BATCH" /\ "head" \in Faults
  /\ head[TgtOf[c]] \in {"nosub", "null"}
  /\ head' = [head EXCEPT ![TgtOf[c]] = IF @ = "null" THEN "errptr" ELSE @]
  /\ item' = [item EXCEPT ![c] = "failed"]
  /\ SubmitFails(c) /\ UNCHANGED panic

\* The packer or the callback allocation failed: the whole request is freed, with
\* the callbacks of the updates packed before.
BatchPackFails(c) ==
  /\ Submitting(c) /\ pol = "BATCH" /\ "pack" \in Faults
  /\ head[TgtOf[c]] # "errptr"
  /\ head' = [head EXCEPT ![TgtOf[c]] = "null"]
  /\ item' = [d \in Children |-> IF d = c THEN "failed"
                                 ELSE IF d \in Queued(TgtOf[c]) THEN "lost" ELSE item[d]]
  /\ SubmitFails(c) /\ UNCHANGED panic

BatchFull(t) == MaxBatch > 0 /\ Cardinality(Queued(t)) + 1 >= MaxBatch

BatchAdd(c) ==
  /\ Submitting(c) /\ pol = "BATCH"
  /\ head[TgtOf[c]] # "errptr" /\ ~BatchFull(TgtOf[c])
  /\ head' = [head EXCEPT ![TgtOf[c]] = "open"]
  /\ item' = [item EXCEPT ![c] = "queued"]
  /\ syncNr' = syncNr + 1
  /\ UNCHANGED <<pc, unscanned, call, rc, ctx, syncRc, rqset, panic>>

\* The update fills the request, which is sent at once.
BatchAddAndSend(c) ==
  /\ Submitting(c) /\ pol = "BATCH"
  /\ head[TgtOf[c]] # "errptr" /\ BatchFull(TgtOf[c])
  /\ head' = [head EXCEPT ![TgtOf[c]] = "null"]
  /\ item' = [d \in Children |-> IF d = c \/ d \in Queued(TgtOf[c]) THEN "sent" ELSE item[d]]
  /\ syncNr' = syncNr + 1
  /\ UNCHANGED <<pc, unscanned, call, rc, ctx, syncRc, rqset, panic>>

\* The kernel stops here: when the full request cannot be sent it is destroyed
\* twice and its last item finished twice; an error pointer is dereferenced.
BatchAddPanics(c) ==
  /\ Submitting(c) /\ pol = "BATCH"
  /\ \/ head[TgtOf[c]] = "errptr"
     \/ BatchFull(TgtOf[c]) /\ "send" \in Faults
  /\ panic' = "memory"
  /\ UNCHANGED <<pc, unscanned, call, rc, ctx, anchor, rqset, head, item>>

\* wbcfs_context_commit().
Committing == Running /\ pc = "commit" /\ UNCHANGED <<unscanned, childlist, call, ctx>>

EndOfList ==
  /\ Running /\ pc = "submit" /\ childlist = {}
  /\ pc' = "commit"
  /\ UNCHANGED <<unscanned, childlist, call, rc, ctx, anchor, rqset, head, item, panic>>

CommitPtlrpcd ==
  /\ Committing /\ pol = "PTLRPCD"
  /\ syncNr' = syncNr - 1 /\ pc' = "wait"
  /\ UNCHANGED <<rc, syncRc, rqset, head, item, panic>>

\* The request set is waited for, destroyed and replaced.
CommitRqset ==
  /\ Committing /\ pol = "RQSET" /\ \A c \in Children : item[c] # "sent"
  /\ rc' \in Outcome("init") /\ pc' = "check"
  /\ rqset' = IF rc' = "ok" THEN "live" ELSE "null"
  /\ UNCHANGED <<anchor, head, item, panic>>

\* batch_send_update_req() on every open request.  When a request cannot be built
\* batch_update_request_fini() calls the callbacks of all its updates with an error.
SendHeads(bad) ==
  /\ bad \subseteq {t \in Tgts : head[t] = "open" /\ "send" \in Faults}
  /\ head' = [t \in Tgts |-> IF head[t] = "open" THEN "null" ELSE head[t]]
  /\ item' = [c \in Children |-> IF item[c] # "queued" THEN item[c]
                                 ELSE IF TgtOf[c] \in bad THEN "failed" ELSE "sent"]

Cancelled(bad) == {c \in Children : item[c] = "queued" /\ TgtOf[c] \in bad}

BatchBroken == \E t \in Tgts : head[t] = "errptr"

CommitBatch(bad) ==
  /\ Committing /\ pol = "BATCH" /\ ~BatchBroken
  /\ SendHeads(bad)
  /\ IF bad = {}
       THEN syncNr' = syncNr - 1 /\ pc' = "wait" /\ UNCHANGED <<rc, syncRc>>
       ELSE /\ syncNr' = syncNr - Cardinality(Cancelled(bad))
            /\ NoteRc("err") /\ rc' = "err" /\ pc' = "check"
  /\ UNCHANGED <<rqset, panic>>

\* wbc_sync_io_wait(); the anchor then gets the flusher's reference back.
WaitCommit ==
  /\ Running /\ pc = "wait" /\ syncNr = 0
  /\ rc' = syncRc /\ syncNr' = 1 /\ pc' = "check"
  /\ UNCHANGED <<unscanned, childlist, call, ctx, syncRc, rqset, head, item, panic>>

---------------------------------------------------------------------------
(* The end of wbc_flush_dir(). *)

\* LASSERT(list_empty(&dirty_children_list)), then on with the scan or the end.
CheckList ==
  /\ Running /\ pc = "check"
  /\ IF childlist # {}
       THEN panic' = "list" /\ UNCHANGED <<pc, rc>>
       ELSE /\ pc' = IF call = "unplug" THEN "scan" ELSE "fini"
            /\ rc' \in IF call = "last" /\ rc = "ok" THEN Outcome("reopen") ELSE {rc}
            /\ UNCHANGED panic
  /\ UNCHANGED <<unscanned, childlist, call, ctx, anchor, rqset, head, item>>

\* wbcfs_context_fini().
Finishing == Running /\ pc = "fini" /\ UNCHANGED <<unscanned, childlist, call, ctx>>

FiniUnused ==
  /\ Finishing /\ ctx = "lazy"
  /\ pc' = "returned"
  /\ UNCHANGED <<rc, anchor, rqset, head, item, panic>>

FiniPtlrpcd ==
  /\ Finishing /\ ctx = "inited" /\ pol = "PTLRPCD"
  /\ syncNr' = syncNr - 1 /\ pc' = "finiwait"
  /\ UNCHANGED <<rc, syncRc, rqset, head, item, panic>>

\* md_batch_stop() sends what a failed list left queued.
FiniBatch(bad) ==
  /\ Finishing /\ ctx = "inited" /\ pol = "BATCH" /\ ~BatchBroken
  /\ SendHeads(bad)
  /\ syncNr' = syncNr - Cardinality(Cancelled(bad)) - 1
  /\ NoteRc(IF bad = {} THEN "ok" ELSE "err") /\ pc' = "finiwait"
  /\ UNCHANGED <<rc, rqset, panic>>

FiniRqset ==
  /\ Finishing /\ ctx = "inited" /\ pol = "RQSET" /\ \A c \in Children : item[c] # "sent"
  /\ IF rqset = "live" THEN pc' = "returned" /\ UNCHANGED panic
                       ELSE panic' = "memory" /\ UNCHANGED pc
  /\ UNCHANGED <<rc, anchor, rqset, head, item>>

\* Mutant: the context is finished without waiting.
WaitFiniNoWait ==
  /\ Running /\ pc = "finiwait"
  /\ rc' = IF rc = "ok" THEN syncRc ELSE rc
  /\ pc' = "returned"
  /\ UNCHANGED <<unscanned, childlist, call, ctx, anchor, rqset, head, item, panic>>

WaitFini ==
  /\ Running /\ pc = "finiwait" /\ syncNr = 0
  /\ rc' = IF rc = "ok" THEN syncRc ELSE rc
  /\ pc' = "returned"
  /\ UNCHANGED <<unscanned, childlist, call, ctx, anchor, rqset, head, item, panic>>

\* Flushing or stopping a batch whose request is an error pointer.
BatchPanics ==
  /\ Running /\ pc \in {"commit", "fini"} /\ ctx = "inited" /\ pol = "BATCH" /\ BatchBroken
  /\ panic' = "memory"
  /\ UNCHANGED <<flusher, ctx, anchor, rqset, head, item>>

---------------------------------------------------------------------------
\* The answer to an update: its callback ends in wbc_fini_op_item().
Complete(c, ret) ==
  /\ Running /\ item[c] = "sent" /\ ret \in Outcome("rpc")
  /\ item' = [item EXCEPT ![c] = IF ret = "ok" THEN "done" ELSE "failed"]
  /\ syncNr' = syncNr - 1
  /\ NoteRc(ret)
  /\ panic' = IF pol = "RQSET" /\ syncNr = 1 THEN "waitq" ELSE panic
  /\ UNCHANGED <<flusher, ctx, rqset, head>>

\* The call has returned, or the node is down.
Ended == (pc = "returned" \/ ~Running) /\ UNCHANGED vars

FlusherStep ==
  /\ \/ UpdateMetadata \/ EndScan \/ PrepareContext \/ EndOfList
     \/ CommitPtlrpcd \/ CommitRqset \/ WaitCommit \/ CheckList
     \/ FiniUnused \/ FiniPtlrpcd \/ FiniRqset \/ WaitFini \/ BatchPanics
     \/ \E bad \in SUBSET Tgts : CommitBatch(bad) \/ FiniBatch(bad)
     \/ \E c \in Children :
          \/ CollectChild(c) \/ SkipChild(c) \/ PrepFails(c)
          \/ SendRpc(c) \/ SendRpcFails(c)
          \/ BatchHeadFails(c) \/ BatchPackFails(c)
          \/ BatchAdd(c) \/ BatchAddAndSend(c) \/ BatchAddPanics(c)
  /\ UNCHANGED pol

Answer(c) == (\E ret \in Rc : Complete(c, ret)) /\ UNCHANGED pol

Next == FlusherStep \/ (\E c \in Children : Answer(c)) \/ Ended

\* The flusher is a running kernel thread; ptlrpcd answers or times out every
\* request it was given.
Fairness ==
  /\ WF_vars(FlusherStep)
  /\ \A c \in Children : WF_vars(Answer(c))

Spec == Init /\ [][Next]_vars /\ Fairness

---------------------------------------------------------------------------
(* Properties. *)

\* Updates that hold a reference on the anchor: wbc_sync_io_note() is still due.
Outstanding == {c \in Children : item[c] \in {"queued", "sent", "lost"}}

\* The reference wbcfs_context_init() takes for the flusher itself.
Held == IF ctx = "inited" /\ pol # "RQSET" /\ pc \notin {"wait", "finiwait", "returned"}
          THEN 1 ELSE 0

\* wsi_sync_nr counts exactly the references: one for the flusher while it may
\* still add updates, one for each update that has not been noted.  So the
\* LASSERT(wsi_sync_nr > 0) of wbc_sync_io_note() never fires.
AnchorCount == syncNr = Held + Cardinality(Outstanding)

\* wbc_flush_dir() returns only when no update of the directory is still in a batch
\* request or at an MDT, whatever failed on the way.
Barrier == pc = "returned" => \A c \in Children : item[c] \notin {"queued", "sent"}

\* Except with a request set, the anchor's count drops to zero, which wakes the
\* flusher up, only at the end of the I/O: nothing is outstanding and the flusher adds
\* nothing more.
SignalMeansEnd ==
  [][pol # "RQSET" /\ syncNr > 0 /\ syncNr' = 0
       => Outstanding' = {} /\ pc' \in {"wait", "finiwait"}]_vars

\* A flusher that waits on the anchor waits for an update that will be answered:
\* every update that took a reference is noted.
NoHang ==
  pc \in {"wait", "finiwait"} /\ (\A c \in Children : item[c] # "sent") => syncNr = 0

\* When an update of any list failed after it was built, the call reports an error,
\* although each later list overwrites the return code of the list before.
ErrorReported ==
  pc = "returned" /\ rc = "ok" =>
    \A c \in Children : item[c] \in {"skipped", "unbuilt", "done"}

\* Unless a failed packing freed the callback of an update, the call returns or the
\* node goes down.
Returns == <>(pc = "returned" \/ ~Running \/ \E c \in Children : item[c] = "lost")

---------------------------------------------------------------------------
(* The promise of the call. *)

\* The fate of an update, as a caller of wbc_flush_dir() sees it.
FateOf(i) ==
  CASE i \in {"none", "queued"} -> "pending"
    [] i = "sent" -> "inflight"
    [] i = "lost" -> "failed"
    [] OTHER -> i

Flush == INSTANCE WbcFlush WITH
  fate <- [c \in Children |-> FateOf(item[c])],
  result <- IF pc = "returned" THEN rc ELSE "none"

\* Whatever the policy, the bounds and the failures, wbc_flush_dir() keeps the promise
\* of WbcFlush: no update is sent twice, none is in flight when the call returns, and
\* success means that every update that was built was done.
KeepsPromise == Flush!FlushSpec
=============================================================================
