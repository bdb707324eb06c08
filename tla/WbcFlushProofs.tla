--------------------------- MODULE WbcFlushProofs ---------------------------
(***************************************************************************)
(* wbc_flush_dir() keeps the promise of WbcFlush, for every set of         *)
(* children and MDTs, every policy, every bound and every combination of   *)
(* failures: WbcContext implements WbcFlush.  The invariant of             *)
(* WbcContextProofs says when updates are outstanding; here it is extended *)
(* by where an error is remembered.                                        *)
(***************************************************************************)
EXTENDS WbcContextProofs

\* A child without an update is still to be looked at.
Ahead ==
  /\ \A c \in Children : item[c] = "none" => c \in unscanned \cup childlist
  /\ pc \in {"fini", "finiwait"} => unscanned = {} /\ childlist = {}
  /\ pc = "check" /\ call = "last" => unscanned = {}
  /\ pc \in {"prepare", "submit", "commit", "wait"} /\ call = "last" => unscanned = {}
  /\ pc \in {"commit", "wait"} => childlist = {}

\* The anchor remembers the first error.
Noted == pol # "RQSET" /\ syncRc = "ok" => \A c \in Children : item[c] \notin {"failed", "lost"}

\* With a request set the anchor's count is not taken back by the flusher, so once an
\* update was sent some other is still to come: the last answer stops the node.
Unanswered ==
  pol = "RQSET" /\ (\E c \in Children : item[c] \in {"failed", "done"})
    => \E c \in Children : item[c] = "sent"

\* A call whose context was never set up has an error to report.
NeverSetUp ==
  /\ pc \in {"check", "fini"} /\ ctx = "lazy" => rc = "err"
  /\ ctx = "lazy" => \A c \in Children : item[c] = "none"

\* The inductive invariant.
ReportInv ==
  /\ Running => Ahead /\ Noted /\ Unanswered /\ NeverSetUp
  /\ ErrorReported

---------------------------------------------------------------------------
(* Errors are remembered and reported. *)

\* A fresh call has nothing to report.
LEMMA InitReport == Init => ReportInv
  BY DEF Init, ReportInv, Ahead, Noted, Unanswered, NeverSetUp, ErrorReported

\* Steps of the scan, and an assertion or a memory error: no update changes.
LEMMA ScanReport ==
  ASSUME Inv, Running, ReportInv, pol' = pol,
         UpdateMetadata \/ EndScan \/ EndOfList \/ CheckList \/ FiniUnused \/ BatchPanics
         \/ (\E c \in Children : CollectChild(c) \/ BatchAddPanics(c))
  PROVE  ReportInv'
  <1> USE SMT, SMTT(30)
  <1> USE DEF ReportInv, Running
  <1>1. CASE UpdateMetadata
    BY <1>1 DEF UpdateMetadata, Outcome, Rc, anchor, Ahead, Noted, Unanswered, NeverSetUp,
                ErrorReported
  <1>2. CASE EndScan
    BY <1>2 DEF EndScan, anchor, Ahead, Noted, Unanswered, NeverSetUp, ErrorReported
  <1>3. CASE EndOfList
    BY <1>3 DEF EndOfList, anchor, Ahead, Noted, Unanswered, NeverSetUp, ErrorReported
  <1>4. CASE CheckList
    <2>1. CASE childlist # {}
      BY <1>4, <2>1 DEF CheckList, ErrorReported
    <2>2. CASE childlist = {}
      <3>1. /\ UNCHANGED <<unscanned, childlist, call, ctx, syncRc, item>>
            /\ pc = "check" /\ pc' \in {"scan", "fini"}
            /\ pc' = "fini" => call = "last"
            /\ rc' = rc \/ rc = "ok"
        BY <1>4, <2>2 DEF CheckList, anchor, Inv, TypeOK
      <3>2. Ahead' /\ Noted' /\ Unanswered'
        BY <2>2, <3>1 DEF Ahead, Noted, Unanswered
      <3>3. NeverSetUp' /\ ErrorReported'
        BY <3>1 DEF NeverSetUp, ErrorReported
      <3>4. QED
        BY <3>2, <3>3
    <2>3. QED
      BY <2>1, <2>2
  <1>5. CASE FiniUnused
    BY <1>5 DEF FiniUnused, Finishing, anchor, Ahead, Noted, Unanswered, NeverSetUp, ErrorReported
  <1>6. CASE BatchPanics \/ \E c \in Children : BatchAddPanics(c)
    BY <1>6 DEF BatchPanics, BatchAddPanics, Submitting, flusher, ErrorReported
  <1>7. ASSUME NEW c \in Children, CollectChild(c) PROVE ReportInv'
    BY <1>7 DEF CollectChild, anchor, Ahead, Noted, Unanswered, NeverSetUp, ErrorReported
  <1>8. QED
    BY <1>1, <1>2, <1>3, <1>4, <1>5, <1>6, <1>7

\* The first list sets the anchor up, before any update exists.
LEMMA PrepareReport ==
  ASSUME Inv, Running, ReportInv, pol' = pol, PrepareContext
  PROVE  ReportInv'
  <1> USE SMT, SMTT(30)
  <1>1. UNCHANGED <<unscanned, childlist, call, item, panic>> /\ pc = "prepare"
    BY DEF PrepareContext
  <1>2. /\ pc' \in {"submit", "check"}
        /\ ctx' = ctx \/ ctx = "lazy"
        /\ pc' = "check" => rc' = "err"
        /\ syncRc' = syncRc \/ ctx = "lazy"
        /\ ctx' = "lazy" => ctx = "lazy"
    BY DEF PrepareContext, anchor
  <1>3. Ahead'
    BY <1>1, <1>2 DEF ReportInv, Ahead
  <1>4. Noted' /\ Unanswered'
    BY <1>1, <1>2 DEF ReportInv, Noted, Unanswered, NeverSetUp
  <1>5. NeverSetUp' /\ ErrorReported'
    BY <1>1, <1>2 DEF ReportInv, NeverSetUp, ErrorReported
  <1>6. QED
    BY <1>3, <1>4, <1>5 DEF ReportInv

\* What the submission of a child may do to its update and to others.
LEMMA SubmitEffect ==
  ASSUME Inv, Running, pol' = pol, NEW c \in Children,
         SkipChild(c) \/ PrepFails(c) \/ SendRpc(c) \/ SendRpcFails(c) \/ BatchHeadFails(c)
         \/ BatchPackFails(c) \/ BatchAdd(c) \/ BatchAddAndSend(c)
  PROVE  /\ item' \in [Children -> ItemState] /\ item'[c] # "none"
         /\ \A d \in Children \ {c} :
              item'[d] = item[d] \/ (item[d] = "queued" /\ item'[d] \in {"lost", "sent"})
         /\ (\E d \in Children : item'[d] \in {"failed", "lost"} /\ item'[d] # item[d])
              => syncRc' = "err"
         /\ syncRc' = syncRc \/ syncRc' = "err"
         /\ UNCHANGED <<unscanned, call, ctx>> /\ childlist' = childlist \ {c}
         /\ pc = "submit" /\ pc' \in {"submit", "check"}
  <1> USE DEF ItemState
  <1>0. Submitting(c)
    BY DEF SkipChild, PrepFails, SendRpc, SendRpcFails, BatchHeadFails, BatchPackFails, BatchAdd,
           BatchAddAndSend
  <1>1. item \in [Children -> ItemState] /\ syncRc \in {"ok", "err"}
    BY DEF Inv, TypeOK, Rc
  <1>2. pc = "submit" /\ childlist' = childlist \ {c}
    BY <1>0 DEF Submitting
  <1>3. CASE SkipChild(c)
    BY SMT, SMTT(30), <1>1, <1>2, <1>3 DEF SkipChild, anchor
  <1>4. CASE PrepFails(c)
    BY SMT, SMTT(30), <1>1, <1>2, <1>4 DEF PrepFails, anchor
  <1>5. CASE SendRpc(c)
    BY SMT, SMTT(30), <1>1, <1>2, <1>5 DEF SendRpc
  <1>6. CASE SendRpcFails(c)
    BY SMT, SMTT(30), <1>1, <1>2, <1>6 DEF SendRpcFails, SubmitFails, NoteRc
  <1>7. CASE BatchHeadFails(c)
    BY SMT, SMTT(30), <1>1, <1>2, <1>7 DEF BatchHeadFails, SubmitFails, NoteRc
  <1>8. CASE BatchPackFails(c)
    BY SMT, SMTT(30), <1>1, <1>2, <1>8 DEF BatchPackFails, SubmitFails, NoteRc, Queued
  <1>9. CASE BatchAdd(c)
    BY SMT, SMTT(30), <1>1, <1>2, <1>9 DEF BatchAdd
  <1>10. CASE BatchAddAndSend(c)
    BY SMT, SMTT(30), <1>1, <1>2, <1>10 DEF BatchAddAndSend, Queued
  <1>11. QED
    BY <1>3, <1>4, <1>5, <1>6, <1>7, <1>8, <1>9, <1>10, Zenon

\* With a request set, a positive count means an RPC is on its way.
LEMMA RqsetSent ==
  ASSUME Inv, pol = "RQSET", syncNr # 0
  PROVE  \E c \in Children : item[c] = "sent"
  <1> USE SMT, SMTT(30)
  <1>1. Cardinality(Outstanding) # 0
    BY OutstandingFinite DEF Inv, AnchorCount, Held
  <1>2. Outstanding # {}
    BY <1>1, FS_EmptySet
  <1>3. QED
    BY <1>2 DEF Outstanding, Inv, QueueInv

\* A child is submitted.
LEMMA SubmitReport ==
  ASSUME Inv, Running, ReportInv, pol' = pol, NEW c \in Children,
         SkipChild(c) \/ PrepFails(c) \/ SendRpc(c) \/ SendRpcFails(c) \/ BatchHeadFails(c)
         \/ BatchPackFails(c) \/ BatchAdd(c) \/ BatchAddAndSend(c)
  PROVE  ReportInv'
  <1> USE SMT, SMTT(30)
  <1>1. /\ item' \in [Children -> ItemState] /\ item'[c] # "none"
        /\ \A d \in Children \ {c} :
             item'[d] = item[d] \/ (item[d] = "queued" /\ item'[d] \in {"lost", "sent"})
        /\ (\E d \in Children : item'[d] \in {"failed", "lost"} /\ item'[d] # item[d])
             => syncRc' = "err"
        /\ syncRc' = syncRc \/ syncRc' = "err"
        /\ UNCHANGED <<unscanned, call, ctx>> /\ childlist' = childlist \ {c}
        /\ pc = "submit" /\ pc' \in {"submit", "check"}
    BY SubmitEffect
  <1>2. Ahead'
    BY <1>1 DEF ReportInv, Ahead
  <1>3. Noted'
    BY <1>1 DEF ReportInv, Noted
  <1>4. NeverSetUp' /\ ErrorReported'
    BY <1>1 DEF Inv, ContextInv, NeverSetUp, ErrorReported
  <1>5. Running' => Unanswered'
    <2> SUFFICES ASSUME Running', pol = "RQSET",
                        \E d \in Children : item'[d] \in {"failed", "done"}
                 PROVE  \E d \in Children : item'[d] = "sent"
      BY DEF Unanswered
    <2>1. \A d \in Children : item[d] # "queued"
      BY DEF Inv, QueueInv
    <2>2. item[c] = "none"
      BY SubmittedChild DEF SkipChild, PrepFails, SendRpc, SendRpcFails, BatchHeadFails,
                            BatchPackFails, BatchAdd, BatchAddAndSend
    <2>3. CASE \E d \in Children : item[d] = "sent"
      BY <1>1, <2>1, <2>2, <2>3
    <2>4. CASE SendRpc(c)
      BY <2>4 DEF SendRpc, Inv, TypeOK
    <2>5. CASE SendRpcFails(c)
      <3>1. syncNr # 0
        BY <2>5 DEF SendRpcFails, Running
      <3>2. QED
        BY <3>1, RqsetSent, <2>3
    <2>6. CASE SkipChild(c) \/ PrepFails(c)
      <3>1. item'[c] \in {"skipped", "unbuilt"}
        BY <2>6 DEF SkipChild, PrepFails, Inv, TypeOK
      <3>2. \E d \in Children : item[d] \in {"failed", "done"}
        BY <1>1, <2>1, <3>1
      <3>3. QED
        BY <2>3, <3>2 DEF ReportInv, Unanswered
    <2>7. QED
      BY <2>4, <2>5, <2>6 DEF BatchHeadFails, BatchPackFails, BatchAdd, BatchAddAndSend
  <1>6. QED
    BY <1>2, <1>3, <1>4, <1>5 DEF ReportInv

\* When the flusher has waited to the end, every update is settled.
LEMMA AllSettled ==
  ASSUME Inv, Ahead, pc = "finiwait", syncNr = 0
  PROVE  \A c \in Children : item[c] \in {"skipped", "unbuilt", "failed", "done"}
  <1> USE SMT, SMTT(30)
  <1>1. Cardinality(Outstanding) = 0
    BY OutstandingFinite DEF Inv, AnchorCount, Held
  <1>2. Outstanding = {}
    BY <1>1, OutstandingFinite, FS_EmptySet
  <1>3. \A c \in Children : item[c] \in ItemState /\ item[c] # "none"
    BY DEF Inv, TypeOK, Ahead
  <1>4. QED
    BY <1>2, <1>3 DEF Outstanding, ItemState

\* The flusher gives its reference up, and waits.
LEMMA WaitReport ==
  ASSUME Inv, Running, ReportInv, pol' = pol,
         CommitPtlrpcd \/ FiniPtlrpcd \/ WaitCommit \/ WaitFini
  PROVE  ReportInv'
  <1> USE SMT, SMTT(30)
  <1>1. UNCHANGED <<unscanned, childlist, call, ctx, syncRc, item, panic>>
    BY DEF CommitPtlrpcd, FiniPtlrpcd, WaitCommit, WaitFini, Committing, Finishing, anchor
  <1>2. \/ pc = "commit" /\ pc' = "wait"
        \/ pc = "fini" /\ pc' = "finiwait"
        \/ pc = "wait" /\ pc' = "check"
        \/ pc = "finiwait" /\ pc' = "returned"
    BY DEF CommitPtlrpcd, FiniPtlrpcd, WaitCommit, WaitFini, Committing, Finishing
  <1>3. Ahead'
    BY <1>1, <1>2 DEF ReportInv, Ahead
  <1>4. Noted' /\ Unanswered'
    BY <1>1 DEF ReportInv, Noted, Unanswered
  <1>5. NeverSetUp'
    BY <1>1, <1>2 DEF ReportInv, NeverSetUp, Inv, ContextInv
  <1>6. ErrorReported'
    <2> SUFFICES ASSUME pc' = "returned", rc' = "ok"
                 PROVE  \A c \in Children : item'[c] \in {"skipped", "unbuilt", "done"}
      BY DEF ErrorReported
    <2>0. pc = "finiwait"
      BY <1>2
    <2>a. WaitFini
      BY <2>0 DEF CommitPtlrpcd, FiniPtlrpcd, WaitCommit, Committing, Finishing
    <2>1. pc = "finiwait" /\ syncNr = 0 /\ syncRc = "ok"
      BY <2>0, <2>a DEF WaitFini
    <2>2. \A c \in Children : item[c] # "failed"
      BY <2>1 DEF ReportInv, Noted, Inv, ContextInv
    <2>3. QED
      BY <1>1, <2>1, <2>2, AllSettled DEF ReportInv
  <1>7. QED
    BY <1>3, <1>4, <1>5, <1>6 DEF ReportInv

\* The batch requests are sent, or cancelled with an error.
LEMMA BatchReport ==
  ASSUME Inv, Running, ReportInv, pol' = pol, NEW bad \in SUBSET Tgts,
         CommitBatch(bad) \/ FiniBatch(bad)
  PROVE  ReportInv'
  <1> USE SMT, SMTT(30)
  <1>1. /\ SendHeads(bad) /\ pol = "BATCH"
        /\ UNCHANGED <<unscanned, childlist, call, ctx, panic>>
        /\ \/ pc = "commit" /\ pc' \in {"wait", "check"} /\ ctx = "inited"
           \/ pc = "fini" /\ pc' = "finiwait" /\ ctx = "inited"
    BY DEF CommitBatch, FiniBatch, Committing, Finishing, Inv, ContextInv
  <1>2. /\ bad # {} => syncRc' = "err"
        /\ syncRc' = "ok" => syncRc = "ok"
    BY DEF CommitBatch, FiniBatch, NoteRc, Inv, TypeOK, Rc
  <1>3. \A c \in Children : /\ item'[c] = "none" <=> item[c] = "none"
                            /\ item'[c] \in {"failed", "lost"} /\ bad = {} =>
                                 item[c] \in {"failed", "lost"}
    BY <1>1 DEF SendHeads
  <1>4. Ahead'
    BY <1>1, <1>3 DEF ReportInv, Ahead
  <1>5. Noted' /\ Unanswered'
    BY <1>1, <1>2, <1>3 DEF ReportInv, Noted, Unanswered
  <1>6. NeverSetUp' /\ ErrorReported'
    BY <1>1 DEF NeverSetUp, ErrorReported
  <1>7. QED
    BY <1>4, <1>5, <1>6 DEF ReportInv

\* The request set is waited for and destroyed.
LEMMA RqsetReport ==
  ASSUME Inv, Running, ReportInv, pol' = pol, CommitRqset \/ FiniRqset
  PROVE  ReportInv'
  <1> USE SMT, SMTT(30)
  <1>1. /\ pol = "RQSET" /\ \A c \in Children : item[c] # "sent"
        /\ UNCHANGED <<unscanned, childlist, call, ctx, syncRc, item>>
        /\ \/ pc = "commit" /\ pc' = "check" /\ ctx = "inited"
           \/ pc = "fini" /\ pc' \in {"fini", "returned"} /\ ctx = "inited"
    BY DEF CommitRqset, FiniRqset, Committing, Finishing, anchor, Inv, ContextInv
  <1>2. \A c \in Children : item[c] \notin {"failed", "done", "queued", "lost"}
    BY <1>1 DEF ReportInv, Unanswered, Inv, QueueInv
  <1>3. Ahead'
    BY <1>1 DEF ReportInv, Ahead
  <1>4. Noted' /\ Unanswered' /\ NeverSetUp'
    BY <1>1, <1>2 DEF Noted, Unanswered, NeverSetUp
  <1>5. ErrorReported'
    <2>1. CASE pc = "commit"
      BY <1>1, <2>1 DEF ErrorReported
    <2>2. CASE pc = "fini"
      <3>1. \A c \in Children : item[c] \in ItemState /\ item[c] # "none"
        BY <2>2 DEF ReportInv, Ahead, Inv, TypeOK
      <3>2. QED
        BY <1>1, <1>2, <3>1 DEF ErrorReported, ItemState
    <2>3. QED
      BY <1>1, <2>1, <2>2
  <1>6. QED
    BY <1>3, <1>4, <1>5 DEF ReportInv

\* An update is answered.
LEMMA CompleteReport ==
  ASSUME Inv, Running, ReportInv, pol' = pol, NEW c \in Children, NEW ret \in Rc,
         Complete(c, ret)
  PROVE  ReportInv'
  <1> USE SMT, SMTT(30)
  <1>1. /\ item[c] = "sent" /\ item' = [item EXCEPT ![c] = IF ret = "ok" THEN "done" ELSE "failed"]
        /\ UNCHANGED <<pc, unscanned, childlist, call, rc, ctx>>
        /\ syncRc' = (IF syncRc = "ok" THEN ret ELSE syncRc)
    BY DEF Complete, flusher, NoteRc
  <1>2. item \in [Children -> ItemState] /\ syncRc \in Rc /\ pc # "returned"
    BY <1>1 DEF Inv, TypeOK, Barrier
  <1>3. Ahead'
    BY <1>1, <1>2 DEF ReportInv, Ahead
  <1>4. Noted'
    BY <1>1, <1>2 DEF ReportInv, Noted, Rc
  <1>5. NeverSetUp' /\ ErrorReported'
    BY <1>1, <1>2 DEF ReportInv, NeverSetUp, ErrorReported
  <1>6. Running' => Unanswered'
    <2> SUFFICES ASSUME Running', pol = "RQSET" PROVE \E d \in Children : item'[d] = "sent"
      BY DEF Unanswered
    <2>1. syncNr # 1
      BY DEF Complete, Running
    <2>2. Cardinality(Outstanding) # 1
      BY <2>1, OutstandingFinite DEF Inv, AnchorCount, Held
    <2>a. Cardinality({c}) = 1
      BY FS_Singleton
    <2>3. Outstanding # {c}
      BY <2>2, <2>a
    <2>4. PICK d \in Children : d # c /\ d \in Outstanding
      BY <1>1, <2>3 DEF Outstanding
    <2>5. item[d] = "sent"
      BY <2>4 DEF Outstanding, Inv, QueueInv
    <2>6. QED
      BY <1>1, <1>2, <2>4, <2>5
  <1>7. QED
    BY <1>3, <1>4, <1>5, <1>6 DEF ReportInv

\* ReportInv is inductive with the invariant of the references.
LEMMA NextReport == Inv /\ ReportInv /\ [Next]_vars => ReportInv'
  <1> SUFFICES ASSUME Inv, ReportInv, [Next]_vars PROVE ReportInv'
    BY SMT, SMTT(30)
  <1>1. CASE Ended \/ UNCHANGED vars
    BY SMT, SMTT(30), <1>1 DEF Ended, vars, Running, ReportInv, Ahead, Noted, Unanswered,
       NeverSetUp, ErrorReported
  <1>2. CASE FlusherStep
    <2>1. pol' = pol
      BY SMT, SMTT(30), <1>2 DEF FlusherStep
    <2>2. Running
      BY <1>2, Zenon DEF FlusherStep, UpdateMetadata, EndScan, PrepareContext, EndOfList,
         CommitPtlrpcd,
           CommitRqset, WaitCommit, CheckList, FiniUnused, FiniPtlrpcd, FiniRqset, WaitFini,
           BatchPanics, CommitBatch, FiniBatch, CollectChild, SkipChild, PrepFails, SendRpc,
           SendRpcFails, BatchHeadFails, BatchPackFails, BatchAdd, BatchAddAndSend, BatchAddPanics,
           Submitting, Committing, Finishing
    <2>3. QED
      BY SMT, SMTT(30), <1>2, <2>1, <2>2, ScanReport, PrepareReport, SubmitReport, WaitReport,
         BatchReport,
         RqsetReport DEF FlusherStep
  <1>3. ASSUME NEW c \in Children, Answer(c) PROVE ReportInv'
    <2>1. PICK ret \in Rc : Complete(c, ret)
      BY SMT, SMTT(30), <1>3 DEF Answer
    <2>2. Running /\ pol' = pol
      BY <1>3, <2>1 DEF Answer, Complete
    <2>3. QED
      BY <2>1, <2>2, CompleteReport
  <1>4. QED
    BY <1>1, <1>2, <1>3 DEF Next

\* Both invariants always hold.
LEMMA ReportAlways == Spec => [](Inv /\ ReportInv)
  BY InitInv, NextInv, InitReport, NextReport, PTL DEF Spec

\* An error of any update that was built reaches the caller, although each list of a
\* long directory has its own return code.
THEOREM ErrorReportedAlways == Spec => []ErrorReported
  <1>1. ReportInv => ErrorReported
    BY SMT, SMTT(30) DEF ReportInv
  <1>2. QED
    BY <1>1, ReportAlways, PTL

---------------------------------------------------------------------------
(* The promise of the call, and when the anchor signals. *)

\* A step that changes no fate: the promise sees it return, or does not see it.
LEMMA ReturnStep ==
  ASSUME Inv, ErrorReported, ErrorReported', TypeOK', Barrier', pc # "returned",
         \A c \in Children : FateOf(item'[c]) = FateOf(item[c])
  PROVE  Flush!FlushNext \/ UNCHANGED Flush!fvars
  <1> USE SMT, SMTT(30)
  <1>1. [c \in Children |-> FateOf(item'[c])] = [c \in Children |-> FateOf(item[c])]
    OBVIOUS
  <1>2. CASE pc' # "returned"
    BY <1>1, <1>2 DEF Flush!fvars
  <1>3. CASE pc' = "returned"
    <2>1. rc' \in {"ok", "err"}
      BY DEF TypeOK, Rc
    <2>2. \A c \in Children : item'[c] \in ItemState /\ item'[c] \notin {"queued", "sent"}
      BY <1>3 DEF Barrier, TypeOK
    <2>3. \A c \in Children : FateOf(item[c]) # "inflight"
      BY <2>2 DEF FateOf, ItemState
    <2>4. rc' = "ok" => \A c \in Children : FateOf(item[c]) \in {"done", "skipped", "unbuilt"}
      BY <1>3 DEF ErrorReported, FateOf
    <2>5. Flush!Return(rc')
      BY <1>1, <1>3, <2>1, <2>3, <2>4 DEF Flush!Return
    <2>6. QED
      BY <2>1, <2>5 DEF Flush!FlushNext
  <1>4. QED
    BY <1>2, <1>3

\* A step that sends the updates of S and drops those of F, which were pending.
LEMMA SubmitStep ==
  ASSUME NEW S \in SUBSET Children, NEW F \in SUBSET Children, S \cap F = {},
         pc # "returned", pc' # "returned",
         \A c \in S \cup F : FateOf(item[c]) = "pending",
         \A c \in Children : FateOf(item'[c]) = IF c \in S THEN "inflight"
                                                ELSE IF c \in F THEN "failed" ELSE FateOf(item[c])
  PROVE  Flush!FlushNext
  <1> USE SMT, SMTT(30)
  <1>1. [c \in Children |-> FateOf(item'[c])]
          = [c \in Children |-> IF c \in S THEN "inflight"
               ELSE IF c \in F THEN "failed" ELSE [d \in Children |-> FateOf(item[d])][c]]
    OBVIOUS
  <1>a. S \subseteq Flush!Pending /\ F \subseteq Flush!Pending \ S
    BY DEF Flush!Pending
  <1>b. Flush!Submit(S, F)
    BY <1>1, <1>a DEF Flush!Submit
  <1>2. QED
    BY <1>b DEF Flush!FlushNext

\* The same, when all are sent.
LEMMA SendStep ==
  ASSUME NEW S \in SUBSET Children, pc # "returned", pc' # "returned",
         \A c \in S : FateOf(item[c]) = "pending",
         \A c \in Children : FateOf(item'[c]) = IF c \in S THEN "inflight" ELSE FateOf(item[c])
  PROVE  Flush!FlushNext
  <1> USE SMT, SMTT(30)
  <1> DEFINE F == {c \in S : FALSE}
  <1>1. /\ F \in SUBSET Children /\ S \cap F = {} /\ \A c \in S \cup F : FateOf(item[c]) = "pending"
        /\ \A c \in Children : FateOf(item'[c]) = IF c \in S THEN "inflight"
             ELSE IF c \in F THEN "failed" ELSE FateOf(item[c])
    OBVIOUS
  <1> HIDE DEF F
  <1>2. QED
    BY <1>1, SubmitStep

\* The same, when all are dropped.
LEMMA DropStep ==
  ASSUME NEW F \in SUBSET Children, pc # "returned", pc' # "returned",
         \A c \in F : FateOf(item[c]) = "pending",
         \A c \in Children : FateOf(item'[c]) = IF c \in F THEN "failed" ELSE FateOf(item[c])
  PROVE  Flush!FlushNext
  <1> USE SMT, SMTT(30)
  <1> DEFINE S == {c \in F : FALSE}
  <1>1. /\ S \in SUBSET Children /\ S \cap F = {} /\ \A c \in S \cup F : FateOf(item[c]) = "pending"
        /\ \A c \in Children : FateOf(item'[c]) = IF c \in S THEN "inflight"
             ELSE IF c \in F THEN "failed" ELSE FateOf(item[c])
    OBVIOUS
  <1> HIDE DEF S
  <1>2. QED
    BY <1>1, SubmitStep

\* Submitting a child is a submission or a pass of the promise.
LEMMA SubmitSimulated ==
  ASSUME Inv, Running, pol' = pol, NEW c \in Children,
         SkipChild(c) \/ PrepFails(c) \/ SendRpc(c) \/ SendRpcFails(c) \/ BatchHeadFails(c)
         \/ BatchPackFails(c) \/ BatchAddAndSend(c)
  PROVE  Flush!FlushNext
  <1>1. item[c] = "none" /\ pc = "submit" /\ pc' \in {"submit", "check"}
    BY SMT, SMTT(30), SubmittedChild, SubmitEffect DEF SkipChild, PrepFails, SendRpc,
       SendRpcFails,
       BatchHeadFails, BatchPackFails, BatchAddAndSend
  <1>2. item \in [Children -> ItemState] /\ FateOf(item[c]) = "pending"
    BY <1>1 DEF Inv, TypeOK, FateOf
  <1>3. \A d \in Queued(TgtOf[c]) : d \in Children /\ FateOf(item[d]) = "pending"
    BY DEF Queued, FateOf
  <1>4. CASE SkipChild(c) \/ PrepFails(c)
    <2>1. PICK f \in {"skipped", "unbuilt"} : item' = [item EXCEPT ![c] = f]
      BY <1>4 DEF SkipChild, PrepFails
    <2>2. [d \in Children |-> FateOf(item'[d])] =
            [[d \in Children |-> FateOf(item[d])] EXCEPT ![c] = f]
      BY <1>2, <2>1, Zenon DEF FateOf
    <2>3. Flush!Pass(c, f)
      BY SMT, SMTT(30), <1>1, <1>2, <2>2 DEF Flush!Pass, Flush!Pending
    <2>4. f \in Flush!Fate
      BY DEF Flush!Fate
    <2>5. QED
      BY <2>3, <2>4, Zenon DEF Flush!FlushNext
  <1>5. CASE SendRpc(c)
    <2>1. item' = [item EXCEPT ![c] = "sent"]
      BY <1>5 DEF SendRpc
    <2>2. \A d \in Children : FateOf(item'[d]) = IF d \in {c} THEN "inflight" ELSE FateOf(item[d])
      BY <1>2, <2>1 DEF FateOf
    <2>3. {c} \in SUBSET Children /\ \A d \in {c} : FateOf(item[d]) = "pending"
      BY <1>2
    <2>4. QED
      BY <1>1, <2>2, <2>3, SendStep, Zenon
  <1>6. CASE SendRpcFails(c) \/ BatchHeadFails(c)
    <2>1. item' = [item EXCEPT ![c] = "failed"]
      BY <1>6 DEF SendRpcFails, BatchHeadFails
    <2>2. \A d \in Children : FateOf(item'[d]) = IF d \in {c} THEN "failed" ELSE FateOf(item[d])
      BY <1>2, <2>1 DEF FateOf
    <2>3. {c} \in SUBSET Children /\ \A d \in {c} : FateOf(item[d]) = "pending"
      BY <1>2
    <2>4. QED
      BY <1>1, <2>2, <2>3, DropStep, Zenon
  <1>7. CASE BatchPackFails(c)
    <2> DEFINE F == {c} \cup Queued(TgtOf[c])
    <2>1. item' = [d \in Children |-> IF d = c THEN "failed"
                                      ELSE IF d \in Queued(TgtOf[c]) THEN "lost" ELSE item[d]]
      BY <1>7 DEF BatchPackFails
    <2>2. \A d \in Children : FateOf(item'[d]) = IF d \in F THEN "failed" ELSE FateOf(item[d])
      BY <2>1 DEF FateOf
    <2>3. F \in SUBSET Children /\ \A d \in F : FateOf(item[d]) = "pending"
      BY <1>2, <1>3
    <2> HIDE DEF F
    <2>4. QED
      BY <1>1, <2>2, <2>3, DropStep, Zenon
  <1>8. CASE BatchAddAndSend(c)
    <2> DEFINE S == {c} \cup Queued(TgtOf[c])
    <2>1. item' = [d \in Children |-> IF d = c \/ d \in Queued(TgtOf[c]) THEN "sent" ELSE item[d]]
      BY <1>8 DEF BatchAddAndSend
    <2>2. \A d \in Children : FateOf(item'[d]) = IF d \in S THEN "inflight" ELSE FateOf(item[d])
      BY SMT, SMTT(30), <2>1 DEF FateOf
    <2>3. S \in SUBSET Children /\ \A d \in S : FateOf(item[d]) = "pending"
      BY <1>2, <1>3
    <2> HIDE DEF S
    <2>4. QED
      BY <1>1, <2>2, <2>3, SendStep, Zenon
  <1>9. QED
    BY <1>4, <1>5, <1>6, <1>7, <1>8, Zenon

\* Sending the batch requests submits the queued updates.
LEMMA BatchSimulated ==
  ASSUME Inv, NEW bad \in SUBSET Tgts, CommitBatch(bad) \/ FiniBatch(bad)
  PROVE  Flush!FlushNext
  <1> USE SMT, SMTT(30)
  <1> DEFINE S == {c \in Children : item[c] = "queued" /\ TgtOf[c] \notin bad}
             F == {c \in Children : item[c] = "queued" /\ TgtOf[c] \in bad}
  <1>1. pc # "returned" /\ pc' # "returned"
    BY DEF CommitBatch, FiniBatch, Committing, Finishing
  <1>2. \A c \in Children : item'[c] = IF item[c] # "queued" THEN item[c]
                                       ELSE IF TgtOf[c] \in bad THEN "failed" ELSE "sent"
    BY DEF CommitBatch, FiniBatch, SendHeads
  <1>3. \A c \in Children : FateOf(item'[c]) = IF c \in S THEN "inflight"
                              ELSE IF c \in F THEN "failed" ELSE FateOf(item[c])
    BY <1>2 DEF FateOf
  <1>4. /\ S \in SUBSET Children /\ F \in SUBSET Children /\ S \cap F = {}
        /\ \A c \in S \cup F : FateOf(item[c]) = "pending"
    BY DEF FateOf
  <1> HIDE DEF S, F
  <1>5. QED
    BY <1>1, <1>3, <1>4, SubmitStep

\* An answer is a reply.
LEMMA CompleteSimulated ==
  ASSUME Inv, NEW c \in Children, NEW ret \in Rc, Complete(c, ret)
  PROVE  Flush!FlushNext
  <1> DEFINE f == IF ret = "ok" THEN "done" ELSE "failed"
  <1>1. item[c] = "sent" /\ item' = [item EXCEPT ![c] = f] /\ pc' = pc
    BY DEF Complete, flusher
  <1>2. item \in [Children -> ItemState] /\ pc # "returned" /\ FateOf(item[c]) = "inflight"
    BY <1>1 DEF Inv, TypeOK, Barrier, FateOf
  <1>3. f \in {"done", "failed"}
    OBVIOUS
  <1> HIDE DEF f
  <1>4. [d \in Children |-> FateOf(item'[d])] =
          [[d \in Children |-> FateOf(item[d])] EXCEPT ![c] = f]
    BY <1>1, <1>2, <1>3, Zenon DEF FateOf
  <1>5. Flush!Reply(c, f)
    BY SMT, SMTT(30), <1>1, <1>2, <1>3, <1>4 DEF Flush!Reply
  <1>6. f \in Flush!Fate
    BY <1>3 DEF Flush!Fate
  <1>7. QED
    BY <1>5, <1>6, Zenon DEF Flush!FlushNext

\* Every step of the flusher or of an answer is a step of the promise, or invisible.
LEMMA StepSimulated ==
  ASSUME Inv, Inv', ReportInv, ReportInv', [Next]_vars
  PROVE  Flush!FlushNext \/ UNCHANGED Flush!fvars
  <1>0. TypeOK' /\ Barrier' /\ ErrorReported /\ ErrorReported'
    BY SMT, SMTT(30) DEF Inv, ReportInv
  <1>1. CASE Ended \/ UNCHANGED vars
    BY <1>1 DEF Ended, vars, Flush!fvars
  <1>2. CASE UpdateMetadata \/ EndScan \/ PrepareContext \/ EndOfList \/ CheckList
    <2>1. item' = item /\ pc # "returned"
      BY SMT, SMTT(30), <1>2 DEF UpdateMetadata, EndScan, PrepareContext, EndOfList, CheckList
    <2>2. QED
      BY SMT, SMTT(30), <1>0, <2>1, ReturnStep
  <1>3. CASE CommitPtlrpcd \/ CommitRqset \/ WaitCommit \/ FiniPtlrpcd \/ FiniRqset
    <2>1. item' = item /\ pc # "returned"
      BY SMT, SMTT(30), <1>3 DEF CommitPtlrpcd, CommitRqset, WaitCommit, FiniPtlrpcd,
         FiniRqset, Committing,
                  Finishing
    <2>2. QED
      BY <1>0, <2>1, ReturnStep
  <1>4. CASE FiniUnused \/ WaitFini \/ BatchPanics
    <2>1. item' = item /\ pc # "returned"
      BY SMT, SMTT(30), <1>4 DEF FiniUnused, WaitFini, BatchPanics, Finishing
    <2>2. QED
      BY <1>0, <2>1, ReturnStep
  <1>5. ASSUME NEW c \in Children, CollectChild(c) \/ BatchAddPanics(c)
        PROVE  Flush!FlushNext \/ UNCHANGED Flush!fvars
    <2>1. item' = item /\ pc # "returned"
      BY SMT, SMTT(30), <1>5 DEF CollectChild, BatchAddPanics, Submitting
    <2>2. QED
      BY SMT, SMTT(30), <1>0, <2>1, ReturnStep
  <1>6. ASSUME NEW c \in Children, BatchAdd(c) PROVE Flush!FlushNext \/ UNCHANGED Flush!fvars
    <2>1. Submitting(c) /\ item' = [item EXCEPT ![c] = "queued"]
      BY <1>6 DEF BatchAdd
    <2>2. item[c] = "none" /\ pc # "returned"
      BY SMT, SMTT(30), <2>1, SubmittedChild
    <2>3. \A d \in Children : FateOf(item'[d]) = FateOf(item[d])
      BY SMT, SMTT(30), <2>1, <2>2 DEF FateOf, Inv, TypeOK
    <2>4. QED
      BY SMT, SMTT(30), <1>0, <2>2, <2>3, ReturnStep
  <1>7. ASSUME NEW c \in Children,
               SkipChild(c) \/ PrepFails(c) \/ SendRpc(c) \/ SendRpcFails(c) \/ BatchHeadFails(c)
               \/ BatchPackFails(c) \/ BatchAddAndSend(c),
               pol' = pol
        PROVE  Flush!FlushNext
    <2>1. Running
      BY <1>7, Zenon DEF SkipChild, PrepFails, SendRpc, SendRpcFails, BatchHeadFails,
                  BatchPackFails, BatchAddAndSend, Submitting
    <2>2. QED
      BY SMT, SMTT(30), <1>7, <2>1, SubmitSimulated
  <1>8. CASE FlusherStep
    <2>1. pol' = pol
      BY <1>8 DEF FlusherStep
    <2>2. QED
      BY <1>2, <1>3, <1>4, <1>5, <1>6, <1>7, <1>8, <2>1, BatchSimulated, Zenon DEF FlusherStep
  <1>9. ASSUME NEW c \in Children, Answer(c) PROVE Flush!FlushNext
    BY <1>9, CompleteSimulated, Zenon DEF Answer
  <1>10. QED
    BY SMT, SMTT(30), <1>1, <1>8, <1>9 DEF Next

\* WbcContext implements WbcFlush: the callers of wbc_flush_dir() may rely on the
\* promise for every policy, bound and combination of failures.
THEOREM PromiseKept == Spec => KeepsPromise
  <1>1. Init => Flush!FlushInit
    BY DEF Init, Flush!FlushInit, FateOf
  <1>2. Inv /\ Inv' /\ ReportInv /\ ReportInv' /\ [Next]_vars => [Flush!FlushNext]_(Flush!fvars)
    BY StepSimulated
  <1>3. QED
    BY <1>1, <1>2, ReportAlways, PTL DEF Spec, KeepsPromise, Flush!FlushSpec

\* Except with a request set, the anchor signals only the end of the I/O.
THEOREM SignalMeansEndAlways == Spec => SignalMeansEnd
  <1>1. Inv /\ Inv' /\ [Next]_vars =>
          [pol # "RQSET" /\ syncNr > 0 /\ syncNr' = 0
             => Outstanding' = {} /\ pc' \in {"wait", "finiwait"}]_vars
    <2> SUFFICES ASSUME Inv, Inv', [Next]_vars, pol # "RQSET", syncNr > 0, syncNr' = 0
                 PROVE  Outstanding' = {} /\ pc' \in {"wait", "finiwait"}
      BY SMT, SMTT(30)
    <2>0. pol' = pol
      BY DEF Next, FlusherStep, Answer, Ended, vars
    <2>1. Held' = 0 /\ Cardinality(Outstanding') = 0
      BY OutstandingFinite2 DEF Inv, AnchorCount, Held
    <2>2. Outstanding' = {}
      BY SMT, SMTT(30), <2>1, OutstandingFinite2, FS_EmptySet
    <2>3. ctx = "inited"
      <3>1. CASE Held = 1
        BY SMT, SMTT(30), <3>1 DEF Held
      <3>2. CASE Held # 1
        <4>1. Cardinality(Outstanding) # 0
          BY SMT, SMTT(30), <3>2 DEF Inv, AnchorCount, Held
        <4>2. QED
          BY SMT, SMTT(30), <4>1, FS_EmptySet DEF Inv, ContextInv
      <3>3. QED
        BY SMT, SMTT(30), <3>1, <3>2
    <2>4. pc' # "returned" /\ ctx' = "inited"
      <3>1. CASE \E c \in Children, ret \in Rc : Complete(c, ret)
        BY SMT, SMTT(30), <2>3, <3>1 DEF Complete, flusher, Inv, Barrier
      <3>2. CASE \E bad \in SUBSET Tgts : CommitBatch(bad) \/ FiniBatch(bad)
        BY SMT, SMTT(30), <2>3, <3>2 DEF CommitBatch, FiniBatch, Committing, Finishing
      <3>3. CASE CommitPtlrpcd \/ FiniPtlrpcd
        BY SMT, SMTT(30), <2>3, <3>3 DEF CommitPtlrpcd, FiniPtlrpcd, Committing, Finishing
      <3>4. CASE WaitCommit \/ WaitFini
        BY SMT, SMTT(30), <2>3, <3>4 DEF WaitCommit, WaitFini, anchor
      <3>5. CASE PrepareContext
        BY SMT, SMTT(30), <2>3, <3>5 DEF PrepareContext
      <3>6. ASSUME NEW c \in Children, SendRpc(c) \/ BatchAdd(c) \/ BatchAddAndSend(c)
            PROVE  pc' = pc /\ ctx' = ctx /\ pc = "submit"
        BY SMT, SMTT(30), <3>6 DEF SendRpc, BatchAdd, BatchAddAndSend, Submitting
      <3>7. ASSUME NEW c \in Children, SendRpcFails(c) \/ BatchHeadFails(c) \/ BatchPackFails(c)
            PROVE  pc' = "check" /\ ctx' = ctx
        BY SMT, SMTT(30), <3>7 DEF SendRpcFails, BatchHeadFails, BatchPackFails, SubmitFails
      <3>8. ASSUME NEW c \in Children, SkipChild(c) \/ PrepFails(c)
            PROVE  syncNr' = syncNr
        <4>1. CASE SkipChild(c)
          BY SMT, SMTT(30), <4>1 DEF SkipChild, anchor
        <4>2. CASE PrepFails(c)
          BY SMT, SMTT(30), <4>2 DEF PrepFails, anchor
        <4>3. QED
          BY SMT, SMTT(30), <3>8, <4>1, <4>2
      <3>9. ASSUME NEW c \in Children, CollectChild(c) \/ BatchAddPanics(c)
            PROVE  syncNr' = syncNr
        BY SMT, SMTT(30), <3>9 DEF CollectChild, BatchAddPanics, anchor
      <3>10. CASE UpdateMetadata \/ EndScan \/ EndOfList \/ CheckList
        BY SMT, SMTT(30), <3>10 DEF UpdateMetadata, EndScan, EndOfList, CheckList, anchor
      <3>11. CASE FiniUnused \/ BatchPanics \/ CommitRqset \/ FiniRqset
        BY SMT, SMTT(30), <3>11 DEF FiniUnused, BatchPanics, CommitRqset, FiniRqset, anchor
      <3>12. CASE Ended \/ UNCHANGED vars
        BY <3>12 DEF Ended, vars
      <3>13. QED
        BY SMT, SMTT(30), <2>3, <3>1, <3>2, <3>3, <3>4, <3>5, <3>6, <3>7, <3>8, <3>9, <3>10,
           <3>11, <3>12
        DEF Next, FlusherStep, Answer
    <2>5. QED
      BY SMT, SMTT(30), <2>0, <2>1, <2>2, <2>4 DEF Held
  <1>2. QED
    BY <1>1, Invariance, PTL DEF Spec, SignalMeansEnd
=============================================================================
