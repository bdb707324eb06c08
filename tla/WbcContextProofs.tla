-------------------------- MODULE WbcContextProofs --------------------------
(***************************************************************************)
(* Proofs about WbcContext, for every set of children and MDTs, every      *)
(* policy, every bound and every combination of failures.                  *)
(***************************************************************************)
EXTENDS WbcContext, FiniteSetTheorems, TLAPS

\* A child the flusher has not come to yet has no update.
Untouched ==
  /\ unscanned \cap childlist = {}
  /\ \A c \in unscanned \cup childlist : item[c] = "none"

\* Only batches queue updates, only a failed packing loses them, and a waiting
\* flusher has none queued.
QueueInv ==
  /\ "pack" \notin Faults => \A c \in Children : item[c] # "lost"
  /\ pol # "BATCH" => \A c \in Children : item[c] \notin {"queued", "lost"}
  /\ pc \in {"wait", "finiwait", "returned"} => \A c \in Children : item[c] # "queued"

\* The context is set up before the first update and stays so.
ContextInv ==
  /\ Outstanding # {} => ctx = "inited"
  /\ pc = "start" => ctx = "lazy"
  /\ pc \in {"submit", "commit", "wait", "finiwait"} => ctx = "inited"
  /\ pc \in {"wait", "finiwait"} => pol # "RQSET"

\* The inductive invariant.
Inv == TypeOK /\ Untouched /\ QueueInv /\ ContextInv /\ AnchorCount /\ Barrier

\* The references of updates can be counted, before and after a step.
LEMMA OutstandingFinite == IsFiniteSet(Outstanding) /\ Cardinality(Outstanding) \in Nat
  BY ChildrenFinite, FS_Subset, FS_CardinalityType DEF Outstanding

\* The same after the step.
LEMMA OutstandingFinite2 == IsFiniteSet(Outstanding') /\ Cardinality(Outstanding') \in Nat
  BY ChildrenFinite, FS_Subset, FS_CardinalityType DEF Outstanding

\* One submitted update: one element more.
LEMMA OneMore ==
  ASSUME NEW A, IsFiniteSet(A), NEW c, c \notin A
  PROVE  Cardinality(A \cup {c}) = Cardinality(A) + 1
  BY FS_AddElement

\* One note: one element less.
LEMMA OneLess ==
  ASSUME NEW A, IsFiniteSet(A), NEW c \in A
  PROVE  Cardinality(A \ {c}) = Cardinality(A) - 1
  BY FS_RemoveElement

\* A cancelled batch request: a subset less.
LEMMA SomeLess ==
  ASSUME NEW A, IsFiniteSet(A), NEW S \in SUBSET A
  PROVE  Cardinality(A \ S) = Cardinality(A) - Cardinality(S)
  <1> USE SMT, SMTT(30)
  <1>1. A \cap S = S
    OBVIOUS
  <1>2. Cardinality(A \ S) = Cardinality(A) - Cardinality(A \cap S)
    BY FS_Difference
  <1>3. QED
    BY <1>1, <1>2

\* A context that has not been set up holds no reference.
THEOREM InitInv == Init => Inv
  <1> USE SMT, SMTT(30)
  <1> SUFFICES ASSUME Init PROVE Inv
    OBVIOUS
  <1>1. Outstanding = {}
    BY DEF Init, Outstanding
  <1>2. TypeOK
    BY DEF Init, TypeOK, Rc, ItemState
  <1>3. AnchorCount
    BY <1>1, FS_EmptySet DEF Init, AnchorCount, Held
  <1>4. QED
    BY <1>1, <1>2, <1>3 DEF Init, Inv, Untouched, QueueInv, ContextInv, Barrier

\* A step that leaves the number of outstanding updates and the anchor alone
\* preserves the count when the flusher keeps, or still lacks, its own reference.
LEMMA QuietCount ==
  ASSUME AnchorCount, pol' = pol, Outstanding' = Outstanding, UNCHANGED <<ctx, syncNr>>,
         pc \in {"wait", "finiwait", "returned"} <=> pc' \in {"wait", "finiwait", "returned"}
  PROVE  AnchorCount'
  <1> USE SMT, SMTT(30)
  <1>1. Held' = Held
    BY DEF Held
  <1>2. QED
    BY <1>1 DEF AnchorCount

\* Steps of the scan and of the end of the call: no update changes.
LEMMA ScanInv ==
  ASSUME Inv, pol' = pol, UpdateMetadata \/ EndScan \/ EndOfList \/ CheckList \/ FiniUnused
              \/ BatchPanics \/ (\E c \in Children : CollectChild(c) \/ BatchAddPanics(c))
              \/ UNCHANGED vars
  PROVE  Inv'
  <1> USE SMT, SMTT(30)
  <1> USE DEF Inv
  <1>0. UNCHANGED <<item, ctx, syncNr, syncRc>>
    BY DEF UpdateMetadata, EndScan, EndOfList, CheckList, FiniUnused, BatchPanics,
           CollectChild, BatchAddPanics, Submitting, Finishing, vars, anchor
  <1>1. Outstanding' = Outstanding
    BY <1>0 DEF Outstanding
  <1>2. rc' \in Rc
    BY DEF TypeOK, UpdateMetadata, EndScan, EndOfList, CheckList, FiniUnused, BatchPanics,
           CollectChild, BatchAddPanics, vars, flusher, Outcome, Rc
  <1>3. TypeOK'
    BY <1>0, <1>2 DEF TypeOK, UpdateMetadata, EndScan, EndOfList, CheckList, FiniUnused,
           BatchPanics, CollectChild, BatchAddPanics, Submitting, Finishing, vars, flusher, Rc
  <1>4. AnchorCount'
    <2>1. CASE pc' = "returned" /\ pc # "returned"
      <3>1. ctx = "lazy"
        BY <2>1 DEF ContextInv, UpdateMetadata, EndScan, EndOfList, CheckList, FiniUnused,
           BatchPanics, CollectChild, BatchAddPanics, Finishing, vars, flusher
      <3>2. QED
        BY <1>0, <1>1, <3>1 DEF AnchorCount, Held
    <2>2. CASE ~(pc' = "returned" /\ pc # "returned")
      <3>1. pc \in {"wait", "finiwait", "returned"} <=> pc' \in {"wait", "finiwait", "returned"}
        BY <2>2 DEF UpdateMetadata, EndScan, EndOfList, CheckList, FiniUnused,
           BatchPanics, CollectChild, BatchAddPanics, Finishing, vars, flusher
      <3>2. QED
        BY <1>0, <1>1, <3>1, QuietCount
    <2>3. QED
      BY <2>1, <2>2
  <1>5. Untouched'
    BY <1>0 DEF Untouched, TypeOK, UpdateMetadata, EndScan, EndOfList, CheckList, FiniUnused,
           BatchPanics, CollectChild, BatchAddPanics, Submitting, Finishing, vars, flusher
  <1>6. ContextInv'
    BY <1>0, <1>1 DEF ContextInv, UpdateMetadata, EndScan, EndOfList, CheckList, FiniUnused,
           BatchPanics, CollectChild, BatchAddPanics, Submitting, Finishing, vars, flusher
  <1>7. (QueueInv /\ Barrier)'
    <2>1. CASE pc' = "returned" /\ pc # "returned"
      <3>1. ctx = "lazy"
        BY <2>1 DEF ContextInv, UpdateMetadata, EndScan, EndOfList, CheckList, FiniUnused,
           BatchPanics, CollectChild, BatchAddPanics, Finishing, vars, flusher
      <3>2. Outstanding = {}
        BY <3>1 DEF ContextInv
      <3>3. QED
        BY <1>0, <2>1, <3>2 DEF QueueInv, Barrier, Outstanding
    <2>2. CASE ~(pc' = "returned" /\ pc # "returned")
      <3>1. pc' \in {"wait", "finiwait", "returned"} => pc = pc'
        BY <2>2 DEF UpdateMetadata, EndScan, EndOfList, CheckList, FiniUnused,
           BatchPanics, CollectChild, BatchAddPanics, Finishing, vars, flusher
      <3>2. QED
        BY <1>0, <3>1 DEF QueueInv, Barrier
    <2>3. QED
      BY <2>1, <2>2
  <1>8. QED
    BY <1>3, <1>4, <1>5, <1>6, <1>7

\* A child of the list that is being submitted has no update yet.
LEMMA SubmittedChild ==
  ASSUME Inv, NEW c \in Children, Submitting(c)
  PROVE  /\ item[c] = "none" /\ c \notin Outstanding
         /\ pc = "submit" /\ ctx = "inited" /\ childlist' = childlist \ {c}
  BY DEF Inv, Submitting, Untouched, ContextInv, Outstanding

\* A child that is skipped, or fails before or after its update took a reference.
LEMMA NoUpdateInv ==
  ASSUME Inv, pol' = pol, NEW c \in Children,
         SkipChild(c) \/ PrepFails(c) \/ SendRpcFails(c) \/ BatchHeadFails(c) \/ BatchPackFails(c)
  PROVE  Inv'
  <1> USE SMT, SMTT(30)
  <1> USE DEF Inv
  <1>1. Submitting(c)
    BY DEF SkipChild, PrepFails, SendRpcFails, BatchHeadFails, BatchPackFails
  <1>2. PICK st \in {"skipped", "unbuilt", "failed"} :
          item' = [d \in Children |-> IF d = c THEN st
                     ELSE IF BatchPackFails(c) /\ d \in Queued(TgtOf[c]) THEN "lost" ELSE item[d]]
    <2>1. CASE BatchPackFails(c)
      BY <2>1 DEF BatchPackFails
    <2>2. CASE ~BatchPackFails(c)
      BY <2>2, <1>1 DEF SkipChild, PrepFails, SendRpcFails, BatchHeadFails, TypeOK
    <2>3. QED
      BY <2>1, <2>2
  <1>3. Outstanding' = Outstanding
    BY <1>1, <1>2, SubmittedChild DEF Outstanding, Queued
  <1>4. UNCHANGED <<unscanned, call, ctx, syncNr, rqset>> /\ pc' \in {"submit", "check"}
    BY <1>1 DEF SkipChild, PrepFails, SendRpcFails, BatchHeadFails, BatchPackFails,
                SubmitFails, Submitting, anchor
  <1>5. rc' \in Rc /\ syncRc' \in Rc /\ panic' \in {"none", "list", "memory", "waitq"}
    BY DEF TypeOK, Rc, SkipChild, PrepFails, SendRpcFails, BatchHeadFails, BatchPackFails,
           SubmitFails, NoteRc, anchor
  <1>6. head' \in [Tgts -> {"nosub", "null", "open", "errptr"}]
    BY TgtAssumption DEF TypeOK, SkipChild, PrepFails, SendRpcFails, BatchHeadFails,
       BatchPackFails
  <1>7. item' \in [Children -> ItemState]
    BY <1>2 DEF TypeOK, ItemState
  <1>8. TypeOK'
    BY <1>1, <1>4, <1>5, <1>6, <1>7, SubmittedChild DEF TypeOK
  <1>9. AnchorCount'
    BY <1>1, <1>3, <1>4, SubmittedChild, QuietCount
  <1>10. Untouched'
    <2>1. childlist' = childlist \ {c} /\ unscanned' = unscanned
      BY <1>1, <1>4 DEF Submitting
    <2>2. \A d \in unscanned \cup childlist : d \in Children /\ item[d] = "none"
      BY DEF Untouched, TypeOK
    <2>3. c \notin unscanned
      BY <1>1 DEF Untouched, Submitting
    <2>4. \A d \in unscanned' \cup childlist' : item'[d] = "none"
      BY <1>2, <2>1, <2>2, <2>3 DEF Queued
    <2>5. QED
      BY <2>1, <2>4 DEF Untouched
  <1>11. QueueInv'
    BY <1>2, <1>4 DEF QueueInv, BatchPackFails
  <1>12. ContextInv' /\ Barrier'
    BY <1>1, <1>3, <1>4, SubmittedChild DEF ContextInv, Barrier
  <1>13. QED
    BY <1>8, <1>9, <1>10, <1>11, <1>12

\* A child whose update is sent or queued takes one reference.
LEMMA UpdateInv ==
  ASSUME Inv, pol' = pol, NEW c \in Children, SendRpc(c) \/ BatchAdd(c) \/ BatchAddAndSend(c)
  PROVE  Inv'
  <1> USE SMT, SMTT(30)
  <1> USE DEF Inv
  <1>1. Submitting(c)
    BY DEF SendRpc, BatchAdd, BatchAddAndSend
  <1>2. PICK st \in {"sent", "queued"} :
          /\ st = "queued" => pol = "BATCH"
          /\ item' = [d \in Children |-> IF d = c THEN st
                     ELSE IF BatchAddAndSend(c) /\ d \in Queued(TgtOf[c]) THEN "sent" ELSE item[d]]
    <2>1. CASE BatchAddAndSend(c)
      BY <2>1 DEF BatchAddAndSend
    <2>2. CASE ~BatchAddAndSend(c)
      BY <2>2, <1>1 DEF SendRpc, BatchAdd, TypeOK
    <2>3. QED
      BY <2>1, <2>2
  <1>3. Outstanding' = Outstanding \cup {c}
    BY <1>1, <1>2, SubmittedChild DEF Outstanding, Queued
  <1>4. UNCHANGED <<unscanned, call, ctx, rqset, pc, rc, syncRc, panic>> /\ syncNr' = syncNr + 1
    BY <1>1 DEF SendRpc, BatchAdd, BatchAddAndSend
  <1>5. head' \in [Tgts -> {"nosub", "null", "open", "errptr"}]
    BY TgtAssumption DEF TypeOK, SendRpc, BatchAdd, BatchAddAndSend
  <1>6. item' \in [Children -> ItemState]
    BY <1>2 DEF TypeOK, ItemState
  <1>7. TypeOK'
    BY <1>1, <1>4, <1>5, <1>6, SubmittedChild DEF TypeOK
  <1>8. AnchorCount'
    <2>1. Cardinality(Outstanding') = Cardinality(Outstanding) + 1
      BY <1>1, <1>3, OneMore, OutstandingFinite, SubmittedChild
    <2>2. Held' = Held /\ Held \in Nat
      BY <1>4 DEF Held
    <2>3. QED
      BY <1>4, <2>1, <2>2, OutstandingFinite DEF AnchorCount
  <1>9. Untouched'
    BY <1>1, <1>2, <1>4 DEF Untouched, TypeOK, Queued, Submitting
  <1>10. QueueInv' /\ ContextInv' /\ Barrier'
    BY <1>1, <1>2, <1>4, SubmittedChild DEF QueueInv, ContextInv, Barrier, BatchAddAndSend
  <1>11. QED
    BY <1>7, <1>8, <1>9, <1>10

\* Setting the context up: nothing can be outstanding before.
LEMMA PrepareInv ==
  ASSUME Inv, pol' = pol, PrepareContext
  PROVE  Inv'
  <1> USE SMT, SMTT(30)
  <1> USE DEF Inv
  <1>1. Outstanding' = Outstanding /\ UNCHANGED <<unscanned, childlist, call, head, item, panic>>
    BY DEF PrepareContext, Outstanding
  <1>2. pc = "prepare" /\ pc' \in {"submit", "check"} /\ (pc' = "submit" => ctx' = "inited")
    BY DEF PrepareContext
  <1>3. TypeOK'
    BY <1>1, <1>2 DEF PrepareContext, TypeOK, Rc, anchor
  <1>4. AnchorCount'
    <2>1. CASE UNCHANGED <<ctx, syncNr>>
      BY <1>1, <1>2, <2>1, QuietCount
    <2>2. CASE ~UNCHANGED <<ctx, syncNr>>
      <3>1. ctx = "lazy" /\ ctx' = "inited" /\ syncNr' = IF pol = "RQSET" THEN 0 ELSE 1
        BY <2>2 DEF PrepareContext, anchor
      <3>2. Outstanding = {}
        BY <3>1 DEF ContextInv
      <3>3. QED
        BY <1>1, <1>2, <3>1, <3>2, FS_EmptySet DEF AnchorCount, Held
    <2>3. QED
      BY <2>1, <2>2
  <1>5. ContextInv'
    BY <1>1, <1>2 DEF PrepareContext, ContextInv
  <1>6. QED
    BY <1>1, <1>2, <1>3, <1>4, <1>5 DEF Untouched, QueueInv, Barrier

\* The flusher drops its own reference, or gets it back.
LEMMA OwnReferenceInv ==
  ASSUME Inv, pol' = pol, CommitPtlrpcd \/ FiniPtlrpcd \/ WaitCommit \/ WaitFini
  PROVE  Inv'
  <1> USE SMT, SMTT(30)
  <1> USE DEF Inv
  <1>1. Outstanding' = Outstanding /\ UNCHANGED <<unscanned, childlist, call, ctx, syncRc, rqset, head, item, panic>>
    BY DEF CommitPtlrpcd, FiniPtlrpcd, WaitCommit, WaitFini, Committing, Finishing,
           Outstanding, anchor
  <1>2. ctx = "inited" /\ pol # "RQSET"
    BY DEF CommitPtlrpcd, FiniPtlrpcd, WaitCommit, WaitFini, Committing, ContextInv
  <1>3. TypeOK'
    BY <1>1 DEF CommitPtlrpcd, FiniPtlrpcd, WaitCommit, WaitFini, Committing, Finishing,
                TypeOK, Rc, anchor
  <1>4. AnchorCount'
    BY <1>1, <1>2, OutstandingFinite
    DEF CommitPtlrpcd, FiniPtlrpcd, WaitCommit, WaitFini, Committing, Finishing,
        AnchorCount, Held, anchor
  <1>5. Untouched' /\ ContextInv'
    BY <1>1, <1>2 DEF CommitPtlrpcd, FiniPtlrpcd, WaitCommit, WaitFini, Untouched, ContextInv
  <1>6. QueueInv' /\ Barrier'
    <2>1. CASE WaitFini
      <3>1. Cardinality(Outstanding) = 0
        BY <2>1, OutstandingFinite DEF WaitFini, AnchorCount, Held
      <3>2. Outstanding = {}
        BY <3>1, OutstandingFinite, FS_EmptySet
      <3>3. QED
        BY <1>1, <3>2 DEF QueueInv, Barrier, Outstanding
    <2>2. CASE WaitCommit
      BY <1>1, <2>2 DEF WaitCommit, QueueInv, Barrier
    <2>3. CASE CommitPtlrpcd \/ FiniPtlrpcd
      BY <1>1, <2>3 DEF CommitPtlrpcd, FiniPtlrpcd, QueueInv, Barrier
    <2>4. QED
      BY <2>1, <2>2, <2>3
  <1>7. QED
    BY <1>3, <1>4, <1>5, <1>6

\* The request-set policy has no reference of the flusher's.
LEMMA RqsetInv ==
  ASSUME Inv, pol' = pol, CommitRqset \/ FiniRqset
  PROVE  Inv'
  <1> USE SMT, SMTT(30)
  <1> USE DEF Inv
  <1>1. Outstanding' = Outstanding
          /\ UNCHANGED <<unscanned, childlist, call, ctx, syncNr, syncRc, head, item>>
    BY DEF CommitRqset, FiniRqset, Committing, Finishing, Outstanding, anchor
  <1>2. TypeOK'
    BY <1>1 DEF CommitRqset, FiniRqset, TypeOK, Outcome, Rc
  <1>3. AnchorCount'
    BY <1>1 DEF CommitRqset, FiniRqset, AnchorCount, Held
  <1>4. QueueInv' /\ Barrier'
    BY <1>1, PolicyAssumption DEF CommitRqset, FiniRqset, QueueInv, Barrier, TypeOK,
       Committing, Finishing
  <1>5. QED
    BY <1>1, <1>2, <1>3, <1>4 DEF CommitRqset, FiniRqset, Committing, Finishing, Untouched,
       ContextInv

\* Sending the batch requests: the updates of those that cannot be sent are noted
\* with an error, the others go on holding their reference at the MDT.
LEMMA SendHeadsInv ==
  ASSUME Inv, pol' = pol, NEW bad \in SUBSET Tgts, CommitBatch(bad) \/ FiniBatch(bad)
  PROVE  Inv'
  <1> USE SMT, SMTT(30)
  <1> USE DEF Inv
  <1> DEFINE gone == Cancelled(bad)
  <1>1. SendHeads(bad) /\ ctx = "inited" /\ pol = "BATCH"
          /\ UNCHANGED <<unscanned, childlist, call, ctx, rqset, panic>>
    BY DEF CommitBatch, FiniBatch, Committing, Finishing, ContextInv
  <1>2. gone \in SUBSET Outstanding /\ Outstanding' = Outstanding \ gone
    BY <1>1 DEF Outstanding, Cancelled, SendHeads
  <1>3. Cardinality(Outstanding') = Cardinality(Outstanding) - Cardinality(gone)
          /\ Cardinality(gone) \in Nat
    <2>1. IsFiniteSet(gone)
      BY <1>2, OutstandingFinite, FS_Subset
    <2>2. Cardinality(Outstanding \ gone) = Cardinality(Outstanding) - Cardinality(gone)
      BY <1>2, OutstandingFinite, SomeLess
    <2>3. QED
      BY <1>2, <2>1, <2>2, FS_CardinalityType
  <1>4. bad = {} => gone = {}
    BY DEF Cancelled
  <1>5. TypeOK'
    <2>1. head' \in [Tgts -> {"nosub", "null", "open", "errptr"}]
            /\ item' \in [Children -> ItemState]
      BY <1>1 DEF SendHeads, TypeOK, ItemState
    <2>2. syncNr' \in Int /\ rc' \in Rc /\ syncRc' \in Rc
            /\ pc' \in {"wait", "check", "finiwait"}
      BY <1>3 DEF CommitBatch, FiniBatch, TypeOK, Rc, NoteRc
    <2>3. QED
      BY <1>1, <2>1, <2>2 DEF TypeOK
  <1>6. AnchorCount'
    <2>1. Cardinality({}) = 0
      BY FS_EmptySet
    <2>2. CASE CommitBatch(bad) /\ bad = {}
      <3>1. syncNr' = syncNr - 1 /\ pc = "commit" /\ pc' = "wait"
        BY <2>2 DEF CommitBatch, Committing
      <3>2. Cardinality(gone) = 0
        BY <1>4, <2>1, <2>2
      <3>3. Held = 1 /\ Held' = 0
        BY <1>1, <3>1 DEF Held
      <3>4. QED
        BY <1>3, <3>1, <3>2, <3>3, OutstandingFinite DEF AnchorCount
    <2>3. CASE CommitBatch(bad) /\ bad # {}
      <3>1. syncNr' = syncNr - Cardinality(gone) /\ pc = "commit" /\ pc' = "check"
        BY <2>3 DEF CommitBatch, Committing
      <3>2. Held = 1 /\ Held' = 1
        BY <1>1, <3>1 DEF Held
      <3>3. QED
        BY <1>3, <3>1, <3>2, OutstandingFinite DEF AnchorCount
    <2>4. CASE FiniBatch(bad)
      <3>1. syncNr' = syncNr - Cardinality(gone) - 1 /\ pc = "fini" /\ pc' = "finiwait"
        BY <2>4 DEF FiniBatch, Finishing
      <3>2. Held = 1 /\ Held' = 0
        BY <1>1, <3>1 DEF Held
      <3>3. QED
        BY <1>3, <3>1, <3>2, OutstandingFinite DEF AnchorCount
    <2>5. QED
      BY <2>2, <2>3, <2>4
  <1>7. Untouched'
    BY <1>1 DEF Untouched, TypeOK, SendHeads
  <1>8. QueueInv' /\ ContextInv' /\ Barrier'
    <2>1. pc' \in {"wait", "check", "finiwait"}
      BY DEF CommitBatch, FiniBatch
    <2>2. \A c \in Children : item'[c] # "queued" /\ (item'[c] = "lost" => item[c] = "lost")
      BY <1>1 DEF SendHeads, TypeOK
    <2>3. QED
      BY <1>1, <1>2, <2>1, <2>2 DEF QueueInv, ContextInv, Barrier
  <1>9. QED
    BY <1>5, <1>6, <1>7, <1>8

\* An answer drops one reference.
LEMMA CompleteInv ==
  ASSUME Inv, pol' = pol, NEW c \in Children, NEW ret \in Rc, Complete(c, ret)
  PROVE  Inv'
  <1> USE DEF Inv
  <1>1. item[c] = "sent" /\ c \in Outstanding /\ Outstanding' = Outstanding \ {c}
    BY DEF Complete, Outstanding, TypeOK
  <1>2. UNCHANGED <<pc, unscanned, childlist, call, rc, ctx, rqset, head>> /\ syncNr' = syncNr - 1
    BY DEF Complete, flusher
  <1>3. \E st \in {"done", "failed"} : item' = [item EXCEPT ![c] = st]
    BY Zenon DEF Complete
  <1>4. syncRc' \in Rc /\ panic' \in {"none", "list", "memory", "waitq"}
    BY SMT, SMTT(30) DEF Complete, NoteRc, TypeOK, Rc
  <1>5. TypeOK'
    BY SMT, SMTT(30), <1>2, <1>3, <1>4 DEF TypeOK, ItemState
  <1>6. AnchorCount'
    <2>1. Cardinality(Outstanding') = Cardinality(Outstanding) - 1
      BY <1>1, OneLess, OutstandingFinite
    <2>2. Held' = Held /\ Held \in Nat
      BY SMT, SMTT(30), <1>2 DEF Held
    <2>3. QED
      BY SMT, SMTT(30), <1>2, <2>1, <2>2, OutstandingFinite DEF AnchorCount
  <1>7. Untouched'
    BY SMT, SMTT(30), <1>1, <1>2, <1>3 DEF Untouched, TypeOK
  <1>8. QueueInv' /\ ContextInv' /\ Barrier'
    BY SMT, SMTT(30), <1>1, <1>2, <1>3 DEF QueueInv, ContextInv, Barrier, TypeOK
  <1>9. QED
    BY SMT, SMTT(30), <1>5, <1>6, <1>7, <1>8

\* Inv is inductive: every step of the flusher and every answer preserves it.
THEOREM NextInv == Inv /\ [Next]_vars => Inv'
  <1> USE SMT, SMTT(30)
  <1> SUFFICES ASSUME Inv, [Next]_vars PROVE Inv'
    OBVIOUS
  <1>0. pol' = pol
    BY DEF Next, FlusherStep, Answer, Ended, vars
  <1>1. CASE UpdateMetadata \/ EndScan \/ EndOfList \/ CheckList \/ FiniUnused \/ BatchPanics
             \/ (\E c \in Children : CollectChild(c) \/ BatchAddPanics(c)) \/ UNCHANGED vars
    BY <1>0, <1>1, ScanInv
  <1>2. CASE \E c \in Children : SkipChild(c) \/ PrepFails(c) \/ SendRpcFails(c)
                                 \/ BatchHeadFails(c) \/ BatchPackFails(c)
    BY <1>0, <1>2, NoUpdateInv
  <1>3. CASE \E c \in Children : SendRpc(c) \/ BatchAdd(c) \/ BatchAddAndSend(c)
    BY <1>0, <1>3, UpdateInv
  <1>4. CASE PrepareContext
    BY <1>0, <1>4, PrepareInv
  <1>5. CASE CommitPtlrpcd \/ FiniPtlrpcd \/ WaitCommit \/ WaitFini
    BY <1>0, <1>5, OwnReferenceInv
  <1>6. CASE CommitRqset \/ FiniRqset
    BY <1>0, <1>6, RqsetInv
  <1>7. CASE \E bad \in SUBSET Tgts : CommitBatch(bad) \/ FiniBatch(bad)
    BY <1>0, <1>7, SendHeadsInv
  <1>8. CASE \E c \in Children, ret \in Rc : Complete(c, ret)
    BY <1>0, <1>8, CompleteInv
  <1>9. CASE Ended
    BY <1>9, <1>1 DEF Ended
  <1>10. QED
    BY <1>1, <1>2, <1>3, <1>4, <1>5, <1>6, <1>7, <1>8, <1>9 DEF Next, FlusherStep, Answer

\* Inv always holds.
THEOREM Invariance == Spec => []Inv
  BY InitInv, NextInv, PTL DEF Spec

\* The references of a context are counted exactly, for every policy and failure.
THEOREM AnchorCountAlways == Spec => []AnchorCount
  BY Invariance, PTL DEF Inv

\* A directory flush returns after the last answer, for every policy and failure.
THEOREM BarrierAlways == Spec => []Barrier
  BY Invariance, PTL DEF Inv

\* Unless a batch request is dropped by a failed packing, a flusher that waits does
\* so only for updates that are at an MDT.
THEOREM NoHangAlways == "pack" \notin Faults => (Spec => []NoHang)
  <1> SUFFICES ASSUME "pack" \notin Faults PROVE Spec => []NoHang
    OBVIOUS
  <1>1. Inv => NoHang
    <2> SUFFICES ASSUME Inv, pc \in {"wait", "finiwait"}, \A c \in Children : item[c] # "sent"
                 PROVE  syncNr = 0
      BY DEF NoHang
    <2>1. Outstanding = {}
      BY DEF Inv, QueueInv, Outstanding
    <2>2. QED
      BY <2>1, FS_EmptySet DEF Inv, AnchorCount, Held
  <1>2. QED
    BY <1>1, Invariance, PTL
=============================================================================
