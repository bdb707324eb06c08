------------------------------ MODULE WbcFlush ------------------------------
(***************************************************************************)
(* What a call of wbc_flush_dir() promises its callers, whatever policy    *)
(* sends the updates: each child's update is sent to the MDT at most once, *)
(* the call returns when every update that was sent has been answered, and *)
(* it returns success only if no update failed.  Callers rely on this:     *)
(* they clear the directory's dirty state or drop its lock after the call. *)
(* WbcContext implements it.                                               *)
(***************************************************************************)

CONSTANT Children   \* the cached children of the directory

VARIABLES
  fate,      \* what became of the update of each child
  result     \* "none" while the call runs, then its return code

fvars == <<fate, result>>

\* pending: not sent; inflight: at the MDT; done, failed: how it ended; skipped:
\* the child has nothing to flush; unbuilt: the update could not be built, which
\* ends the list it was on without being noted as a failed update.
Fate == {"pending", "inflight", "done", "failed", "skipped", "unbuilt"}

Pending == {c \in Children : fate[c] = "pending"}

FlushInit ==
  /\ fate = [c \in Children |-> "pending"]
  /\ result = "none"

\* The updates of S go to the MDT; those of F fail without having been sent.
Submit(S, F) ==
  /\ result = "none"
  /\ S \subseteq Pending /\ F \subseteq Pending \ S
  /\ fate' = [c \in Children |-> IF c \in S THEN "inflight"
                                 ELSE IF c \in F THEN "failed" ELSE fate[c]]
  /\ UNCHANGED result

\* Nothing is sent for the child.
Pass(c, f) ==
  /\ result = "none" /\ c \in Pending
  /\ f \in {"skipped", "unbuilt"}
  /\ fate' = [fate EXCEPT ![c] = f]
  /\ UNCHANGED result

\* The MDT answers.
Reply(c, f) ==
  /\ result = "none" /\ fate[c] = "inflight"
  /\ f \in {"done", "failed"}
  /\ fate' = [fate EXCEPT ![c] = f]
  /\ UNCHANGED result

\* Success means that every child is settled and none failed.
Return(r) ==
  /\ result = "none" /\ r \in {"ok", "err"}
  /\ \A c \in Children : fate[c] # "inflight"
  /\ r = "ok" => \A c \in Children : fate[c] \in {"done", "skipped", "unbuilt"}
  /\ result' = r
  /\ UNCHANGED fate

FlushNext ==
  \/ \E S, F \in SUBSET Children : Submit(S, F)
  \/ \E c \in Children, f \in Fate : Pass(c, f) \/ Reply(c, f)
  \/ \E r \in {"ok", "err"} : Return(r)

FlushSpec == FlushInit /\ [][FlushNext]_fvars
=============================================================================
