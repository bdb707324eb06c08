------------------------------- MODULE MCLdlm -------------------------------
(* Values for the constants of Ldlm: a cached lock on two bits, a client that    *)
(* wants one of them, and a client that wants the other one or the same.         *)
EXTENDS Ldlm, TLC

CONSTANTS c1, c2, c3, l1, l2, l3, l4

Owners == l1 :> c1 @@ l2 :> c2 @@ l3 :> c3 @@ l4 :> c3
Modes == l1 :> "PW" @@ l2 :> "PR" @@ l3 :> "PW" @@ l4 :> "PW"
BitSets == l1 :> {0, 1} @@ l2 :> {0} @@ l3 :> {1} @@ l4 :> {0}

Quiet == [enq |-> {l2}, crash |-> 0, evict |-> 0, intr |-> 0, lru |-> 0, match |-> 0]

\* Two enqueues and nothing else, or one enqueue and one intervention.
OneIntervention ==
    {[Quiet EXCEPT !.enq = {l2, l}] : l \in {l3, l4}}
      \cup {[Quiet EXCEPT ![k] = 1] : k \in DOMAIN Quiet \ {"enq"}}
=============================================================================
