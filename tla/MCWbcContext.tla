---------------------------- MODULE MCWbcContext ----------------------------
(* Values for the constants of WbcContext. *)
EXTENDS WbcContext

CONSTANTS c1, c2, c3, m1, m2

TwoTgts == [c \in Children |-> IF c = c3 THEN m2 ELSE m1]
=============================================================================
