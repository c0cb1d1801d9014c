------------------------------ MODULE MCLearner ------------------------------
(***************************************************************************)
(* Learner on a buffer of three slots: a tree whose two lowest leaves are  *)
(* the second and third slot, filled and then overwritten.  1.0 is 2, so   *)
(* that an error can be smaller than a new transition's.                   *)
(***************************************************************************)
EXTENDS Learner

MCAlpha == [p \in Priorities \union {One} |-> IF p > One THEN p - 1 ELSE p]
=============================================================================
