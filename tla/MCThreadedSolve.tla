--------------------------- MODULE MCThreadedSolve ---------------------------
(***************************************************************************)
(* Instances of ThreadedSolve: a slot with two forward tasks and two       *)
(* backward ones, and a second slot that shares remoteDeallocCounter.      *)
(***************************************************************************)
EXTENDS ThreadedSolve, TLC

CONSTANTS J1, J2, f1, f2, b1, b2, g1

Targets == [t \in Task |-> IF t = g1 THEN J2 ELSE J1]
=============================================================================
