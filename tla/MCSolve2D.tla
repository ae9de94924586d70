----------------------------- MODULE MCSolve2D -----------------------------
(***************************************************************************)
(* An instance of Solve2D: a dense structure with the diagonal on one rank *)
(* and everything else on the other, so that the slots of the second rank  *)
(* are used in both phases and some messages count for three signals.      *)
(***************************************************************************)
EXTENDS Solve2D, TLC

CONSTANTS r1, r2

Dense4 == (1 :> {2, 3, 4}) @@ (2 :> {3, 4}) @@ (3 :> {4}) @@ (4 :> {})

Split  == [c \in Pair |-> IF c[1] = c[2] THEN r1 ELSE r2]
=============================================================================
