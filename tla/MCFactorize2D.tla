--------------------------- MODULE MCFactorize2D ---------------------------
(***************************************************************************)
(* Instances of Factorize2D: the dense structure of three supernodes, and  *)
(* a sparse one of four, over two ranks.                                   *)
(***************************************************************************)
EXTENDS Factorize2D, TLC

CONSTANTS r1, r2

Dense3  == (1 :> {2, 3}) @@ (2 :> {3}) @@ (3 :> {})
Sparse4 == (1 :> {3, 4}) @@ (2 :> {4}) @@ (3 :> {4}) @@ (4 :> {})

(* The cyclic distribution by row.                                         *)
OwnerB == [c \in Pair |-> IF c[1] % 2 = 0 THEN r1 ELSE r2]
(* A panel that is the local pivot of two updates.                         *)
OwnerC == [c \in Pair |-> IF c \in {<<3, 1>>, <<3, 3>>} THEN r2 ELSE r1]
=============================================================================
