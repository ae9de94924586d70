--------------------------- MODULE Distribution1D ---------------------------
(***************************************************************************)
(* The supernodes of the 1D code and their distribution: what the task     *)
(* graphs of the factorization and of the solve are made from.             *)
(***************************************************************************)
EXTENDS Integers, FiniteSets

CONSTANTS
  NS,        \* supernodes are 1..NS
  Struct,    \* Struct[I]: the supernodes below I with a row in it
  Rank,
  Map        \* Map[<<J, I>>]: Mapping_->Map(J-1, I-1)

Sup == 1..NS

ASSUME DistributionAssumption ==
  /\ NS \in Nat
  /\ Struct \in [Sup -> SUBSET Sup]
  /\ \A I \in Sup : \A J \in Struct[I] : J > I
  /\ Map \in [Sup \X Sup -> Rank]
  /\ IsFiniteSet(Rank) /\ Cardinality(Rank) > 1

(* What the symbolic factorization guarantees of its result: of two        *)
(* supernodes below I, the higher is below the lower.                      *)
FillClosed == \A I \in Sup : \A J, K \in Struct[I] : J < K => K \in Struct[J]

Own(I) == Map[<<I, I>>]       \* iOwner, iFactorizer

LowestOf(S)  == CHOOSE J \in S : \A K \in S : J <= K
HighestOf(S) == CHOOSE J \in S : \A K \in S : J >= K
=============================================================================
