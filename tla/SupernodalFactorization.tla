---------------------- MODULE SupernodalFactorization ----------------------
(***************************************************************************)
(* What a supernodal factorization has to do, whoever does it and in which *)
(* order: supernode I is factored once, after one contribution of every    *)
(* supernode that updates it has been added, and contributes to its        *)
(* ancestors afterwards.  Contributions may be added one at a time, as an  *)
(* aggregate, or to several supernodes at once.                            *)
(***************************************************************************)
EXTENDS Integers

CONSTANTS NS, Struct

VARIABLES
  added,     \* added[K][I]: times the contribution of I has been added to K
  factored   \* the supernodes that have been factored

Sup == 1..NS

Contributors(K) == {I \in Sup : K \in Struct[I]}

Init == /\ added = [K \in Sup |-> [I \in Sup |-> 0]]
        /\ factored = {}

(* Some contributions are added, each for the first time.                  *)
Add ==
  /\ added' \in [Sup -> [Sup -> {0, 1}]]
  /\ \A K, I \in Sup : added'[K][I] # added[K][I] =>
       /\ added[K][I] = 0
       /\ I \in factored /\ I \in Contributors(K)
       /\ K \notin factored
  /\ UNCHANGED factored

Factor(K) ==
  /\ K \notin factored
  /\ \A I \in Contributors(K) : added[K][I] = 1
  /\ factored' = factored \cup {K}
  /\ UNCHANGED added

Next == Add \/ \E K \in Sup : Factor(K)

Spec == Init /\ [][Next]_<<added, factored>>
=============================================================================
