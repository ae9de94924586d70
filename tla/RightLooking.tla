---------------------------- MODULE RightLooking ----------------------------
(***************************************************************************)
(* What a factorization has to do, whatever the schedule: the operations   *)
(* of the right-looking block factorization, each applied once, after the  *)
(* operations whose results it reads or overwrites.  No processes, no      *)
(* messages, no counters.                                                  *)
(***************************************************************************)
EXTENDS Integers

CONSTANTS NS, Struct

Factor(I)       == <<"FACTOR", I, I, I>>
Solve(J, I)     == <<"TRSM", J, I, I>>
Update(K, J, I) == <<"UPDATE", K, J, I>>

Operation ==
  UNION { {Factor(I)}
            \cup {Solve(J, I) : J \in Struct[I]}
            \cup UNION {{Update(K, J, I) : K \in {L \in Struct[I] : L >= J}} :
                          J \in Struct[I]}
          : I \in 1..NS }

(* The updates of cell (K, J).                                             *)
UpdatesOf(K, J) ==
  {Update(K, J, I) : I \in {L \in 1..NS : J \in Struct[L] /\ K \in Struct[L]}}

(* The operations an operation has to wait for: a cell is factored or      *)
(* solved when all its updates are in, a panel cell is solved with the     *)
(* factored diagonal, an update multiplies two solved cells.               *)
Before(op) ==
  LET K == op[2]  J == op[3]  I == op[4] IN
  CASE op[1] = "FACTOR" -> UpdatesOf(J, J)
    [] op[1] = "TRSM"   -> UpdatesOf(K, J) \cup {Factor(J)}
    [] op[1] = "UPDATE" -> {Solve(K, I), Solve(J, I)}

VARIABLE applied

Init == applied = {}

Apply(op) ==
  /\ op \notin applied
  /\ Before(op) \subseteq applied
  /\ applied' = applied \cup {op}

Next == \E op \in Operation : Apply(op)

Spec == Init /\ [][Next]_applied
FairSpec == Spec /\ WF_applied(Next)

(* The factor is complete.                                                 *)
Factored == applied = Operation
=============================================================================
