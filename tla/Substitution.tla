---------------------------- MODULE Substitution ----------------------------
(***************************************************************************)
(* What a triangular solve has to do, whatever the schedule: forward and   *)
(* backward substitution by blocks, each operation applied once, after the *)
(* operations whose results it reads.  No processes, no partial sums.      *)
(***************************************************************************)
EXTENDS Integers

CONSTANTS NS, Struct

(* (I, I): solve with the diagonal block I; (J, I): multiply block (J, I). *)
Forward(J, I)  == <<"FUC", J, I>>
Backward(J, I) == <<"BUC", J, I>>

Cells(I) == {I} \cup Struct[I]

Operation ==
  UNION {{Forward(J, I) : J \in Cells(I)} \cup {Backward(J, I) : J \in Cells(I)} :
           I \in 1..NS}

(* y(J) is solved for when every y(I) above it has been subtracted; x(I)   *)
(* starts from y(I) and has every x(J) below it subtracted.  Nothing is    *)
(* subtracted from x(I) while something still reads y(I).                  *)
Before(op) ==
  LET J == op[2]  I == op[3] IN
  CASE op[1] = "FUC" /\ J = I -> {Forward(J, K) : K \in {L \in 1..NS : J \in Struct[L]}}
    [] op[1] = "FUC" /\ J # I -> {Forward(I, I)}
    [] op[1] = "BUC" /\ J = I -> {Forward(I, I)} \cup {Backward(K, I) : K \in Struct[I]}
    [] op[1] = "BUC" /\ J # I ->
         {Backward(J, J)} \cup {Forward(K, I) : K \in Cells(I)}

VARIABLE applied

Init == applied = {}

Apply(op) ==
  /\ op \notin applied
  /\ Before(op) \subseteq applied
  /\ applied' = applied \cup {op}

Next == \E op \in Operation : Apply(op)

Spec == Init /\ [][Next]_applied

(* The solution is complete.                                               *)
Solved == applied = Operation
=============================================================================
