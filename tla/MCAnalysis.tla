----------------------------- MODULE MCAnalysis -----------------------------
(***************************************************************************)
(* The analysis phase of the 2D code from end to end: the symbolic         *)
(* factorization of every graph of N vertices, then, for each structure it *)
(* yields, every distribution of the cells over the ranks, and the graphs  *)
(* of the factorization and of the solve.  The structure is all the task   *)
(* graphs are made from: what led to it is forgotten.                      *)
(***************************************************************************)
EXTENDS SymbolicFactorization, TLC

CONSTANTS
  Rank,   \* the processes of the distribution
  MaxSup  \* structures with more supernodes are not distributed

VARIABLES
  stage,  \* "symbolic", "structure" or "distributed"
  struct, \* struct[I]: the supernodes below I with a row in it
  owner, ldl

RankSymmetry == Permutations(Rank)

F == INSTANCE TaskGraph2D WITH
       NS <- Len(struct), Struct <- struct, Owner <- owner, LDL <- ldl
S == INSTANCE SolveGraph2D WITH
       NS <- Len(struct), Struct <- struct, Owner <- owner, LDL <- ldl

(* The mapping is computed when the rows of all supernodes are known, for   *)
(* as many processes.                                                      *)
M == INSTANCE SubtreeMapping WITH
       NS <- nsuper, Cols <- [k \in Snode |-> Columns(k)], Lindx <- lindx,
       Parent <- [k \in Snode |->
                    SupernodalParent(result.parent, result.xsuper, k)],
       Height <- [k \in Snode |-> Length(k)]

Start ==
  /\ Init
  /\ stage = "symbolic" /\ struct = <<>> /\ owner = <<>> /\ ldl = FALSE

Symbolic ==
  /\ stage = "symbolic"
  /\ Analysis \/ \E p \in Process : RankStep(p)
  /\ UNCHANGED <<stage, struct, owner, ldl>>

Forget ==
  /\ input' = <<>> /\ result' = <<>> /\ next' = <<>> /\ reach' = <<>>
  /\ rest' = <<>> /\ lindx' = <<>> /\ net' = {}

(* The supernodes the rows of each supernode fall in.                      *)
ReadStructure ==
  /\ stage = "symbolic" /\ Finished
  /\ stage' = "structure"
  /\ struct' = [I \in Snode |->
                  {MemberOf(result.xsuper, r) : r \in lindx[I]} \ {I}]
  /\ Forget
  /\ UNCHANGED <<owner, ldl>>

Distribute ==
  /\ stage = "structure" /\ Len(struct) <= MaxSup
  /\ stage' = "distributed"
  /\ owner' \in [F!Pair -> Rank] /\ ldl' \in BOOLEAN
  /\ UNCHANGED <<struct, vars>>

Ended ==
  /\ stage = "structure" => Len(struct) > MaxSup
  /\ stage # "symbolic"
  /\ UNCHANGED <<vars, stage, struct, owner, ldl>>

Steps == Symbolic \/ ReadStructure \/ Distribute \/ Ended

Spec == Start /\ [][Steps]_<<vars, stage, struct, owner, ldl>>

-----------------------------------------------------------------------------
(* What SymbolicFactorization states, while it runs; and what the task     *)
(* graphs assume of the structure holds of the one found, with or without  *)
(* relaxed supernodes.                                                     *)
CountsAreExact    == stage = "symbolic" /\ Analysed => CountsExact
StructureIsExact  ==
  /\ stage = "symbolic" /\ Analysed => StructureExact
  /\ stage # "symbolic" => F!FillClosed

(* What SubtreeMapping states of what it makes of the rows.                *)
Mapped     == stage = "symbolic" /\ Finished
BlocksTile == Mapped => M!BlocksTile
GroupsFair == Mapped => M!GroupsFair

(* What TaskGraph2D and SolveGraph2D state of their graph, for both: the   *)
(* two ends of each dependency agree, and in the solve, where one message  *)
(* stands for several signals, the counts in the messages add up to them.  *)
Distributed       == stage = "distributed"
SignalsMatchDeps  == Distributed => /\ F!SignalsMatchDeps
                                    /\ S!SignalsMatchDeps /\ S!CountedSendsAddUp
EdgesSound        == Distributed => /\ F!EdgesJoinTasks /\ S!EdgesJoinTasks
                                    /\ F!EdgesClimb /\ S!EdgesClimb
(* What SolveGraph2D states of its own.                                    *)
ForwardFirst      == Distributed => S!ForwardFirst

None    == [maxSize |-> 0, nrelax0 |-> 0, nrelax1 |-> 0, nrelax2 |-> 0,
            zrelax0 |-> <<8, 10>>, zrelax1 |-> <<1, 10>>, zrelax2 |-> <<1, 20>>]
Single  == [None EXCEPT !.maxSize = 1]
Relaxed == [None EXCEPT !.nrelax0 = 1, !.nrelax1 = 2, !.nrelax2 = 3,
                        !.maxSize = 4]
OptionSet == {None, Single, Relaxed}
=============================================================================
