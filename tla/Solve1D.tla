------------------------------ MODULE Solve1D ------------------------------
(***************************************************************************)
(* The 1D triangular solve of symPACKMatrix (solve_), the second call of   *)
(* Scheduler::run.  Both phases follow the supernodal tree.  Forward, the  *)
(* FUC task of a supernode adds what its children hold, of its own rows    *)
(* and of those it only passes on, solves its rows and adds its own        *)
(* contributions.  Backward, the BUC task of a supernode solves its rows,  *)
(* and a BU task of each child copies the rows the child needs.  A parent  *)
(* sends one message to each rank that owns children of it; the children   *)
(* hand it on.                                                             *)
(***************************************************************************)
EXTENDS Scheduler1D

IsRoot(I)   == Struct[I] = {}
Parent(I)   == LowestOf(Struct[I])
Children(P) == {I \in Sup : ~IsRoot(I) /\ Parent(I) = P}

ChildrenOn(r, P) == {I \in Children(P) : Own(I) = r}
LocalChildren(P) == ChildrenOn(Own(P), P)
RemChildren(P)   == Children(P) \ LocalChildren(P)

-----------------------------------------------------------------------------
(* The tasks and their counts.  With numSubTasks = 1 there is one of each. *)

FUC(I)   == <<"FUC", I, I, Own(I)>>
BUC(I)   == <<"BUC", I, I, Own(I)>>
BU(P, I) == <<"BU", P, I, Own(I)>>

SolveTasks == {FUC(I) : I \in Sup} \cup {BUC(I) : I \in Sup}
                \cup {BU(Parent(I), I) : I \in {J \in Sup : ~IsRoot(J)}}

IsSolve(t) == t[1] \in {"FUC", "BUC", "BU"}

LocalDepsOf(t) ==
  CASE t[1] = "FUC" -> Cardinality(LocalChildren(t[3]))
    [] t[1] = "BUC" -> 1
    [] t[1] = "BU"  -> IF Own(t[2]) = RankOf(t) THEN 1 ELSE 0

RemoteDepsOf(t) ==
  CASE t[1] = "FUC" -> Cardinality(RemChildren(t[3]))
    [] t[1] = "BUC" -> 0
    [] t[1] = "BU"  -> IF Own(t[2]) = RankOf(t) THEN 0 ELSE 1

-----------------------------------------------------------------------------
(* rows[I][J]: the rows of J in Contributions2_ of I.  terms[K]: times the *)
(* contribution of K is in them; sol: they hold the solution.              *)
VARIABLE rows

Zero == [terms |-> [K \in Sup |-> 0], sol |-> FALSE]

SolveInit == rows = [I \in Sup |-> [J \in {I} \cup Struct[I] |-> Zero]]

Plus(a, b) ==
  [terms |-> [K \in Sup |-> a.terms[K] + b.terms[K]],
   sol   |-> a.sol \/ b.sol]

(* What an rget for a task of the solve reads: the rows of its source.     *)
SolveData(m) == rows[m[1]]

(* Slip: only the rows of the parent are added, not those it passes on.    *)
CarriedToParent(I, c, J) == c \in Children(I) /\ J = I

(* forward_update: all the rows of a child.                                *)
Carried(I, c, J) == c \in Children(I) /\ J \in Struct[c]

(* What forward_update_contrib adds to every row but its own.              *)
Contribution(I) == [terms |-> [K \in Sup |-> IF K = I THEN 1 ELSE 0],
                    sol   |-> FALSE]

(* forward_update, child after child, then forward_update_contrib.         *)
ForwardRows(I, held) ==
  LET sum[n \in 0..NS] ==
        IF n = 0 THEN rows[I]
        ELSE [J \in DOMAIN rows[I] |->
                IF Carried(I, n, J) THEN Plus(sum[n - 1][J], held[n][J])
                ELSE sum[n - 1][J]]
  IN [J \in DOMAIN rows[I] |->
        IF J = I THEN sum[NS][J] ELSE Plus(sum[NS][J], Contribution(I))]

Forward(r, I) ==
  LET held     == [c \in Children(I) |->
                     IF Own(c) = r THEN rows[c] ELSE got[<<c, FUC(I)>>]]
      toParent == <<I, FUC(Parent(I))>>
      local    == ~IsRoot(I) /\ Own(Parent(I)) = r
  IN /\ rows' = [rows EXCEPT ![I] = ForwardRows(I, held)]
     /\ Run(r, FUC(I),
            IF IsRoot(I) THEN {BUC(I)}
            ELSE IF local THEN {FUC(Parent(I))} ELSE {},
            {}, IF IsRoot(I) \/ local THEN {} ELSE {toParent}, <<>>)

(* The message goes to the first child of each rank that the loop meets.   *)
Backward(r, I) ==
  LET others == {Own(c) : c \in RemChildren(I)} IN
  /\ rows' = [rows EXCEPT ![I][I] =
                 [terms |-> @.terms, sol |-> \A J \in Struct[I] : rows[I][J].sol]]
  /\ Run(r, BUC(I), {BU(I, c) : c \in LocalChildren(I)}, {},
         {<<I, BU(I, HighestOf(ChildrenOn(q, I)))>> : q \in others}, <<>>)

(* back_update.  A child that got the rows of its parent in a message      *)
(* hands them to the next child of its rank whose task is in the graph.    *)
CopyDown(r, P, I) ==
  LET remote  == Own(P) # r
      source  == IF remote THEN got[<<P, BU(P, I)>>] ELSE rows[P]
      waiting == {c \in ChildrenOn(r, P) : remote /\ BU(P, c) \in graph}
      next    == IF waiting = {} THEN {} ELSE {BU(P, HighestOf(waiting))}
  IN /\ rows' = [rows EXCEPT ![I] = [J \in DOMAIN @ |->
                   IF J = I THEN @[J] ELSE source[J]]]
     /\ Run(r, BU(P, I), {BUC(I)}, next, {},
            [m \in {<<P, t>> : t \in next} |-> source])

SolveTask(r) ==
  \E t \in Mine(r, ready) :
    \/ t[1] = "FUC" /\ Forward(r, t[3])
    \/ t[1] = "BUC" /\ Backward(r, t[3])
    \/ t[1] = "BU"  /\ CopyDown(r, t[2], t[3])

-----------------------------------------------------------------------------
(* Properties.  The solve is the second call of run.                       *)

Waits(t) == Unexecuted(t, 2)

Contributors(I) == {K \in Sup : I \in Struct[K]}

(* Rows J of supernode I, in the forward phase: what the descendants of I  *)
(* that contribute to J, and then I itself, have added.                    *)
Descends(K, I) ==
  LET up[n \in 0..NS] ==
        IF n = 0 THEN {K} ELSE up[n - 1] \cup
          {Parent(L) : L \in {M \in up[n - 1] : ~IsRoot(M)}}
  IN I \in up[NS]

AddedBelow(I, J) ==
  [K \in Sup |-> IF J \in Struct[K] /\ Descends(K, I) THEN 1 ELSE 0]

(* A supernode is solved with every contribution to its rows, each once,   *)
(* and no row of it is written but with the solution of that row, whoever  *)
(* brings it: the parent, or a sibling that hands it on.                   *)
SolutionExact ==
  \A I \in Sup :
    /\ ~Waits(FUC(I)) =>
         rows[I][I].terms = [K \in Sup |-> IF K \in Contributors(I)
                                             THEN 1 ELSE 0]
    /\ ~Waits(BUC(I)) => rows[I][I].sol
    /\ \A J \in Struct[I] : rows[I][J].sol <=> ~Waits(BU(Parent(I), I))

(* What is announced is there, and stays until it has been read: a child's *)
(* contributions until its parent has them, although its rows are to be    *)
(* overwritten; a parent's solution.                                       *)
SolveDataFinal ==
  \A r \in Rank : \A m \in Pending(r) :
    /\ m[2][1] = "FUC" => \A J \in Struct[m[1]] :
         rows[m[1]][J] = [terms |-> AddedBelow(m[1], J), sol |-> FALSE]
    /\ m[2][1] = "BU"  => \A J \in DOMAIN rows[m[1]] : rows[m[1]][J].sol

(* A task waits for exactly what is still to come: a FUC task for its      *)
(* children, a BUC task for its parent, or for its own forward phase, a BU *)
(* task for its parent or, if the rows come in a message, for the sibling  *)
(* before it on its rank.  So the lookups by dec_ref find their task.      *)
SolveCountersExact ==
  LET unread(m)  == Waits(m[2]) /\ m \notin DOMAIN got
      before(P, I) == {c \in ChildrenOn(Own(I), P) : c > I}
  IN
  /\ \A I \in Sup :
       /\ localDeps[FUC(I)] =
            Cardinality({c \in LocalChildren(I) : Waits(FUC(c))})
       /\ remoteDeps[FUC(I)] =
            Cardinality({c \in RemChildren(I) : unread(<<c, FUC(I)>>)})
       /\ remoteDeps[BUC(I)] = 0
       /\ localDeps[BUC(I)] = 1 <=>
            Waits(IF IsRoot(I) THEN FUC(I) ELSE BU(Parent(I), I))
       /\ ~IsRoot(I) =>
            LET P == Parent(I)  t == BU(P, I) IN
            IF Own(P) = Own(I)
            THEN remoteDeps[t] = 0 /\ (localDeps[t] = 1 <=> Waits(BUC(P)))
            ELSE /\ localDeps[t] = 0
                 /\ remoteDeps[t] = 1 <=>
                      IF before(P, I) = {} THEN unread(<<P, t>>)
                      ELSE Waits(BU(P, LowestOf(before(P, I))))
  /\ \A t \in SolveTasks :
       /\ localDeps[t] >= 0 /\ remoteDeps[t] >= 0
       /\ call[RankOf(t)] = 2 =>
            (t \in graph <=> localDeps[t] + remoteDeps[t] > 0)
=============================================================================
