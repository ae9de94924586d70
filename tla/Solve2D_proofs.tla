--------------------------- MODULE Solve2D_proofs ---------------------------
(***************************************************************************)
(* The 2D triangular solve is correct for every number of supernodes,      *)
(* every structure, every distribution of the cells and any number of      *)
(* ranks.  First the task graph: it has no cycle, and the two ends of      *)
(* every signal agree.  Then the execution, with messages that stand for   *)
(* several signals and slots that are lent and given back.  Then what the  *)
(* slots hold: the finished vectors and the solution.  Last, of the graph  *)
(* alone, the order of the two phases and the counts in the messages.      *)
(***************************************************************************)
EXTENDS Solve2D, Counting

LEMMA PairTypes ==
  ASSUME NEW x \in Below
  PROVE  /\ x[1] \in Sup /\ x[2] \in Sup /\ x[2] > x[1] /\ x[2] <= NS
         /\ x = <<x[1], x[2]>>
  BY GraphAssumption DEF Below, Sup

-----------------------------------------------------------------------------
(* No circular wait in the solve: every signal climbs.                     *)
THEOREM SolveAcyclic == EdgesClimb
<1> USE GraphAssumption DEF Edge, TaskOf, FUC, BUC, Height, Sup
<1>1. ASSUME NEW e \in FucDSend PROVE Height(e.from) < Height(e.to)
  BY PairTypes DEF FucDSend
<1>2. ASSUME NEW e \in FucSend PROVE Height(e.from) < Height(e.to)
  <2>1. ASSUME NEW x \in Below
        PROVE  Height(FUC(x[2], x[1])) < Height(FUC(x[2], x[2]))
    BY PairTypes
  <2>2. ASSUME NEW I \in Sup PROVE Height(FUC(I, I)) < Height(BUC(I, I))
    OBVIOUS
  <2>3. CASE \E x \in Below :
                e = Edge(FUC(x[2], x[1]), FUC(x[2], x[2]), "FUC", x)
    BY <2>1, <2>3
  <2>4. CASE \E I \in Sup : e = Edge(FUC(I, I), BUC(I, I), "FUC", <<I, I>>)
    BY <2>2, <2>4
  <2> QED
    BY <2>3, <2>4 DEF FucSend
<1>3. ASSUME NEW e \in BucDSend PROVE Height(e.from) < Height(e.to)
  BY PairTypes DEF BucDSend
<1>4. ASSUME NEW e \in BucSend PROVE Height(e.from) < Height(e.to)
  BY PairTypes DEF BucSend
<1> QED
  BY <1>1, <1>2, <1>3, <1>4 DEF EdgesClimb, Edges

(* Every lookup by key finds its task: signals start and end at tasks,     *)
(* whether or not the structure is closed under fill.                      *)
THEOREM SolveSignalsLandOnTasks == EdgesJoinTasks
<1>1. \A I \in Sup : FUC(I, I) \in Task /\ BUC(I, I) \in Task
  BY DEF Task
<1>2. \A x \in Below : FUC(x[2], x[1]) \in Task /\ BUC(x[2], x[1]) \in Task
  BY DEF Task
<1> USE DEF Edge
<1>3. \A e \in FucDSend \cup BucDSend \cup BucSend :
        e.from \in Task /\ e.to \in Task
  BY <1>1, <1>2, PairTypes DEF FucDSend, BucDSend, BucSend
<1>4. \A e \in FucSend : e.from \in Task /\ e.to \in Task
  BY <1>1, <1>2, PairTypes DEF FucSend
<1> QED
  BY <1>3, <1>4 DEF EdgesJoinTasks, Edges

-----------------------------------------------------------------------------
(* The dependency that answers a signal.                                   *)
Expected(e) == Dep(e.to, e.from.rank # e.to.rank, e.why, e.at)
Answers(E)  == {Expected(e) : e \in E}

(* Both sides of the exchange count the same signals of the solve, remote  *)
(* and local.                                                              *)
THEOREM SolveCountsAgree == SignalsMatchDeps
<1>1. ASSUME NEW x \in Below
      PROVE  Dep(FUC(x[2], x[1]), Home(x[2], x[1]) # Home(x[1], x[1]), "FUC_D", x)
               = Expected(Edge(FUC(x[1], x[1]), FUC(x[2], x[1]), "FUC_D", x))
  BY DEF Expected, Dep, Edge, TaskOf, FUC, BUC
<1>2. ASSUME NEW x \in Below
      PROVE  Dep(FUC(x[2], x[2]), Home(x[2], x[1]) # Home(x[2], x[2]), "FUC", x)
               = Expected(Edge(FUC(x[2], x[1]), FUC(x[2], x[2]), "FUC", x))
  BY DEF Expected, Dep, Edge, TaskOf, FUC, BUC
<1>3. ASSUME NEW I \in Sup
      PROVE  Dep(BUC(I, I), FALSE, "FUC", <<I, I>>)
               = Expected(Edge(FUC(I, I), BUC(I, I), "FUC", <<I, I>>))
  BY DEF Expected, Dep, Edge, TaskOf, FUC, BUC
<1>4. ASSUME NEW x \in Below
      PROVE  Dep(BUC(x[1], x[1]), Home(x[2], x[1]) # Home(x[1], x[1]), "BUC_D", x)
               = Expected(Edge(BUC(x[2], x[1]), BUC(x[1], x[1]), "BUC_D", x))
  BY DEF Expected, Dep, Edge, TaskOf, FUC, BUC
<1>5. ASSUME NEW x \in Below
      PROVE  Dep(BUC(x[2], x[1]), Home(x[2], x[1]) # Home(x[2], x[2]), "BUC", x)
               = Expected(Edge(BUC(x[2], x[2]), BUC(x[2], x[1]), "BUC", x))
  BY DEF Expected, Dep, Edge, TaskOf, FUC, BUC
<1>6. FucDRecv = Answers(FucDSend)
  BY <1>1 DEF FucDRecv, FucDSend, Answers
<1>7. FucRecv = Answers(FucSend)
  <2> DEFINE A == {Edge(FUC(x[2], x[1]), FUC(x[2], x[2]), "FUC", x) : x \in Below}
             B == {Edge(FUC(I, I), BUC(I, I), "FUC", <<I, I>>) : I \in {K \in Sup : Root(K)}}
  <2>1. {Dep(FUC(x[2], x[2]), Home(x[2], x[1]) # Home(x[2], x[2]), "FUC", x) :
           x \in Below} = {Expected(e) : e \in A}
    BY <1>2
  <2>2. {Dep(BUC(I, I), FALSE, "FUC", <<I, I>>) : I \in {K \in Sup : Root(K)}}
          = {Expected(e) : e \in B}
    BY <1>3
  <2>3. FucSend = A \cup B
    BY DEF FucSend
  <2>4. FucRecv = {Expected(e) : e \in A} \cup {Expected(e) : e \in B}
    BY <2>1, <2>2 DEF FucRecv
  <2> HIDE DEF A, B
  <2> QED
    BY <2>3, <2>4 DEF Answers
<1>8. BucDRecv = Answers(BucDSend)
  BY <1>4 DEF BucDRecv, BucDSend, Answers
<1>9. BucRecv = Answers(BucSend)
  BY <1>5 DEF BucRecv, BucSend, Answers
<1>10. Deps = Answers(Edges)
  BY <1>6, <1>7, <1>8, <1>9 DEF Deps, Edges, Answers
<1> QED
  BY <1>10 DEF SignalsMatchDeps, Answers, Expected

-----------------------------------------------------------------------------
LEMMA BelowFinite == IsFiniteSet(Below)
<1>1. IsFiniteSet(Sup)
  BY FS_Interval, GraphAssumption DEF Sup
<1>2. IsFiniteSet(Sup \X Sup)
  BY <1>1, FS_Product
<1> QED
  BY <1>2, FS_Subset DEF Below

LEMMA EdgesFinite ==
  /\ IsFiniteSet(FucDSend) /\ IsFiniteSet(FucSend) /\ IsFiniteSet(BucDSend)
  /\ IsFiniteSet(BucSend) /\ IsFiniteSet(Edges)
<1> DEFINE d == [x \in Below |-> Edge(FUC(x[1], x[1]), FUC(x[2], x[1]), "FUC_D", x)]
           f == [x \in Below |-> Edge(FUC(x[2], x[1]), FUC(x[2], x[2]), "FUC", x)]
           g == [I \in {K \in Sup : Root(K)} |->
                   Edge(FUC(I, I), BUC(I, I), "FUC", <<I, I>>)]
           h == [x \in Below |-> Edge(BUC(x[2], x[1]), BUC(x[1], x[1]), "BUC_D", x)]
           k == [x \in Below |-> Edge(BUC(x[2], x[2]), BUC(x[2], x[1]), "BUC", x)]
<1>1. IsFiniteSet({K \in Sup : Root(K)})
  <2>1. IsFiniteSet(Sup)
    BY FS_Interval, GraphAssumption DEF Sup
  <2> QED
    BY <2>1, FS_Subset
<1>2. /\ IsFiniteSet({d[x] : x \in Below}) /\ IsFiniteSet({f[x] : x \in Below})
      /\ IsFiniteSet({h[x] : x \in Below}) /\ IsFiniteSet({k[x] : x \in Below})
  BY BelowFinite, ImageFinite
<1>3. IsFiniteSet({g[I] : I \in {K \in Sup : Root(K)}})
  BY <1>1, ImageFinite
<1>4. /\ FucDSend = {d[x] : x \in Below}
      /\ FucSend = {f[x] : x \in Below} \cup {g[I] : I \in {K \in Sup : Root(K)}}
      /\ BucDSend = {h[x] : x \in Below}
      /\ BucSend = {k[x] : x \in Below}
  BY DEF FucDSend, FucSend, BucDSend, BucSend
<1>5. /\ IsFiniteSet(FucDSend) /\ IsFiniteSet(FucSend) /\ IsFiniteSet(BucDSend)
      /\ IsFiniteSet(BucSend)
  BY <1>2, <1>3, <1>4, FS_Union
<1> QED
  BY <1>5, FS_Union DEF Edges

(* A rank that holds a contribution for a supernode it does not own is     *)
(* told to send it: the counts that trigger the message, and the release   *)
(* of the contribution, are never zero where a task of the rank adds to it.*)
THEOREM ContributionsAreSent ==
  \A x \in Below : /\ RightDeps(x[2], Home(x[2], x[1])) \in Nat \ {0}
                   /\ UpDeps(x[1], Home(x[2], x[1])) \in Nat \ {0}
<1> SUFFICES ASSUME NEW x \in Below
             PROVE  /\ RightDeps(x[2], Home(x[2], x[1])) \in Nat \ {0}
                    /\ UpDeps(x[1], Home(x[2], x[1])) \in Nat \ {0}
  OBVIOUS
<1> DEFINE r     == Home(x[2], x[1])
           right == {e \in FucSend : e.from.row = x[2] /\ e.from.rank = r}
           up    == {e \in BucDSend : e.from.col = x[1] /\ e.from.rank = r}
<1>1. IsFiniteSet(FucSend) /\ IsFiniteSet(BucDSend)
  BY EdgesFinite
<1>2. Edge(FUC(x[2], x[1]), FUC(x[2], x[2]), "FUC", x) \in right
  BY DEF FucSend, Edge, FUC, TaskOf
<1>3. Edge(BUC(x[2], x[1]), BUC(x[1], x[1]), "BUC_D", x) \in up
  BY DEF BucDSend, Edge, BUC, TaskOf
<1>4. IsFiniteSet(right) /\ IsFiniteSet(up)
  BY <1>1, FS_Subset
<1>5. Cardinality(right) \in Nat \ {0} /\ Cardinality(up) \in Nat \ {0}
  BY <1>2, <1>3, <1>4, FS_CardinalityType, FS_EmptySet
<1> QED
  BY <1>5 DEF RightDeps, UpDeps

-----------------------------------------------------------------------------
(* The shape of tasks and signals.                                         *)

LEMMA TaskShape ==
  ASSUME NEW t \in Task
  PROVE  /\ t = TaskOf(t.op, t.row, t.col, t.src, t.rank) /\ t.src = t.col
         /\ t.op \in {"FUC", "BUC"} /\ t.row \in Sup /\ t.col \in Sup
         /\ t.rank = Home(t.row, t.col) /\ t.rank \in Rank
         /\ ~Diag(t) => <<t.col, t.row>> \in Below
         /\ t.op = "FUC" => t = FUC(t.row, t.col)
         /\ t.op = "BUC" => t = BUC(t.row, t.col)
<1> USE DEF TaskOf, FUC, BUC, Diag
<1>0. \A K, J \in Sup : K >= J => Home(K, J) \in Rank
  BY GraphAssumption DEF Home, Pair
<1>1. CASE \E I \in Sup : t = FUC(I, I) \/ t = BUC(I, I)
  BY <1>0, <1>1, GraphAssumption DEF Sup
<1>2. CASE \E x \in Below : t = FUC(x[2], x[1]) \/ t = BUC(x[2], x[1])
  <2>1. PICK x \in Below : t = FUC(x[2], x[1]) \/ t = BUC(x[2], x[1])
    BY <1>2
  <2>2. /\ x[1] \in Sup /\ x[2] \in Sup /\ x[2] > x[1] /\ x = <<x[1], x[2]>>
    BY PairTypes
  <2>3. Home(x[2], x[1]) \in Rank
    BY <1>0, <2>2, GraphAssumption DEF Sup
  <2> QED
    BY <2>1, <2>2, <2>3
<1> QED
  BY <1>1, <1>2 DEF Task

LEMMA TasksFinite == IsFiniteSet(Task)
<1> DEFINE T == {"FUC", "BUC"} \X (Sup \X Sup)
           f == [t \in Task |-> <<t.op, <<t.row, t.col>>>>]
<1>1. IsFiniteSet(T)
  <2>1. IsFiniteSet({"FUC", "BUC"})
    <3> DEFINE O == {"FUC", "BUC"}
    <3>1. O = {"FUC"} \cup {"BUC"}
      OBVIOUS
    <3>2. IsFiniteSet({"FUC"}) /\ IsFiniteSet({"BUC"})
      BY FS_Singleton
    <3> HIDE DEF O
    <3>3. IsFiniteSet(O)
      BY <3>1, <3>2, FS_Union
    <3> QED
      BY <3>3 DEF O
  <2>2. IsFiniteSet(Sup)
    BY GraphAssumption, FS_Interval DEF Sup
  <2> QED
    BY <2>1, <2>2, FS_Product
<1>2. f \in [Task -> T]
  BY TaskShape
<1>3. \A t, u \in Task : f[t] = f[u] => t = u
  BY TaskShape DEF TaskOf
<1> QED
  <2> HIDE DEF f, T
  <2> QED
    BY <1>1, <1>2, <1>3, IntoFinite

(* Tasks are told apart by kind and cell.                                  *)
LEMMA SameTask ==
  ASSUME NEW t \in Task, NEW u \in Task, t.op = u.op, t.row = u.row, t.col = u.col
  PROVE  t = u
  BY TaskShape DEF TaskOf

(* The diagonal task that the contributions to a supernode go to, and the  *)
(* one signal of a contribution.                                           *)
Final(t) == TaskOf(t.op, Goal(t), Goal(t), Goal(t), Home(Goal(t), Goal(t)))

Contribution(t) ==
  Edge(t, Final(t), IF t.op = "FUC" THEN "FUC" ELSE "BUC_D", <<t.col, t.row>>)

(* The five kinds of signals.                                              *)
LEMMA EdgeShape ==
  ASSUME NEW e \in Edges
  PROVE  /\ e = Edge(e.from, e.to, e.why, e.at)
         /\ e.from \in Task /\ e.to \in Task
         /\ ~Diag(e.from) => e = Contribution(e.from) /\ Diag(e.to)
         /\ Diag(e.from) =>
              \/ /\ ~Diag(e.to) /\ e.to.op = "FUC" /\ e.from.op = "FUC"
                 /\ e.from.col = e.to.col /\ e.why = "FUC_D"
                 /\ e.at = <<e.to.col, e.to.row>>
              \/ /\ Diag(e.to) /\ e.to.op = "BUC" /\ e.from.op = "FUC"
                 /\ e.from.col = e.to.col /\ e.why = "FUC"
                 /\ e.at = <<e.to.col, e.to.col>> /\ e.from.rank = e.to.rank
              \/ /\ ~Diag(e.to) /\ e.to.op = "BUC" /\ e.from.op = "BUC"
                 /\ e.from.col = e.to.row /\ e.why = "BUC"
                 /\ e.at = <<e.to.col, e.to.row>>
<1> USE DEF Edge, TaskOf, FUC, BUC, Diag, Contribution, Final, Goal
<1>0. e.from \in Task /\ e.to \in Task
  BY SolveSignalsLandOnTasks DEF EdgesJoinTasks
<1>x. \A x \in Below : x[2] # x[1] /\ x = <<x[1], x[2]>>
  BY PairTypes, GraphAssumption DEF Sup
<1>1. CASE e \in FucDSend
  <2>1. PICK x \in Below : e = Edge(FUC(x[1], x[1]), FUC(x[2], x[1]), "FUC_D", x)
    BY <1>1 DEF FucDSend
  <2> QED
    BY <1>0, <1>x, <2>1
<1>2. CASE \E x \in Below : e = Edge(FUC(x[2], x[1]), FUC(x[2], x[2]), "FUC", x)
  <2>1. PICK x \in Below : e = Edge(FUC(x[2], x[1]), FUC(x[2], x[2]), "FUC", x)
    BY <1>2
  <2> QED
    BY <1>0, <1>x, <2>1
<1>3. CASE \E I \in Sup : e = Edge(FUC(I, I), BUC(I, I), "FUC", <<I, I>>)
  BY <1>0, <1>3
<1>4. CASE e \in BucDSend
  <2>1. PICK x \in Below : e = Edge(BUC(x[2], x[1]), BUC(x[1], x[1]), "BUC_D", x)
    BY <1>4 DEF BucDSend
  <2> QED
    BY <1>0, <1>x, <2>1
<1>5. CASE e \in BucSend
  <2>1. PICK x \in Below : e = Edge(BUC(x[2], x[2]), BUC(x[2], x[1]), "BUC", x)
    BY <1>5 DEF BucSend
  <2> QED
    BY <1>0, <1>x, <2>1
<1> QED
  BY <1>1, <1>2, <1>3, <1>4, <1>5 DEF Edges, FucSend

(* Two tasks are joined by at most one signal.                             *)
LEMMA EdgeEnds ==
  ASSUME NEW e \in Edges, NEW f \in Edges, e.from = f.from, e.to = f.to
  PROVE  e = f
<1>1. CASE ~Diag(e.from)
  BY <1>1, EdgeShape
<1>2. CASE Diag(e.from)
  <2>1. e.why = f.why /\ e.at = f.at
    BY <1>2, EdgeShape DEF Diag
  <2> QED
    BY <2>1, EdgeShape DEF Edge
<1> QED
  BY <1>1, <1>2

LEMMA ContributionShape ==
  ASSUME NEW t \in Task, ~Diag(t)
  PROVE  /\ Contribution(t) \in Edges /\ Final(t) \in Task
         /\ Contribution(t).from = t /\ Contribution(t).to = Final(t)
         /\ Diag(Final(t)) /\ Final(t).op = t.op /\ Goal(Final(t)) = Goal(t)
         /\ Goal(t) \in Sup /\ Final(t).rank = Home(Goal(t), Goal(t))
         /\ Away(t) <=> Final(t).rank # t.rank
<1>1. /\ <<t.col, t.row>> \in Below /\ t.op \in {"FUC", "BUC"}
      /\ t.op = "FUC" => t = FUC(t.row, t.col)
      /\ t.op = "BUC" => t = BUC(t.row, t.col)
      /\ t.row \in Sup /\ t.col \in Sup
  BY TaskShape
<1> DEFINE x == <<t.col, t.row>>
<1>x. x[1] = t.col /\ x[2] = t.row
  OBVIOUS
<1>2. ASSUME t.op = "FUC" PROVE Contribution(t) \in Edges /\ Final(t) \in Task
  <2>1. /\ Contribution(t) = Edge(FUC(x[2], x[1]), FUC(x[2], x[2]), "FUC", x)
        /\ Final(t) = FUC(t.row, t.row)
    BY <1>1, <1>2 DEF Contribution, Final, Goal, FUC
  <2>2. Contribution(t) \in FucSend
    BY <1>1, <2>1 DEF FucSend
  <2>3. FUC(t.row, t.row) \in Task
    BY <1>1 DEF Task
  <2>4. Contribution(t) \in Edges
    BY <2>2 DEF Edges
  <2>5. Final(t) \in Task
    BY <2>1, <2>3
  <2> QED
    BY <2>4, <2>5
<1>3. ASSUME t.op = "BUC" PROVE Contribution(t) \in Edges /\ Final(t) \in Task
  <2>1. /\ Contribution(t) = Edge(BUC(x[2], x[1]), BUC(x[1], x[1]), "BUC_D", x)
        /\ Final(t) = BUC(t.col, t.col)
    BY <1>1, <1>3 DEF Contribution, Final, Goal, BUC
  <2>2. Contribution(t) \in BucDSend
    BY <1>1, <2>1 DEF BucDSend
  <2>3. BUC(t.col, t.col) \in Task
    BY <1>1 DEF Task
  <2>4. Contribution(t) \in Edges
    BY <2>2 DEF Edges
  <2>5. Final(t) \in Task
    BY <2>1, <2>3
  <2> QED
    BY <2>4, <2>5
<1>4. Contribution(t) \in Edges /\ Final(t) \in Task
  BY <1>1, <1>2, <1>3
<1> QED
  BY <1>1, <1>4 DEF Edge, TaskOf, Diag, Contribution, Final, Goal, Away

LEMMA MixedSenders ==
  ASSUME NEW d \in Edges, NEW e \in Edges, Diag(d.from), ~Diag(e.from),
         d.why = e.why, d.at = e.at
  PROVE  FALSE
<1>1. /\ e.why \in {"FUC", "BUC_D"} /\ e.at = <<e.from.col, e.from.row>>
      /\ e.from.col # e.from.row
  <2>1. e = Contribution(e.from)
    BY EdgeShape
  <2> QED
    BY <2>1 DEF Contribution, Edge, Diag
<1>2. /\ d.why \in {"FUC_D", "FUC", "BUC"}
      /\ d.why = "FUC" => d.at = <<d.to.col, d.to.col>>
  BY EdgeShape
<1> QED
  BY <1>1, <1>2

(* What a task is told to expect is the number of signals to it.           *)
LocalInto(t)  == {e \in Edges : e.to = t /\ e.from.rank = t.rank}
RemoteInto(t) == {e \in Edges : e.to = t /\ e.from.rank # t.rank}

LEMMA IntoCounts ==
  ASSUME NEW t \in Task
  PROVE  /\ LocalDeps(t) = Cardinality(LocalInto(t))
         /\ RemoteDeps(t) = Cardinality(RemoteInto(t))
         /\ IsFiniteSet(LocalInto(t)) /\ IsFiniteSet(RemoteInto(t))
<1> DEFINE L == {d \in Deps : d.task = t /\ ~d.remote}
           M == {d \in Deps : d.task = t /\ d.remote}
           f == [e \in LocalInto(t) |-> Expected(e)]
           g == [e \in RemoteInto(t) |-> Expected(e)]
<1>1. Deps = {Expected(e) : e \in Edges}
  BY SolveCountsAgree DEF SignalsMatchDeps, Expected
<1>2. IsFiniteSet(LocalInto(t)) /\ IsFiniteSet(RemoteInto(t))
  BY EdgesFinite, FS_Subset DEF LocalInto, RemoteInto
<1>3. \A d, e \in Edges : d.to = e.to /\ Expected(d) = Expected(e) => d = e
  <2> SUFFICES ASSUME NEW d \in Edges, NEW e \in Edges, d.to = e.to,
                      Expected(d) = Expected(e)
               PROVE  d = e
    OBVIOUS
  <2>1. d.why = e.why /\ d.at = e.at
    BY DEF Expected, Dep
  <2>2. /\ d.from \in Task /\ e.from \in Task
        /\ d = Edge(d.from, d.to, d.why, d.at) /\ e = Edge(e.from, e.to, e.why, e.at)
    BY EdgeShape
  <2>3. CASE Diag(d.from) /\ Diag(e.from)
    <3>1. d.from.col = e.from.col /\ d.from.op = e.from.op
      BY <2>1, <2>3, EdgeShape DEF Diag
    <3>2. d.from = e.from
      BY <2>2, <2>3, <3>1, SameTask DEF Diag
    <3> QED
      BY <3>2, EdgeEnds
  <2>4. CASE ~Diag(d.from) /\ ~Diag(e.from)
    <3>1. d = Contribution(d.from) /\ e = Contribution(e.from)
      BY <2>4, EdgeShape
    <3>2. /\ d.at = <<d.from.col, d.from.row>> /\ e.at = <<e.from.col, e.from.row>>
          /\ d.to.op = d.from.op /\ e.to.op = e.from.op
      BY <3>1 DEF Contribution, Edge, Final, TaskOf
    <3>a. <<d.from.col, d.from.row>> = <<e.from.col, e.from.row>>
      BY <2>1, <3>2
    <3>b. d.from.op = e.from.op
      BY <3>2
    <3>3. d.from.op = e.from.op /\ d.from.col = e.from.col /\ d.from.row = e.from.row
      BY <3>a, <3>b
    <3>4. d.from = e.from
      BY <2>2, <3>3, SameTask
    <3> QED
      BY <3>4, EdgeEnds
  <2>5. CASE Diag(d.from) /\ ~Diag(e.from)
    BY <2>1, <2>2, <2>5, MixedSenders
  <2>6. CASE ~Diag(d.from) /\ Diag(e.from)
    BY <2>1, <2>2, <2>6, MixedSenders
  <2> QED
    BY <2>3, <2>4, <2>5, <2>6
<1>a. \A e \in Edges : /\ Expected(e) \in Deps
                       /\ Expected(e).task = e.to
                       /\ Expected(e).remote = (e.from.rank # e.to.rank)
  BY <1>1 DEF Expected, Dep
<1>b. \A d \in Deps : \E e \in Edges : Expected(e) = d
  BY <1>1
<1> HIDE <1>1
<1>4. /\ f \in [LocalInto(t) -> L]
      /\ \A y \in L : \E x \in LocalInto(t) : f[x] = y
      /\ \A x, y \in LocalInto(t) : f[x] = f[y] => x = y
  <2>1. f \in [LocalInto(t) -> L]
    BY <1>a DEF LocalInto
  <2>2. \A y \in L : \E x \in LocalInto(t) : Expected(x) = y
    BY <1>a, <1>b DEF LocalInto
  <2>3. \A x, y \in LocalInto(t) : Expected(x) = Expected(y) => x = y
    BY <1>3 DEF LocalInto
  <2> QED
    BY <2>1, <2>2, <2>3
<1>5. /\ g \in [RemoteInto(t) -> M]
      /\ \A y \in M : \E x \in RemoteInto(t) : g[x] = y
      /\ \A x, y \in RemoteInto(t) : g[x] = g[y] => x = y
  <2>1. g \in [RemoteInto(t) -> M]
    BY <1>a DEF RemoteInto
  <2>2. \A y \in M : \E x \in RemoteInto(t) : Expected(x) = y
    BY <1>a, <1>b DEF RemoteInto
  <2>3. \A x, y \in RemoteInto(t) : Expected(x) = Expected(y) => x = y
    BY <1>3 DEF RemoteInto
  <2> QED
    BY <2>1, <2>2, <2>3
<1>6. Cardinality(L) = Cardinality(LocalInto(t))
  <2> HIDE DEF f, L
  <2> QED
    BY <1>2, <1>4, SameCount
<1>7. Cardinality(M) = Cardinality(RemoteInto(t))
  <2> HIDE DEF g, M
  <2> QED
    BY <1>2, <1>5, SameCount
<1> QED
  BY <1>2, <1>6, <1>7 DEF LocalDeps, RemoteDeps, Incoming

-----------------------------------------------------------------------------
(* Messages.  The message of a diagonal task carries one signal to each    *)
(* target; that of a contribution carries the signals of all the tasks of  *)
(* its rank that contribute to the same supernode.                         *)

Peers(t) ==
  {u \in Task : u.op = t.op /\ ~Diag(u) /\ Goal(u) = Goal(t) /\ u.rank = t.rank}

Contributes(t) == ~Diag(t) /\ Away(t)

Carries(m, e) ==
  e.to.rank = m[2] /\ IF Diag(m[1]) THEN e.from = m[1] ELSE e.from \in Peers(m[1])

CarriedTo(m, t) == {e \in RemoteInto(t) : Carries(m, e)}

LEMMA RpcShape ==
  ASSUME NEW m \in Rpcs
  PROVE  /\ m = <<m[1], m[2]>> /\ m[1] \in Task /\ m[2] \in Rank
         /\ m[1].rank # m[2]
         /\ ~Diag(m[1]) => /\ Contributes(m[1]) /\ m[2] = Final(m[1]).rank
                           /\ TargetsOn(m[1], m[2]) = {Final(m[1])}
         /\ TargetsOn(m[1], m[2]) \subseteq OnRank(m[2], Task)
         /\ \E e \in Edges : e.from = m[1] /\ e.to.rank = m[2]
<1>1. /\ m = <<m[1], m[2]>> /\ m[1] \in Task /\ m[2] \in Rank
      /\ m[2] \in OtherRanks(m[1])
  BY DEF Rpcs
<1>2. PICK e \in Edges : e.from = m[1] /\ e.to.rank = m[2]
  BY <1>1 DEF OtherRanks
<1>3. m[1].rank # m[2]
  BY <1>1 DEF OtherRanks
<1>4. \A u \in TargetsOn(m[1], m[2]) : u \in Task /\ u.rank = m[2]
  BY EdgeShape DEF TargetsOn
<1>5. ASSUME ~Diag(m[1])
      PROVE  /\ Contributes(m[1]) /\ m[2] = Final(m[1]).rank
             /\ TargetsOn(m[1], m[2]) = {Final(m[1])}
  <2>1. \A f \in Edges : f.from = m[1] => f = Contribution(m[1])
    BY <1>5, EdgeShape
  <2>2. /\ Contribution(m[1]) \in Edges /\ Contribution(m[1]).from = m[1]
        /\ Contribution(m[1]).to = Final(m[1])
        /\ Away(m[1]) <=> Final(m[1]).rank # m[1].rank
    BY <1>1, <1>5, ContributionShape
  <2>3. m[2] = Final(m[1]).rank
    BY <1>2, <2>1, <2>2
  <2>4. TargetsOn(m[1], m[2]) = {Final(m[1])}
    BY <2>1, <2>2, <2>3 DEF TargetsOn
  <2> QED
    BY <1>3, <1>5, <2>2, <2>3, <2>4 DEF Contributes
<1>6. TargetsOn(m[1], m[2]) \subseteq OnRank(m[2], Task)
  BY <1>4 DEF OnRank
<1> QED
  BY <1>1, <1>2, <1>3, <1>5, <1>6

(* Every signal to another rank has a message that carries it.             *)
LEMMA Carrier ==
  ASSUME NEW e \in Edges, e.from.rank # e.to.rank
  PROVE  /\ <<e.from, e.to.rank>> \in Rpcs
         /\ e.to \in TargetsOn(e.from, e.to.rank)
         /\ Carries(<<e.from, e.to.rank>>, e)
<1>1. e.from \in Task /\ e.to \in Task /\ e.to.rank \in Rank
  BY EdgeShape, TaskShape
<1>2. <<e.from, e.to.rank>> \in Rpcs
  BY <1>1 DEF Rpcs, OtherRanks
<1>3. e.to \in TargetsOn(e.from, e.to.rank)
  BY DEF TargetsOn
<1>4. Carries(<<e.from, e.to.rank>>, e)
  BY <1>1 DEF Carries, Peers
<1> QED
  BY <1>2, <1>3, <1>4

LEMMA RpcsFinite == IsFiniteSet(Rpcs)
<1> DEFINE f == [e \in Edges |-> <<e.from, e.to.rank>>]
           T == {f[e] : e \in Edges}
<1>1. IsFiniteSet(T)
  BY EdgesFinite, ImageFinite
<1>2. Rpcs \subseteq T
  <2> SUFFICES ASSUME NEW m \in Rpcs PROVE m \in T
    OBVIOUS
  <2>1. PICK e \in Edges : e.from = m[1] /\ e.to.rank = m[2]
    BY RpcShape
  <2>2. m = f[e]
    BY <2>1, RpcShape
  <2> QED
    BY <2>2
<1> HIDE DEF T
<1> QED
  BY <1>1, <1>2, FS_Subset

LEMMA PeersShape ==
  ASSUME NEW t \in Task, ~Diag(t)
  PROVE  /\ t \in Peers(t) /\ Peers(t) \subseteq Task
         /\ IsFiniteSet(Peers(t)) /\ Cardinality(Peers(t)) \in Nat
         /\ \A u \in Peers(t) : /\ ~Diag(u) /\ u.rank = t.rank /\ Peers(u) = Peers(t)
                                /\ Final(u) = Final(t) /\ (Away(u) <=> Away(t))
                                /\ Goal(u) = Goal(t) /\ u.op = t.op
<1>1. Peers(t) \subseteq Task /\ t \in Peers(t)
  BY DEF Peers
<1>2. IsFiniteSet(Peers(t)) /\ Cardinality(Peers(t)) \in Nat
  BY <1>1, TasksFinite, FS_Subset, FS_CardinalityType
<1>3. \A u \in Peers(t) : Peers(u) = Peers(t)
  BY DEF Peers
<1>4. \A u \in Peers(t) : /\ ~Diag(u) /\ u.rank = t.rank
                          /\ Goal(u) = Goal(t) /\ u.op = t.op
  BY DEF Peers
<1>5. \A u \in Peers(t) : Final(u) = Final(t) /\ (Away(u) <=> Away(t))
  BY <1>4 DEF Final, Away
<1> QED
  BY <1>1, <1>2, <1>3, <1>4, <1>5

(* dep_cnt is the number of contributions of the rank.                     *)
LEMMA DepCntIsPeers ==
  ASSUME NEW t \in Task, Contributes(t)
  PROVE  /\ DepCnt(t) = Cardinality(Peers(t))
         /\ DepCnt(t) \in Nat \ {0}
<1> DEFINE f == [u \in Peers(t) |-> Contribution(u)]
           E == IF t.op = "FUC"
                THEN {e \in FucSend : e.from.row = t.row /\ e.from.rank = t.rank}
                ELSE {e \in BucDSend : e.from.col = t.col /\ e.from.rank = t.rank}
<1>0. ~Diag(t)
  BY DEF Contributes
<1>1. DepCnt(t) = Cardinality(E)
  BY DEF DepCnt, RightDeps, UpDeps
<1>2. \A u \in Peers(t) : /\ u \in Task /\ ~Diag(u) /\ u.rank = t.rank
                          /\ Goal(u) = Goal(t) /\ u.op = t.op
  BY <1>0, PeersShape
<1>3. f \in [Peers(t) -> E]
  <2> SUFFICES ASSUME NEW u \in Peers(t) PROVE Contribution(u) \in E
    OBVIOUS
  <2>1. Contribution(u) \in Edges /\ Contribution(u).from = u
    BY <1>2, ContributionShape
  <2>2. t.op = "FUC" => Contribution(u).why = "FUC" /\ u.row = t.row
    BY <1>2 DEF Contribution, Edge, Goal
  <2>3. t.op # "FUC" => Contribution(u).why = "BUC_D" /\ u.col = t.col
    BY <1>2 DEF Contribution, Edge, Goal
  <2>4. \A e \in Edges : /\ e.why = "FUC" => e \in FucSend
                         /\ e.why = "BUC_D" => e \in BucDSend
    BY DEF Edges, FucDSend, FucSend, BucDSend, BucSend, Edge
  <2> QED
    BY <1>2, <2>1, <2>2, <2>3, <2>4
<1>4. \A u, v \in Peers(t) : f[u] = f[v] => u = v
  BY <1>2, ContributionShape
<1>5. \A e \in E : \E u \in Peers(t) : f[u] = e
  <2> SUFFICES ASSUME NEW e \in E PROVE e.from \in Peers(t) /\ Contribution(e.from) = e
    OBVIOUS
  <2>1. e \in Edges /\ e.from \in Task
    <3>1. e \in Edges
      BY DEF Edges
    <3> QED
      BY <3>1, EdgeShape
  <2>2. ~Diag(e.from) /\ e.from.op = t.op
    <3>1. Home(Goal(t), Goal(t)) # t.rank
      BY DEF Contributes, Away
    <3>2. t.op \in {"FUC", "BUC"}
      BY TaskShape
    <3>3. CASE t.op = "FUC"
      <4>1. e \in FucSend /\ e.from.row = t.row /\ e.from.rank = t.rank
        BY <3>3
      <4>2. e.from.op = "FUC"
        BY <4>1 DEF FucSend, Edge, FUC, TaskOf
      <4>3. Diag(e.from) => e.from.rank = Home(t.row, t.row)
        BY <2>1, <4>1, TaskShape DEF Diag
      <4> QED
        BY <3>1, <3>3, <4>1, <4>2, <4>3 DEF Goal
    <3>4. CASE t.op = "BUC"
      <4>1. e \in BucDSend /\ e.from.col = t.col /\ e.from.rank = t.rank
        BY <3>4
      <4>2. e.from.op = "BUC"
        BY <4>1 DEF BucDSend, Edge, BUC, TaskOf
      <4>3. Diag(e.from) => e.from.rank = Home(t.col, t.col)
        BY <2>1, <4>1, TaskShape DEF Diag
      <4> QED
        BY <3>1, <3>4, <4>1, <4>2, <4>3 DEF Goal
    <3> QED
      BY <3>2, <3>3, <3>4
  <2>3. e.from \in Peers(t)
    BY <2>1, <2>2 DEF Peers, Goal
  <2> QED
    BY <2>1, <2>2, <2>3, EdgeShape
<1>6. IsFiniteSet(Peers(t)) /\ Cardinality(Peers(t)) \in Nat /\ t \in Peers(t)
  BY <1>0, PeersShape
<1>7. Cardinality(E) = Cardinality(Peers(t))
  <2> HIDE DEF f, E
  <2> QED
    BY <1>3, <1>4, <1>5, <1>6, SameCount
<1>8. Cardinality(Peers(t)) # 0
  BY <1>6, FS_EmptySet
<1> QED
  BY <1>1, <1>6, <1>7, <1>8

(* A message counts for as many signals to each of its targets as it       *)
(* carries.                                                                *)
LEMMA CountIsCarried ==
  ASSUME NEW m \in Rpcs, NEW t \in Task, t.rank = m[2]
  PROVE  /\ IsFiniteSet(CarriedTo(m, t))
         /\ Cardinality(CarriedTo(m, t)) =
              IF t \in TargetsOn(m[1], m[2]) THEN Count(m) ELSE 0
<1>0. IsFiniteSet(CarriedTo(m, t))
  BY IntoCounts, FS_Subset DEF CarriedTo
<1>1. CASE t \notin TargetsOn(m[1], m[2])
  <2>1. CarriedTo(m, t) = {}
    <3> SUFFICES ASSUME NEW e \in CarriedTo(m, t) PROVE FALSE
      OBVIOUS
    <3>1. e \in Edges /\ e.to = t /\ Carries(m, e)
      BY DEF CarriedTo, RemoteInto
    <3>2. CASE Diag(m[1])
      BY <1>1, <3>1, <3>2 DEF Carries, TargetsOn
    <3>3. CASE ~Diag(m[1])
      <4>1. e.from \in Peers(m[1])
        BY <3>1, <3>3 DEF Carries
      <4>2. ~Diag(e.from) /\ Final(e.from) = Final(m[1])
        BY <3>3, <4>1, PeersShape, RpcShape
      <4>3. t = Final(m[1])
        BY <3>1, <4>2, EdgeShape, ContributionShape
      <4> QED
        BY <1>1, <3>3, <4>3, RpcShape
    <3> QED
      BY <3>2, <3>3
  <2> QED
    BY <1>0, <1>1, <2>1, FS_EmptySet
<1>2. CASE t \in TargetsOn(m[1], m[2]) /\ Diag(m[1])
  <2>1. PICK e \in Edges : e.from = m[1] /\ e.to = t
    BY <1>2 DEF TargetsOn
  <2>2. CarriedTo(m, t) = {e}
    <3>1. e \in CarriedTo(m, t)
      BY <1>2, <2>1, RpcShape DEF CarriedTo, RemoteInto, Carries
    <3>2. \A f \in CarriedTo(m, t) : f = e
      BY <1>2, <2>1, EdgeEnds DEF CarriedTo, RemoteInto, Carries
    <3> QED
      BY <3>1, <3>2
  <2> QED
    BY <1>0, <1>2, <2>2, FS_Singleton DEF Count
<1>3. CASE t \in TargetsOn(m[1], m[2]) /\ ~Diag(m[1])
  <2> DEFINE P == Peers(m[1])
             C == CarriedTo(m, t)
             f == [u \in P |-> Contribution(u)]
  <2>1. t = Final(m[1]) /\ Contributes(m[1]) /\ m[1] \in Task
        /\ m[2] = Final(m[1]).rank /\ m[1].rank # m[2]
    BY <1>3, RpcShape
  <2>2. \A u \in P : /\ u \in Task /\ ~Diag(u) /\ Final(u) = t
                     /\ u.rank = m[1].rank
    BY <1>3, <2>1, PeersShape
  <2>3. f \in [P -> C]
    <3> SUFFICES ASSUME NEW u \in P PROVE Contribution(u) \in C
      OBVIOUS
    <3>1. /\ Contribution(u) \in Edges /\ Contribution(u).from = u
          /\ Contribution(u).to = t
      BY <2>2, ContributionShape
    <3> QED
      BY <1>3, <2>1, <2>2, <3>1 DEF CarriedTo, RemoteInto, Carries
  <2>4. \A u, v \in P : f[u] = f[v] => u = v
    BY <2>2, ContributionShape
  <2>5. \A e \in C : \E u \in P : f[u] = e
    <3> SUFFICES ASSUME NEW e \in C PROVE e.from \in P /\ Contribution(e.from) = e
      OBVIOUS
    <3>1. e \in Edges /\ e.from \in P
      BY <1>3 DEF CarriedTo, RemoteInto, Carries
    <3> QED
      BY <2>2, <3>1, EdgeShape
  <2>6. IsFiniteSet(P)
    BY <1>3, <2>1, PeersShape
  <2>7. Cardinality(C) = Cardinality(P)
    <3> HIDE DEF f, C, P
    <3> QED
      BY <2>3, <2>4, <2>5, <2>6, SameCount
  <2>8. Count(m) = Cardinality(P)
    BY <1>3, <2>1, DepCntIsPeers DEF Count
  <2> QED
    BY <1>0, <1>3, <2>7, <2>8
<1> QED
  BY <1>1, <1>2, <1>3

-----------------------------------------------------------------------------
(* Lpcs.  What an inbox holds for a task is the sum of the counts of its   *)
(* lpcs, which is the weight of the inbox.                                 *)

MaxCount == Cardinality(Task) + 1

LpcOf(r) ==
  {DepLpc(x[1], x[2]) : x \in OnRank(r, Task) \X (1..MaxCount)}
    \cup {AvailLpc(x[1], x[2]) : x \in OnRank(r, Task) \X (1..MaxCount)}

CountFor(kind, t) ==
  [l \in LpcOf(t.rank) |-> IF l.kind = kind /\ l.task = t THEN l.count ELSE 0]

Posted(kind, t, s) == Weight(CountFor(kind, t), MaxCount, s)

LEMMA MaxCountType == MaxCount \in Nat /\ 1 \in 1..MaxCount
<1>1. Cardinality(Task) \in Nat
  BY TasksFinite, FS_CardinalityType
<1> QED
  BY <1>1 DEF MaxCount

LEMMA CountBound ==
  ASSUME NEW m \in Rpcs
  PROVE  Count(m) \in 1..MaxCount
<1>1. CASE Diag(m[1])
  BY <1>1, MaxCountType DEF Count
<1>2. CASE ~Diag(m[1])
  <2>1. Contributes(m[1]) /\ m[1] \in Task
    BY <1>2, RpcShape
  <2>2. DepCnt(m[1]) = Cardinality(Peers(m[1])) /\ DepCnt(m[1]) \in Nat \ {0}
    BY <2>1, DepCntIsPeers
  <2>3. Peers(m[1]) \in SUBSET Task
    BY DEF Peers
  <2>4. Cardinality(Peers(m[1])) <= Cardinality(Task) /\ Cardinality(Task) \in Nat
    BY <2>3, TasksFinite, FS_Subset, FS_CardinalityType
  <2> QED
    BY <1>2, <2>2, <2>4 DEF Count, MaxCount
<1> QED
  BY <1>1, <1>2

LEMMA LpcShape ==
  ASSUME NEW r
  PROVE  /\ \A t \in OnRank(r, Task), n \in 1..MaxCount :
              DepLpc(t, n) \in LpcOf(r) /\ AvailLpc(t, n) \in LpcOf(r)
         /\ \A l \in LpcOf(r) :
              /\ l.kind \in {"dep", "avail"} /\ l.task \in OnRank(r, Task)
              /\ l.count \in 1..MaxCount
              /\ l.kind = "dep" => l = DepLpc(l.task, l.count)
              /\ l.kind = "avail" => l = AvailLpc(l.task, l.count)
<1>1. ASSUME NEW t \in OnRank(r, Task), NEW n \in 1..MaxCount
      PROVE  DepLpc(t, n) \in LpcOf(r) /\ AvailLpc(t, n) \in LpcOf(r)
  <2>1. <<t, n>> \in OnRank(r, Task) \X (1..MaxCount)
    OBVIOUS
  <2> QED
    BY <2>1 DEF LpcOf
<1>2. ASSUME NEW l \in LpcOf(r)
      PROVE  /\ l.kind \in {"dep", "avail"} /\ l.task \in OnRank(r, Task)
             /\ l.count \in 1..MaxCount
             /\ l.kind = "dep" => l = DepLpc(l.task, l.count)
             /\ l.kind = "avail" => l = AvailLpc(l.task, l.count)
  <2>1. PICK x \in OnRank(r, Task) \X (1..MaxCount) :
               l = DepLpc(x[1], x[2]) \/ l = AvailLpc(x[1], x[2])
    BY DEF LpcOf
  <2>2. x[1] \in OnRank(r, Task) /\ x[2] \in 1..MaxCount
    OBVIOUS
  <2> HIDE <2>1
  <2> QED
    BY <2>1, <2>2 DEF DepLpc, AvailLpc
<1> QED
  BY <1>1, <1>2

LEMMA CountForType ==
  ASSUME NEW t \in Task, NEW kind
  PROVE  CountFor(kind, t) \in [LpcOf(t.rank) -> 0..MaxCount]
BY LpcShape, MaxCountType DEF CountFor

LEMMA PostedSum ==
  ASSUME NEW t \in Task, NEW kind, NEW s \in Seq(LpcOf(t.rank)),
         NEW u \in Seq(LpcOf(t.rank))
  PROVE  /\ Posted(kind, t, s) \in Nat /\ Posted(kind, t, u) \in Nat
         /\ Posted(kind, t, s \o u) = Posted(kind, t, s) + Posted(kind, t, u)
<1>1. MaxCount \in Nat
  BY MaxCountType
<1>2. CountFor(kind, t) \in [LpcOf(t.rank) -> 0..MaxCount]
  BY CountForType
<1>3. PICK w, L, b : w = CountFor(kind, t) /\ L = LpcOf(t.rank) /\ b = MaxCount
  OBVIOUS
<1>4. /\ b \in Nat /\ w \in [L -> 0..b] /\ s \in Seq(L) /\ u \in Seq(L)
      /\ Posted(kind, t, s) = Weight(w, b, s) /\ Posted(kind, t, u) = Weight(w, b, u)
      /\ Posted(kind, t, s \o u) = Weight(w, b, s \o u)
  BY <1>1, <1>2, <1>3 DEF Posted
<1>5. Weight(w, b, s) \in Nat /\ Weight(w, b, u) \in Nat
  BY <1>4, WeightType
<1>6. Weight(w, b, s \o u) = Weight(w, b, s) + Weight(w, b, u)
  BY <1>4, WeightConcat
<1> QED
  BY <1>4, <1>5, <1>6

LEMMA PostedEmpty ==
  ASSUME NEW t \in Task, NEW kind
  PROVE  Posted(kind, t, <<>>) = 0
<1>1. Units(CountFor(kind, t), MaxCount, <<>>) = {}
  BY DEF Units
<1> QED
  BY <1>1, FS_EmptySet DEF Posted, Weight

LEMMA PostedTail ==
  ASSUME NEW t \in Task, NEW kind, NEW s \in Seq(LpcOf(t.rank)), s # <<>>
  PROVE  /\ Tail(s) \in Seq(LpcOf(t.rank)) /\ Head(s) \in LpcOf(t.rank)
         /\ Posted(kind, t, s) =
              (IF Head(s).kind = kind /\ Head(s).task = t THEN Head(s).count ELSE 0)
                + Posted(kind, t, Tail(s))
<1>1. MaxCount \in Nat
  BY MaxCountType
<1>2. CountFor(kind, t) \in [LpcOf(t.rank) -> 0..MaxCount]
  BY CountForType
<1>3. /\ Tail(s) \in Seq(LpcOf(t.rank)) /\ Head(s) \in LpcOf(t.rank)
      /\ Posted(kind, t, s) = CountFor(kind, t)[Head(s)] + Posted(kind, t, Tail(s))
  BY <1>1, <1>2, WeightTail DEF Posted
<1> QED
  BY <1>3 DEF CountFor

(* The lpcs of one message or of one task: one for each target, all of the *)
(* same kind and count.                                                    *)
LpcList(kind, E, n) ==
  LET s == SetToSeq(E)
  IN [i \in DOMAIN s |-> IF kind = "dep" THEN DepLpc(s[i], n) ELSE AvailLpc(s[i], n)]

LEMMA PostedList ==
  ASSUME NEW t \in Task, NEW E, IsFiniteSet(E), E \subseteq OnRank(t.rank, Task),
         NEW n \in 1..MaxCount, NEW kind \in {"dep", "avail"},
         NEW other \in {"dep", "avail"}
  PROVE  /\ LpcList(kind, E, n) \in Seq(LpcOf(t.rank))
         /\ Posted(other, t, LpcList(kind, E, n)) =
              IF other = kind /\ t \in E THEN n ELSE 0
<1> DEFINE c == Cardinality(E)
           s == SetToSeq(E)
           u == LpcList(kind, E, n)
           w == CountFor(other, t)
<1>1. /\ c \in Nat /\ s \in [1..c -> E] /\ DOMAIN s = 1..c
      /\ \A i, j \in 1..c : s[i] = s[j] => i = j
      /\ \A e \in E : \E i \in 1..c : s[i] = e
  BY Listing
<1> HIDE DEF s, c
<1>2. u = [i \in 1..c |-> IF kind = "dep" THEN DepLpc(s[i], n) ELSE AvailLpc(s[i], n)]
  BY <1>1 DEF LpcList, s
<1> HIDE DEF u
<1>3. \A i \in 1..c : u[i] \in LpcOf(t.rank)
  BY <1>1, <1>2, LpcShape
<1>4. u \in Seq(LpcOf(t.rank)) /\ Len(u) = c
  <2>1. u \in [1..c -> LpcOf(t.rank)]
    BY <1>2, <1>3
  <2> QED
    BY <1>1, <2>1, SeqDef, LenProperties
<1>5. \A i \in 1..c : w[u[i]] = IF other = kind /\ s[i] = t THEN n ELSE 0
  <2> SUFFICES ASSUME NEW i \in 1..c
               PROVE  w[u[i]] = IF other = kind /\ s[i] = t THEN n ELSE 0
    OBVIOUS
  <2>1. u[i].kind = kind /\ u[i].task = s[i] /\ u[i].count = n
    BY <1>2 DEF DepLpc, AvailLpc
  <2>2. u[i] \in LpcOf(t.rank)
    BY <1>3
  <2> QED
    BY <2>1, <2>2 DEF CountFor
<1>6. w \in [LpcOf(t.rank) -> 0..MaxCount] /\ MaxCount \in Nat
  BY CountForType, MaxCountType
<1> HIDE DEF w
<1>7. CASE other = kind /\ t \in E
  <2>1. PICK j \in 1..c : s[j] = t
    BY <1>1, <1>7
  <2>2. Alone(w, u, j) /\ j \in 1..Len(u)
    BY <1>1, <1>4, <1>5, <2>1 DEF Alone
  <2>3. Weight(w, MaxCount, u) = w[u[j]]
    BY <1>4, <1>6, <2>2, WeightSingle
  <2> QED
    BY <1>4, <1>5, <1>7, <2>1, <2>3 DEF Posted, w, u
<1>8. CASE ~(other = kind /\ t \in E)
  <2>1. \A i \in 1..Len(u) : w[u[i]] = 0
    BY <1>1, <1>4, <1>5, <1>8
  <2>2. Weight(w, MaxCount, u) = 0
    <3>1. ASSUME NEW v \in Seq(LpcOf(t.rank)), \A i \in 1..Len(v) : w[v[i]] = 0
          PROVE  Weight(w, MaxCount, v) = 0
      BY <1>6, <3>1, WeightZero
    <3> QED
      BY <1>4, <2>1, <3>1
  <2> QED
    BY <1>4, <1>8, <2>2 DEF Posted, w, u
<1> QED
  BY <1>7, <1>8

(* The callbacks of a message: one signal for each task attached.          *)
Callbacks(q) == [i \in DOMAIN q |-> DepLpc(q[i], 1)]

LEMMA PostedCallbacks ==
  ASSUME NEW t \in Task, NEW q \in Seq(OnRank(t.rank, Task))
  PROVE  /\ Callbacks(q) \in Seq(LpcOf(t.rank))
         /\ Posted("dep", t, Callbacks(q)) = Times(t, q)
         /\ Posted("avail", t, Callbacks(q)) = 0
<1> DEFINE u == Callbacks(q)
           w == CountFor("dep", t)
           a == CountFor("avail", t)
           P == Places(t, q)
           U == Units(w, MaxCount, u)
           f == [i \in P |-> <<i, 1>>]
<1>1. /\ Len(q) \in Nat /\ DOMAIN q = 1..Len(q)
      /\ \A i \in 1..Len(q) : q[i] \in OnRank(t.rank, Task)
  BY LenProperties, ElementOfSeq
<1>2. 1 \in 1..MaxCount /\ MaxCount \in Nat
  BY MaxCountType
<1>3. \A i \in 1..Len(q) : u[i] = DepLpc(q[i], 1) /\ u[i] \in LpcOf(t.rank)
  BY <1>1, <1>2, LpcShape DEF Callbacks
<1>4. u \in Seq(LpcOf(t.rank)) /\ Len(u) = Len(q)
  <2>1. u \in [1..Len(q) -> LpcOf(t.rank)]
    BY <1>1, <1>3 DEF Callbacks
  <2> QED
    BY <1>1, <2>1, SeqDef, LenProperties
<1> HIDE DEF u
<1>5. \A i \in 1..Len(q) : w[u[i]] = (IF q[i] = t THEN 1 ELSE 0) /\ a[u[i]] = 0
  <2> SUFFICES ASSUME NEW i \in 1..Len(q)
               PROVE  w[u[i]] = (IF q[i] = t THEN 1 ELSE 0) /\ a[u[i]] = 0
    OBVIOUS
  <2>0. u[i] = DepLpc(q[i], 1)
    BY <1>3
  <2> HIDE <1>3
  <2>1. u[i].kind = "dep" /\ u[i].task = q[i] /\ u[i].count = 1
    BY <2>0 DEF DepLpc
  <2>2. u[i] \in LpcOf(t.rank)
    BY <1>3
  <2> QED
    BY <2>1, <2>2 DEF CountFor
<1>6. w \in [LpcOf(t.rank) -> 0..MaxCount] /\ a \in [LpcOf(t.rank) -> 0..MaxCount]
  BY CountForType
<1> HIDE DEF w, a
<1>7. Weight(a, MaxCount, u) = 0
  <2>1. ASSUME NEW v \in Seq(LpcOf(t.rank)), \A i \in 1..Len(v) : a[v[i]] = 0
        PROVE  Weight(a, MaxCount, v) = 0
    BY <1>2, <1>6, <2>1, WeightZero
  <2> QED
    BY <1>4, <1>5, <2>1
<1>8. \A i \in 1..Len(q) : \A n \in 1..MaxCount :
        n <= w[u[i]] <=> (n = 1 /\ q[i] = t)
  BY <1>2, <1>5
<1>9. f \in [P -> U]
  BY <1>1, <1>2, <1>4, <1>8 DEF Places, Units
<1>10. \A x \in U : \E i \in P : f[i] = x
  <2> SUFFICES ASSUME NEW x \in U PROVE \E i \in P : f[i] = x
    OBVIOUS
  <2>1. /\ x = <<x[1], x[2]>> /\ x[1] \in 1..Len(q) /\ x[2] \in 1..MaxCount
        /\ x[2] <= w[u[x[1]]]
    BY <1>4 DEF Units
  <2>2. x[2] = 1 /\ q[x[1]] = t
    BY <1>8, <2>1
  <2>3. x[1] \in P /\ f[x[1]] = x
    BY <2>1, <2>2 DEF Places
  <2> QED
    BY <2>3
<1>11. \A i, j \in P : f[i] = f[j] => i = j
  OBVIOUS
<1>12. IsFiniteSet(P)
  BY TimesType
<1>13. Cardinality(U) = Cardinality(P)
  <2> HIDE DEF f, U, P
  <2> QED
    BY <1>9, <1>10, <1>11, <1>12, SameCount
<1> QED
  BY <1>4, <1>7, <1>13 DEF Posted, Weight, Times, w, a, u

(* A task that attaches to what has landed is signalled at once.           *)
LEMMA PostedRepeat ==
  ASSUME NEW t \in Task, NEW n \in Nat, NEW v \in Task, v.rank = t.rank
  PROVE  /\ Repeat(n, DepLpc(t, 1)) \in Seq(LpcOf(t.rank))
         /\ Posted("dep", v, Repeat(n, DepLpc(t, 1))) = IF v = t THEN n ELSE 0
         /\ Posted("avail", v, Repeat(n, DepLpc(t, 1))) = 0
<1> DEFINE l == DepLpc(t, 1)
           u == Repeat(n, l)
<1>1. 1 \in 1..MaxCount /\ MaxCount \in Nat
  BY MaxCountType
<1>2. l \in LpcOf(t.rank)
  BY <1>1, LpcShape DEF OnRank
<1>3. l.kind = "dep" /\ l.task = t /\ l.count = 1
  BY DEF DepLpc
<1> HIDE DEF l
<1>4. u \in Seq(LpcOf(t.rank)) /\ Len(u) = n /\ \A i \in 1..n : u[i] = l
  BY <1>2, SeqDef, LenProperties DEF Repeat
<1> HIDE DEF u
<1>5. ASSUME NEW kind \in {"dep", "avail"}, ~(kind = "dep" /\ v = t)
      PROVE  Posted(kind, v, u) = 0
  <2>1. CountFor(kind, v) \in [LpcOf(t.rank) -> 0..MaxCount]
    BY CountForType
  <2>2. \A i \in 1..Len(u) : CountFor(kind, v)[u[i]] = 0
    BY <1>2, <1>3, <1>4, <1>5 DEF CountFor
  <2> QED
    BY <1>1, <1>4, <2>1, <2>2, WeightZero DEF Posted
<1>6. ASSUME v = t
      PROVE  Posted("dep", v, u) = n
  <2>1. CountFor("dep", t) \in [LpcOf(t.rank) -> 0..MaxCount]
    BY CountForType
  <2>2. CountFor("dep", t)[l] = 1
    BY <1>2, <1>3 DEF CountFor
  <2>3. Weight(CountFor("dep", t), MaxCount, Repeat(n, l)) = n
    BY <1>1, <1>2, <2>1, <2>2, WeightRepeat
  <2> QED
    BY <1>6, <2>3 DEF Posted, u
<1> QED
  BY <1>4, <1>5, <1>6 DEF u, l

-----------------------------------------------------------------------------
(* The inductive invariant.                                                *)

Steps == {"before", "loop", "progress", "comm", "quiesce", "barrier", "end"}

SlotOK(s) == /\ s = [there |-> s.there, counter |-> s.counter, value |-> s.value]
             /\ s.there \in BOOLEAN /\ s.counter \in Int

TypeOK ==
  /\ pc \in [Rank -> Steps] /\ taskCnt \in [Rank -> Int]
  /\ ready \subseteq Task /\ avail \subseteq Task /\ executed \subseteq Task
  /\ inCnt \in [Task -> Int] /\ availCnt \in [Task -> Int]
  /\ net \subseteq Rpcs
  /\ data \in [Rpcs -> {"absent", "fetching", "landed"}]
  /\ DOMAIN thens = Rpcs /\ thens = [m \in Rpcs |-> thens[m]]
  /\ \A m \in Rpcs : thens[m] \in Seq(OnRank(m[2], Task))
  /\ DOMAIN inbox = Rank /\ inbox = [r \in Rank |-> inbox[r]]
  /\ \A r \in Rank : inbox[r] \in Seq(LpcOf(r))
  /\ slots = [r \in Rank |-> [J \in Sup |-> slots[r][J]]]
  /\ \A r \in Rank, J \in Sup : SlotOK(slots[r][J])
  /\ rightCnt \in [Rank -> [Sup -> Int]] /\ upCnt \in [Rank -> [Sup -> Int]]
  /\ toFree \in [Rank -> Int] /\ releases \subseteq Rpcs

Announced(m) == m \in net \/ data[m] # "absent"
Delivered(e) == \E m \in Rpcs : data[m] # "absent" /\ Carries(m, e)

(* The task has called attach on all its messages: it has left avail_tasks. *)
Attached(t) ==
  /\ RemoteInto(t) # {} /\ pc[t.rank] # "before"
  /\ availCnt[t] = 0 /\ t \notin avail

(* What stands between a task and its last lpc: the signals of its own     *)
(* rank whose sender has not run, those of other ranks whose rpc has not   *)
(* come, and the messages that have not called it back.                    *)
Unsignalled(t) == {e \in LocalInto(t) : e.from \notin executed}
Undelivered(t) == {e \in RemoteInto(t) : ~Delivered(e)}
Awaited(t)     == {m \in Inputs(t) : ~(Attached(t) /\ data[m] = "landed")}

(* The lpcs of the rpc handler satisfy all signals of a message but one,   *)
(* the callback satisfies the last.                                        *)
DepExact ==
  \A t \in Task :
    inCnt[t] = Cardinality(Unsignalled(t)) + Cardinality(Undelivered(t))
                 + Cardinality(Awaited(t)) + Posted("dep", t, inbox[t.rank])

AvailExact ==
  \A t \in Task :
    /\ availCnt[t] = Cardinality(Undelivered(t)) + Posted("avail", t, inbox[t.rank])
    /\ RemoteInto(t) = {} => availCnt[t] = 0
    /\ t \in avail => /\ pc[t.rank] # "before" /\ availCnt[t] = 0
                      /\ RemoteInto(t) # {}

(* A message being fetched holds one callback for each of its targets that *)
(* has attached to it, any other message none.                             *)
CallbacksExact ==
  \A m \in Rpcs :
    /\ data[m] # "fetching" => thens[m] = <<>>
    /\ data[m] = "fetching" =>
         \A t \in Task : Times(t, thens[m]) =
           IF Attached(t) /\ t \in TargetsOn(m[1], m[2]) THEN 1 ELSE 0

(* A diagonal task announces its slot to every rank that reads it; of the  *)
(* tasks that contribute to one slot the last one does, for all of them.   *)
AnnouncedOnce ==
  \A m \in Rpcs :
    /\ m \in net => data[m] = "absent"
    /\ Diag(m[1]) => (Announced(m) <=> m[1] \in executed)
    /\ ~Diag(m[1]) /\ Announced(m) =>
         /\ Peers(m[1]) \subseteq executed
         /\ \A n \in Rpcs : n[1] \in Peers(m[1]) /\ Announced(n) => n = m

SentExact ==
  \A t \in Task : Contributes(t) => SentSoFar(t) = Cardinality(Peers(t) \cap executed)

ReadyExact ==
  /\ ready \cap executed = {}
  /\ \A t \in Task : (t \in ready \cup executed)
                       <=> (inCnt[t] = 0 /\ pc[t.rank] # "before")

LoopExact ==
  \A r \in Rank :
    /\ taskCnt[r] = Cardinality(OnRank(r, Task \ executed))
    /\ pc[r] \in {"quiesce", "barrier", "end"} => taskCnt[r] = 0
    /\ pc[r] = "end" => \A q \in Rank : pc[q] \in {"barrier", "end"}
    /\ Quiesce /\ pc[r] \in {"barrier", "end"} => toFree[r] = 0

(* A contribution is lent to the owner of its supernode from the first     *)
(* task of the rank that adds to it until the handler of deallocRemote has *)
(* run for the message that announced it.                                  *)
GivenBack(t) ==
  \E m \in Rpcs : m[1] \in Peers(t) /\ data[m] = "landed" /\ m \notin releases

Lent(r) ==
  {t \in Task : /\ t.rank = r /\ Contributes(t)
                /\ Peers(t) \cap executed # {} /\ ~GivenBack(t)}

LentFor(r, J) == {t \in Lent(r) : Goal(t) = J}

(* The counter of a slot is the number of contributions, of both phases,   *)
(* that reserve it; the slot is there as long as there are any.            *)
SlotsExact ==
  /\ \A m \in releases : ~Diag(m[1]) /\ data[m] = "landed"
  /\ \A r \in Rank : toFree[r] = Cardinality(Lent(r))
  /\ \A r \in Rank, J \in Sup :
       IF Home(J, J) = r
       THEN FUC(J, J) \in executed => slots[r][J].there
       ELSE /\ slots[r][J].counter = Cardinality(LentFor(r, J))
            /\ slots[r][J].there <=> LentFor(r, J) # {}
            /\ ~slots[r][J].there => slots[r][J] = NoSlot

IInv ==
  /\ TypeOK /\ DepExact /\ AvailExact /\ CallbacksExact /\ AnnouncedOnce
  /\ SentExact /\ ReadyExact /\ LoopExact /\ SlotsExact

-----------------------------------------------------------------------------
(* The counts are finite.                                                  *)
LEMMA CountTypes ==
  ASSUME NEW t \in Task
  PROVE  /\ IsFiniteSet(Unsignalled(t)) /\ Cardinality(Unsignalled(t)) \in Nat
         /\ IsFiniteSet(Undelivered(t)) /\ Cardinality(Undelivered(t)) \in Nat
         /\ IsFiniteSet(Awaited(t)) /\ Cardinality(Awaited(t)) \in Nat
         /\ IsFiniteSet(LandedInputs(t)) /\ Cardinality(LandedInputs(t)) \in Nat
<1>1. /\ \A E \in SUBSET Edges : IsFiniteSet(E) /\ Cardinality(E) \in Nat
      /\ \A M \in SUBSET Rpcs : IsFiniteSet(M) /\ Cardinality(M) \in Nat
  BY EdgesFinite, RpcsFinite, FS_Subset, FS_CardinalityType
<1>2. Unsignalled(t) \in SUBSET Edges /\ Undelivered(t) \in SUBSET Edges
  BY DEF Unsignalled, Undelivered, LocalInto, RemoteInto
<1>3. Awaited(t) \in SUBSET Rpcs /\ LandedInputs(t) \in SUBSET Rpcs
  BY DEF Awaited, LandedInputs, Inputs
<1> QED
  BY <1>1, <1>2, <1>3

LEMMA PostedTypes ==
  ASSUME TypeOK, NEW t \in Task
  PROVE  /\ t.rank \in Rank /\ inbox[t.rank] \in Seq(LpcOf(t.rank))
         /\ Posted("dep", t, inbox[t.rank]) \in Nat
         /\ Posted("avail", t, inbox[t.rank]) \in Nat
<1>1. t.rank \in Rank /\ inbox[t.rank] \in Seq(LpcOf(t.rank))
  BY TaskShape DEF TypeOK
<1> QED
  BY <1>1, PostedSum

LEMMA LentFinite ==
  ASSUME NEW r
  PROVE  /\ IsFiniteSet(Lent(r)) /\ Cardinality(Lent(r)) \in Nat
         /\ \A J : IsFiniteSet(LentFor(r, J)) /\ Cardinality(LentFor(r, J)) \in Nat
<1>1. Lent(r) \in SUBSET Task /\ \A J : LentFor(r, J) \in SUBSET Task
  BY DEF Lent, LentFor
<1> QED
  BY <1>1, TasksFinite, FS_Subset, FS_CardinalityType

-----------------------------------------------------------------------------
LEMMA InitInv ==
  ASSUME Init
  PROVE  IInv
<1> USE DEF Init, LoopInit
<1>1. \A t \in Task : /\ t.rank \in Rank
                      /\ LocalDeps(t) = Cardinality(LocalInto(t))
                      /\ RemoteDeps(t) = Cardinality(RemoteInto(t))
                      /\ IsFiniteSet(RemoteInto(t)) /\ IsFiniteSet(LocalInto(t))
                      /\ Cardinality(RemoteInto(t)) \in Nat
                      /\ Cardinality(LocalInto(t)) \in Nat
  BY IntoCounts, TaskShape, FS_CardinalityType
<1>2. \A t \in Task : Posted("dep", t, <<>>) = 0 /\ Posted("avail", t, <<>>) = 0
  BY PostedEmpty
<1>3. \A S0 : <<>> \in Seq(S0)
  BY EmptySeq
<1>4. \A r \in Rank : Cardinality(OnRank(r, Task)) \in Nat
  BY TasksFinite, FS_Subset, FS_CardinalityType DEF OnRank
<1>5. TypeOK
  <2>1. /\ pc \in [Rank -> Steps] /\ taskCnt \in [Rank -> Int]
        /\ data \in [Rpcs -> {"absent", "fetching", "landed"}]
        /\ DOMAIN thens = Rpcs /\ thens = [m \in Rpcs |-> thens[m]]
        /\ \A m \in Rpcs : thens[m] \in Seq(OnRank(m[2], Task))
        /\ DOMAIN inbox = Rank /\ inbox = [r \in Rank |-> inbox[r]]
        /\ \A r \in Rank : inbox[r] \in Seq(LpcOf(r))
    BY <1>3, <1>4 DEF Steps
  <2>2. inCnt \in [Task -> Int] /\ availCnt \in [Task -> Int]
    BY <1>1
  <2>3. /\ slots = [r \in Rank |-> [J \in Sup |-> slots[r][J]]]
        /\ \A r \in Rank, J \in Sup : SlotOK(slots[r][J])
    <3>1. /\ slots = [r \in Rank |-> [J \in Sup |-> slots[r][J]]]
          /\ \A r \in Rank, J \in Sup : slots[r][J] = NoSlot
      OBVIOUS
    <3>2. SlotOK(NoSlot)
      BY DEF SlotOK, NoSlot
    <3> QED
      BY <3>1, <3>2
  <2>4. /\ rightCnt \in [Rank -> [Sup -> Int]] /\ upCnt \in [Rank -> [Sup -> Int]]
        /\ toFree \in [Rank -> Int]
    OBVIOUS
  <2>5. /\ ready \subseteq Task /\ avail \subseteq Task /\ executed \subseteq Task
        /\ net \subseteq Rpcs /\ releases \subseteq Rpcs
    OBVIOUS
  <2> QED
    BY <2>1, <2>2, <2>3, <2>4, <2>5 DEF TypeOK
<1>6. Cardinality({}) = 0
  BY FS_EmptySet
<1>7. \A t \in Task : /\ Unsignalled(t) = LocalInto(t) /\ Awaited(t) = {}
                      /\ Undelivered(t) = RemoteInto(t)
  BY DEF Unsignalled, Awaited, Inputs, Undelivered, Delivered
<1>8. \A t \in Task : /\ inbox[t.rank] = <<>> /\ t \notin avail
                      /\ availCnt[t] = Cardinality(RemoteInto(t))
                      /\ inCnt[t] = Cardinality(LocalInto(t)) + Cardinality(RemoteInto(t))
  BY <1>1
<1>9. DepExact
  <2> SUFFICES ASSUME NEW t \in Task
               PROVE  inCnt[t] = Cardinality(Unsignalled(t)) + Cardinality(Undelivered(t))
                        + Cardinality(Awaited(t)) + Posted("dep", t, inbox[t.rank])
    BY DEF DepExact
  <2>1. /\ Cardinality(Awaited(t)) = 0 /\ Posted("dep", t, inbox[t.rank]) = 0
        /\ Cardinality(Unsignalled(t)) = Cardinality(LocalInto(t))
        /\ Cardinality(Undelivered(t)) = Cardinality(RemoteInto(t))
    BY <1>2, <1>6, <1>7, <1>8
  <2> QED
    BY <1>1, <1>8, <2>1
<1>10. AvailExact
  <2>1. \A t \in Task : RemoteInto(t) = {} => availCnt[t] = 0
    BY <1>6, <1>8
  <2>2. \A t \in Task : availCnt[t] = Cardinality(Undelivered(t))
                           + Posted("avail", t, inbox[t.rank])
    BY <1>1, <1>2, <1>7, <1>8
  <2> QED
    BY <1>8, <2>1, <2>2 DEF AvailExact
<1>11. CallbacksExact /\ AnnouncedOnce
  BY DEF CallbacksExact, AnnouncedOnce, Announced
<1>12. SentExact
  <2> SUFFICES ASSUME NEW t \in Task, Contributes(t)
               PROVE  SentSoFar(t) = Cardinality(Peers(t) \cap executed)
    BY DEF SentExact
  <2>1. t.rank \in Rank /\ t.row \in Sup /\ t.col \in Sup
    BY TaskShape
  <2>2. SentSoFar(t) = 0
    BY <2>1 DEF SentSoFar
  <2>3. Peers(t) \cap executed = {}
    OBVIOUS
  <2> QED
    BY <1>6, <2>2, <2>3
<1>13. ReadyExact
  BY <1>1 DEF ReadyExact
<1>14. LoopExact
  <2>1. Task \ {} = Task
    OBVIOUS
  <2> QED
    BY <2>1 DEF LoopExact
<1>15. SlotsExact
  <2>1. \A r : Lent(r) = {}
    BY DEF Lent
  <2>2. \A r, J : LentFor(r, J) = {}
    BY <2>1 DEF LentFor
  <2> QED
    BY <1>6, <2>1, <2>2 DEF SlotsExact, NoSlot
<1> QED
  BY <1>5, <1>9, <1>10, <1>11, <1>12, <1>13, <1>14, <1>15 DEF IInv

-----------------------------------------------------------------------------
(* A step that only moves ranks along their loops.                         *)
LEMMA QuietStep ==
  ASSUME IInv,
         UNCHANGED <<taskCnt, taskVars, commVars, inbox, solveVars>>,
         pc' \in [Rank -> Steps],
         \A q \in Rank : pc'[q] = "before" <=> pc[q] = "before",
         \A q \in Rank : pc'[q] \in {"quiesce", "barrier", "end"} => taskCnt[q] = 0,
         \A q \in Rank : pc'[q] = "end" =>
           \A p \in Rank : pc'[p] \in {"barrier", "end"},
         \A q \in Rank : Quiesce /\ pc'[q] \in {"barrier", "end"} => toFree[q] = 0
  PROVE  IInv'
<1>0. /\ UNCHANGED <<taskCnt, ready, avail, inCnt, availCnt, net, data, thens, inbox>>
      /\ UNCHANGED <<slots, rightCnt, upCnt, toFree, releases, executed>>
  BY DEF taskVars, commVars, solveVars, slotVars
<1>1. \A t \in Task : t.rank \in Rank
  BY TaskShape
<1>2. TypeOK'
  BY <1>0 DEF IInv, TypeOK
<1>3. \A t \in Task : Attached(t)' = Attached(t)
  BY <1>0, <1>1 DEF Attached
<1>4. \A t \in Task : /\ Unsignalled(t)' = Unsignalled(t)
                      /\ Awaited(t)' = Awaited(t)
                      /\ Undelivered(t)' = Undelivered(t)
  BY <1>0, <1>3 DEF Unsignalled, Awaited, Inputs, Undelivered, Delivered
<1>5. DepExact'
  BY <1>0, <1>4 DEF IInv, DepExact
<1>6. AvailExact'
  BY <1>0, <1>1, <1>4 DEF IInv, AvailExact
<1>7. CallbacksExact'
  BY <1>0, <1>3 DEF IInv, CallbacksExact
<1>8. AnnouncedOnce'
  BY <1>0 DEF IInv, AnnouncedOnce, Announced
<1>9. SentExact'
  BY <1>0 DEF IInv, SentExact, SentSoFar
<1>10. ReadyExact'
  BY <1>0, <1>1 DEF IInv, ReadyExact
<1>11. LoopExact'
  BY <1>0 DEF IInv, LoopExact
<1>12. SlotsExact'
  BY <1>0 DEF IInv, SlotsExact, Lent, LentFor, GivenBack
<1> QED
  BY <1>2, <1>5, <1>6, <1>7, <1>8, <1>9, <1>10, <1>11, <1>12 DEF IInv

LEMMA LoopStep ==
  ASSUME IInv, NEW r \in Rank, UNCHANGED solveVars,
         \/ Idle(r) \/ LeaveProgress(r) \/ NothingToFetch(r) \/ PassBarrier(r)
         \/ LeaveLoop(r, IF Quiesce THEN "quiesce" ELSE "barrier") \/ Quiet(r)
  PROVE  IInv'
<1> USE DEF IInv, TypeOK, LoopExact, Steps, commVars, taskVars
<1>1. CASE Idle(r)
  BY <1>1, QuietStep DEF Idle
<1>2. CASE LeaveProgress(r)
  BY <1>2, QuietStep DEF LeaveProgress
<1>3. CASE NothingToFetch(r)
  BY <1>3, QuietStep DEF NothingToFetch
<1>4. CASE LeaveLoop(r, IF Quiesce THEN "quiesce" ELSE "barrier")
  <2>1. CASE Quiesce
    BY <1>4, <2>1, QuietStep DEF LeaveLoop
  <2>2. CASE ~Quiesce
    BY <1>4, <2>2, QuietStep DEF LeaveLoop
  <2> QED
    BY <2>1, <2>2
<1>5. CASE PassBarrier(r)
  BY <1>5, QuietStep DEF PassBarrier
<1>6. CASE Quiet(r)
  BY <1>6, QuietStep DEF Quiet
<1> QED
  BY <1>1, <1>2, <1>3, <1>4, <1>5, <1>6

LEMMA StartStep ==
  ASSUME IInv, NEW r \in Rank, UNCHANGED solveVars,
         Start(r, {t \in Task : RemoteDeps(t) > 0})
  PROVE  IInv'
<1>1. /\ pc[r] = "before" /\ pc' = [pc EXCEPT ![r] = "loop"]
      /\ UNCHANGED <<taskCnt, inCnt, availCnt, net, data, thens, inbox>>
      /\ UNCHANGED <<slots, rightCnt, upCnt, toFree, releases, executed>>
  BY DEF Start, commVars, solveVars, slotVars
<1>2. ready' = ready \cup {t \in Task : t.rank = r /\ inCnt[t] = 0}
  BY DEF Start, OnRank, IInv, TypeOK
<1>3. avail' = avail \cup {t \in Task : /\ t.rank = r /\ RemoteInto(t) # {}
                                        /\ availCnt[t] = 0}
  <2>1. \A t \in Task : RemoteDeps(t) > 0 <=> RemoteInto(t) # {}
    <3> SUFFICES ASSUME NEW t \in Task
                 PROVE  RemoteDeps(t) > 0 <=> RemoteInto(t) # {}
      OBVIOUS
    <3>1. /\ IsFiniteSet(RemoteInto(t))
          /\ RemoteDeps(t) = Cardinality(RemoteInto(t))
      BY IntoCounts
    <3>2. Cardinality(RemoteInto(t)) \in Nat
          /\ (Cardinality(RemoteInto(t)) = 0 <=> RemoteInto(t) = {})
      BY <3>1, FS_CardinalityType, FS_EmptySet
    <3> QED
      BY <3>1, <3>2
  <2> QED
    BY <2>1 DEF Start, OnRank
<1>4. \A t \in Task : t.rank \in Rank
  BY TaskShape
<1>5. pc \in [Rank -> Steps]
  BY DEF IInv, TypeOK
<1>6. TypeOK'
  BY <1>1, <1>2, <1>3 DEF IInv, TypeOK, Steps
<1>7. \A t \in Task : Attached(t)' = Attached(t)
  BY <1>1, <1>3, <1>4, <1>5 DEF Attached
<1>8. \A t \in Task : /\ Unsignalled(t)' = Unsignalled(t)
                      /\ Awaited(t)' = Awaited(t)
                      /\ Undelivered(t)' = Undelivered(t)
  BY <1>1, <1>7 DEF Unsignalled, Awaited, Inputs, Undelivered, Delivered
<1>9. DepExact'
  BY <1>1, <1>8 DEF IInv, DepExact
<1>10. AvailExact'
  BY <1>1, <1>3, <1>4, <1>5, <1>8 DEF IInv, AvailExact
<1>11. CallbacksExact'
  BY <1>1, <1>7 DEF IInv, CallbacksExact
<1>12. AnnouncedOnce'
  BY <1>1 DEF IInv, AnnouncedOnce, Announced
<1>13. SentExact' /\ SlotsExact'
  BY <1>1 DEF IInv, SentExact, SentSoFar, SlotsExact, Lent, LentFor, GivenBack
<1>14. ReadyExact'
  BY <1>1, <1>2, <1>4, <1>5 DEF IInv, ReadyExact
<1>15. LoopExact'
  BY <1>1, <1>5 DEF IInv, LoopExact
<1> QED
  BY <1>6, <1>9, <1>10, <1>11, <1>12, <1>13, <1>14, <1>15 DEF IInv

-----------------------------------------------------------------------------
(* Lpcs run one at a time.                                                 *)

(* The oldest lpc of a rank names a task of the rank.                      *)
LEMMA OldestLpc ==
  ASSUME IInv, NEW r \in Rank, inbox[r] # <<>>,
         inbox' = [inbox EXCEPT ![r] = Tail(@)]
  PROVE  /\ Head(inbox[r]) \in LpcOf(r)
         /\ DOMAIN inbox' = Rank /\ inbox' = [q \in Rank |-> inbox'[q]]
         /\ \A q \in Rank : inbox'[q] \in Seq(LpcOf(q))
         /\ \A v \in Task : \A kind \in {"dep", "avail"} :
              /\ Posted(kind, v, inbox'[v.rank]) \in Nat
              /\ Posted(kind, v, inbox[v.rank]) =
                   Posted(kind, v, inbox'[v.rank])
                     + (IF Head(inbox[r]).kind = kind /\ Head(inbox[r]).task = v
                        THEN Head(inbox[r]).count ELSE 0)
<1> DEFINE h == Head(inbox[r])
<1>1. /\ DOMAIN inbox = Rank /\ inbox = [q \in Rank |-> inbox[q]]
      /\ \A q \in Rank : inbox[q] \in Seq(LpcOf(q))
  BY DEF IInv, TypeOK
<1>2. Tail(inbox[r]) \in Seq(LpcOf(r)) /\ h \in LpcOf(r)
  BY <1>1, HeadTailProperties
<1>3. \A q \in Rank : inbox'[q] = IF q = r THEN Tail(inbox[r]) ELSE inbox[q]
  BY <1>1
<1>4. DOMAIN inbox' = Rank /\ inbox' = [q \in Rank |-> inbox'[q]]
  BY <1>1
<1>5. \A q \in Rank : inbox'[q] \in Seq(LpcOf(q))
  BY <1>1, <1>2, <1>3
<1>6. h.task \in OnRank(r, Task) /\ h.count \in 1..MaxCount
  BY <1>2, LpcShape
<1> HIDE DEF h
<1>7. ASSUME NEW v \in Task, NEW kind \in {"dep", "avail"}
      PROVE  /\ Posted(kind, v, inbox'[v.rank]) \in Nat
             /\ Posted(kind, v, inbox[v.rank]) =
                   Posted(kind, v, inbox'[v.rank])
                     + (IF h.kind = kind /\ h.task = v THEN h.count ELSE 0)
  <2>1. v.rank \in Rank
    BY TaskShape
  <2>2. inbox[v.rank] \in Seq(LpcOf(v.rank)) /\ inbox'[v.rank] \in Seq(LpcOf(v.rank))
    BY <1>1, <1>5, <2>1
  <2>3. /\ Posted(kind, v, inbox'[v.rank]) \in Nat
        /\ Posted(kind, v, inbox[v.rank]) \in Nat
    BY <2>2, PostedSum
  <2>4. CASE v.rank = r
    <3>1. Posted(kind, v, inbox[r]) =
            (IF h.kind = kind /\ h.task = v THEN h.count ELSE 0)
              + Posted(kind, v, Tail(inbox[r]))
      BY <2>2, <2>4, PostedTail DEF h
    <3>2. inbox'[v.rank] = Tail(inbox[r]) /\ inbox[v.rank] = inbox[r]
      BY <1>3, <2>1, <2>4
    <3>3. (IF h.kind = kind /\ h.task = v THEN h.count ELSE 0) \in Nat
      BY <1>6
    <3> QED
      BY <2>3, <3>1, <3>2, <3>3
  <2>5. CASE v.rank # r
    <3>1. h.task # v
      BY <1>6, <2>5 DEF OnRank
    <3>2. inbox'[v.rank] = inbox[v.rank]
      BY <1>3, <2>1, <2>5
    <3> QED
      BY <2>3, <3>1, <3>2
  <2> QED
    BY <2>4, <2>5
<1> QED
  BY <1>2, <1>4, <1>5, <1>7 DEF h

LEMMA HandleDepStep ==
  ASSUME IInv, NEW r \in Rank, UNCHANGED solveVars, HandleDep(r)
  PROVE  IInv'
<1> DEFINE t == Head(inbox[r]).task
           c == Head(inbox[r]).count
<1>1. /\ inbox[r] # <<>> /\ inbox' = [inbox EXCEPT ![r] = Tail(@)]
      /\ Head(inbox[r]).kind = "dep"
  BY DEF HandleDep, NextLpc, PopLpc
<1>2. t \in Task /\ t.rank = r /\ c \in Nat /\ c > 0
  <2>1. t \in OnRank(r, Task) /\ c \in 1..MaxCount
    BY <1>1, OldestLpc, LpcShape
  <2> QED
    BY <2>1, MaxCountType DEF OnRank
<1>3. /\ UNCHANGED <<pc, taskCnt, avail, availCnt, net, data, thens>>
      /\ UNCHANGED <<slots, rightCnt, upCnt, toFree, releases, executed>>
      /\ inCnt' = [inCnt EXCEPT ![t] = @ - c]
      /\ ready' = IF inCnt[t] = c /\ pc[r] # "before" THEN ready \cup {t}
                  ELSE ready
  BY DEF HandleDep, commVars, solveVars, slotVars
<1>4. /\ DOMAIN inbox' = Rank /\ inbox' = [q \in Rank |-> inbox'[q]]
      /\ \A q \in Rank : inbox'[q] \in Seq(LpcOf(q))
      /\ \A v \in Task : /\ Posted("dep", v, inbox'[v.rank]) \in Nat
                         /\ Posted("avail", v, inbox'[v.rank]) \in Nat
                         /\ Posted("dep", v, inbox[v.rank]) =
                              Posted("dep", v, inbox'[v.rank])
                                + (IF v = t THEN c ELSE 0)
                         /\ Posted("avail", v, inbox[v.rank]) =
                              Posted("avail", v, inbox'[v.rank])
  <2>0. inbox[r] # <<>> /\ inbox' = [inbox EXCEPT ![r] = Tail(@)]
    BY <1>1
  <2>1. /\ DOMAIN inbox' = Rank /\ inbox' = [q \in Rank |-> inbox'[q]]
        /\ \A q \in Rank : inbox'[q] \in Seq(LpcOf(q))
    BY <2>0, OldestLpc
  <2>2. ASSUME NEW v \in Task
        PROVE  /\ Posted("dep", v, inbox'[v.rank]) \in Nat
               /\ Posted("dep", v, inbox[v.rank]) =
                    Posted("dep", v, inbox'[v.rank]) + (IF v = t THEN c ELSE 0)
    BY <1>1, <2>0, OldestLpc
  <2>3. ASSUME NEW v \in Task
        PROVE  /\ Posted("avail", v, inbox'[v.rank]) \in Nat
               /\ Posted("avail", v, inbox[v.rank]) =
                    Posted("avail", v, inbox'[v.rank])
    <3>1. /\ Posted("avail", v, inbox'[v.rank]) \in Nat
          /\ Posted("avail", v, inbox[v.rank]) =
               Posted("avail", v, inbox'[v.rank])
                 + (IF Head(inbox[r]).kind = "avail" /\ t = v THEN c ELSE 0)
      BY <2>0, OldestLpc
    <3> QED
      BY <1>1, <3>1
  <2> HIDE DEF t, c
  <2> QED
    BY <2>1, <2>2, <2>3
<1> HIDE DEF t, c
<1>5. TypeOK'
  BY <1>2, <1>3, <1>4 DEF IInv, TypeOK
<1>6. \A v \in Task : /\ Unsignalled(v)' = Unsignalled(v)
                      /\ Awaited(v)' = Awaited(v)
                      /\ Undelivered(v)' = Undelivered(v)
                      /\ Attached(v)' = Attached(v)
  BY <1>3 DEF Unsignalled, Awaited, Inputs, Undelivered, Delivered, Attached
<1>7. inCnt \in [Task -> Int]
  BY DEF IInv, TypeOK
<1>8. \A v \in Task : /\ Cardinality(Unsignalled(v)) \in Nat
                      /\ Cardinality(Undelivered(v)) \in Nat
                      /\ Cardinality(Awaited(v)) \in Nat
                      /\ inCnt[v] = Cardinality(Unsignalled(v))
                           + Cardinality(Undelivered(v)) + Cardinality(Awaited(v))
                           + Posted("dep", v, inbox[v.rank])
  BY CountTypes DEF IInv, DepExact
<1>9. DepExact'
  <2> SUFFICES ASSUME NEW v \in Task
               PROVE  inCnt'[v] = Cardinality(Unsignalled(v))
                                    + Cardinality(Undelivered(v))
                                    + Cardinality(Awaited(v))
                                    + Posted("dep", v, inbox'[v.rank])
    BY <1>6 DEF DepExact
  <2>1. inCnt'[v] = inCnt[v] - (IF v = t THEN c ELSE 0)
    BY <1>2, <1>3, <1>7
  <2>2. Posted("dep", v, inbox[v.rank]) = Posted("dep", v, inbox'[v.rank])
                                            + (IF v = t THEN c ELSE 0)
    BY <1>4
  <2>3. Posted("dep", v, inbox'[v.rank]) \in Nat
    BY <1>4
  <2> QED
    BY <1>2, <1>8, <2>1, <2>2, <2>3
<1>10. AvailExact'
  BY <1>3, <1>4, <1>6 DEF IInv, AvailExact
<1>11. CallbacksExact'
  BY <1>3, <1>6 DEF IInv, CallbacksExact
<1>12. AnnouncedOnce' /\ LoopExact'
  BY <1>3 DEF IInv, AnnouncedOnce, Announced, LoopExact
<1>13. SentExact' /\ SlotsExact'
  <2>1. SentExact'
    BY <1>3 DEF IInv, SentExact, SentSoFar
  <2>2. /\ \A q : Lent(q)' = Lent(q)
        /\ \A q, J : LentFor(q, J)' = LentFor(q, J)
    BY <1>3 DEF Lent, LentFor, GivenBack
  <2>3. SlotsExact'
    BY <1>3, <2>2 DEF IInv, SlotsExact
  <2> QED
    BY <2>1, <2>3
<1>14. ReadyExact'
  <2>1. inCnt[t] > 0
    <3>1. /\ Posted("dep", t, inbox[t.rank]) = Posted("dep", t, inbox'[t.rank]) + c
          /\ Posted("dep", t, inbox'[t.rank]) \in Nat
      BY <1>2, <1>4
    <3>2. /\ Cardinality(Unsignalled(t)) \in Nat
          /\ Cardinality(Undelivered(t)) \in Nat
          /\ Cardinality(Awaited(t)) \in Nat
          /\ inCnt[t] = Cardinality(Unsignalled(t))
               + Cardinality(Undelivered(t)) + Cardinality(Awaited(t))
               + Posted("dep", t, inbox[t.rank])
      BY <1>2, <1>8
    <3> QED
      BY <1>2, <3>1, <3>2
  <2>2. t \notin ready \cup executed
    BY <1>2, <2>1 DEF IInv, ReadyExact
  <2>3. inCnt'[t] = inCnt[t] - c /\ \A v \in Task : v # t => inCnt'[v] = inCnt[v]
    BY <1>2, <1>3, <1>7
  <2>4. inCnt'[t] = 0 <=> inCnt[t] = c
    BY <1>2, <1>7, <2>3
  <2>5. ready \cap executed = {}
    BY DEF IInv, ReadyExact
  <2>6. ready' \cap executed' = {}
    BY <1>3, <2>2, <2>5
  <2>7. ASSUME NEW v \in Task
        PROVE  (v \in ready' \cup executed') <=> (inCnt'[v] = 0 /\ pc'[v.rank] # "before")
    <3>1. (v \in ready \cup executed) <=> (inCnt[v] = 0 /\ pc[v.rank] # "before")
      BY DEF IInv, ReadyExact
    <3>2. CASE v = t
      BY <1>2, <1>3, <2>2, <2>4, <3>2
    <3>3. CASE v # t
      BY <1>3, <2>3, <3>1, <3>3
    <3> QED
      BY <3>2, <3>3
  <2> QED
    BY <2>6, <2>7 DEF ReadyExact
<1> QED
  BY <1>5, <1>9, <1>10, <1>11, <1>12, <1>13, <1>14 DEF IInv

LEMMA HandleAvailStep ==
  ASSUME IInv, NEW r \in Rank, UNCHANGED solveVars, HandleAvail(r)
  PROVE  IInv'
<1> DEFINE t == Head(inbox[r]).task
           c == Head(inbox[r]).count
<1>1. /\ inbox[r] # <<>> /\ inbox' = [inbox EXCEPT ![r] = Tail(@)]
      /\ Head(inbox[r]).kind = "avail"
  BY DEF HandleAvail, NextLpc, PopLpc
<1>2. t \in Task /\ t.rank = r /\ c \in Nat /\ c > 0
  <2>1. t \in OnRank(r, Task) /\ c \in 1..MaxCount
    BY <1>1, OldestLpc, LpcShape
  <2> QED
    BY <2>1, MaxCountType DEF OnRank
<1>3. /\ UNCHANGED <<pc, taskCnt, ready, inCnt, net, data, thens>>
      /\ UNCHANGED <<slots, rightCnt, upCnt, toFree, releases, executed>>
      /\ availCnt' = [availCnt EXCEPT ![t] = @ - c]
      /\ avail' = IF availCnt[t] = c /\ pc[r] # "before" THEN avail \cup {t}
                  ELSE avail
  BY DEF HandleAvail, commVars, solveVars, slotVars
<1>4. /\ DOMAIN inbox' = Rank /\ inbox' = [q \in Rank |-> inbox'[q]]
      /\ \A q \in Rank : inbox'[q] \in Seq(LpcOf(q))
      /\ \A v \in Task : /\ Posted("avail", v, inbox'[v.rank]) \in Nat
                         /\ Posted("avail", v, inbox[v.rank]) =
                              Posted("avail", v, inbox'[v.rank])
                                + (IF v = t THEN c ELSE 0)
                         /\ Posted("dep", v, inbox'[v.rank]) \in Nat
                         /\ Posted("dep", v, inbox[v.rank]) =
                              Posted("dep", v, inbox'[v.rank])
  <2>0. inbox[r] # <<>> /\ inbox' = [inbox EXCEPT ![r] = Tail(@)]
    BY <1>1
  <2>1. /\ DOMAIN inbox' = Rank /\ inbox' = [q \in Rank |-> inbox'[q]]
        /\ \A q \in Rank : inbox'[q] \in Seq(LpcOf(q))
    BY <2>0, OldestLpc
  <2>2. ASSUME NEW v \in Task
        PROVE  /\ Posted("avail", v, inbox'[v.rank]) \in Nat
               /\ Posted("avail", v, inbox[v.rank]) =
                    Posted("avail", v, inbox'[v.rank]) + (IF v = t THEN c ELSE 0)
    BY <1>1, <2>0, OldestLpc
  <2>3. ASSUME NEW v \in Task
        PROVE  /\ Posted("dep", v, inbox'[v.rank]) \in Nat
               /\ Posted("dep", v, inbox[v.rank]) =
                    Posted("dep", v, inbox'[v.rank])
    <3>1. /\ Posted("dep", v, inbox'[v.rank]) \in Nat
          /\ Posted("dep", v, inbox[v.rank]) =
               Posted("dep", v, inbox'[v.rank])
                 + (IF Head(inbox[r]).kind = "dep" /\ t = v THEN c ELSE 0)
      BY <2>0, OldestLpc
    <3> QED
      BY <1>1, <3>1
  <2> HIDE DEF t, c
  <2> QED
    BY <2>1, <2>2, <2>3
<1> HIDE DEF t, c
<1>5. TypeOK'
  BY <1>2, <1>3, <1>4 DEF IInv, TypeOK
<1>6. \A v \in Task : Unsignalled(v)' = Unsignalled(v) /\ Undelivered(v)' = Undelivered(v)
  BY <1>3 DEF Unsignalled, Undelivered, Delivered
(* The lpc is in the inbox, so that the counter is not yet zero.           *)
<1>7. availCnt[t] > 0
  <2>1. availCnt[t] = Cardinality(Undelivered(t)) + Posted("avail", t, inbox[t.rank])
    BY <1>2 DEF IInv, AvailExact
  <2>2. /\ Cardinality(Undelivered(t)) \in Nat
        /\ Posted("avail", t, inbox'[t.rank]) \in Nat
        /\ Posted("avail", t, inbox[t.rank]) = Posted("avail", t, inbox'[t.rank]) + c
    BY <1>2, <1>4, CountTypes
  <2> QED
    BY <1>2, <2>1, <2>2
<1>8. availCnt \in [Task -> Int]
  BY DEF IInv, TypeOK
<1>9. /\ availCnt'[t] = availCnt[t] - c
      /\ \A v \in Task : v # t => availCnt'[v] = availCnt[v]
      /\ availCnt'[t] = 0 <=> availCnt[t] = c
  BY <1>2, <1>3, <1>8
<1>10. \A v \in Task : Attached(v)' = Attached(v)
  <2> SUFFICES ASSUME NEW v \in Task PROVE Attached(v)' = Attached(v)
    OBVIOUS
  <2>1. CASE v = t
    BY <1>2, <1>3, <1>7, <1>9, <2>1 DEF Attached
  <2>2. CASE v # t
    BY <1>3, <1>9, <2>2 DEF Attached
  <2> QED
    BY <2>1, <2>2
<1>11. \A v \in Task : Awaited(v)' = Awaited(v)
  BY <1>3, <1>10 DEF Awaited, Inputs
<1>12. DepExact'
  BY <1>3, <1>4, <1>6, <1>11 DEF IInv, DepExact
<1>13. AvailExact'
  <2> SUFFICES ASSUME NEW v \in Task
               PROVE  /\ availCnt'[v] = Cardinality(Undelivered(v))
                                          + Posted("avail", v, inbox'[v.rank])
                      /\ RemoteInto(v) = {} => availCnt'[v] = 0
                      /\ v \in avail' => /\ pc[v.rank] # "before"
                                         /\ availCnt'[v] = 0
                                         /\ RemoteInto(v) # {}
    BY <1>3, <1>6 DEF AvailExact
  <2>1. /\ availCnt[v] = Cardinality(Undelivered(v))
                           + Posted("avail", v, inbox[v.rank])
        /\ RemoteInto(v) = {} => availCnt[v] = 0
        /\ v \in avail => /\ pc[v.rank] # "before" /\ availCnt[v] = 0
                          /\ RemoteInto(v) # {}
    BY DEF IInv, AvailExact
  <2>2. /\ Cardinality(Undelivered(v)) \in Nat
        /\ Posted("avail", v, inbox'[v.rank]) \in Nat
        /\ Posted("avail", v, inbox[v.rank]) =
             Posted("avail", v, inbox'[v.rank]) + (IF v = t THEN c ELSE 0)
    BY <1>4, CountTypes
  <2>3. CASE v = t
    <3>1. availCnt'[t] = Cardinality(Undelivered(t)) + Posted("avail", t, inbox'[t.rank])
      BY <1>2, <1>9, <2>1, <2>2, <2>3
    <3>2. RemoteInto(t) # {} /\ t \notin avail
      BY <1>7, <2>1, <2>3
    <3>3. t \in avail' => /\ pc[t.rank] # "before" /\ availCnt'[t] = 0
      BY <1>2, <1>3, <1>9, <3>2
    <3> QED
      BY <2>3, <3>1, <3>2, <3>3
  <2>4. CASE v # t
    <3>1. v \in avail' <=> v \in avail
      BY <1>3, <2>4
    <3>2. availCnt'[v] = availCnt[v]
      BY <1>9, <2>4
    <3>3. Posted("avail", v, inbox[v.rank]) = Posted("avail", v, inbox'[v.rank])
      BY <2>2, <2>4
    <3> QED
      BY <2>1, <3>1, <3>2, <3>3
  <2> QED
    BY <2>3, <2>4
<1>14. CallbacksExact'
  BY <1>3, <1>10 DEF IInv, CallbacksExact
<1>15. AnnouncedOnce' /\ LoopExact' /\ ReadyExact'
  BY <1>3 DEF IInv, AnnouncedOnce, Announced, LoopExact, ReadyExact
<1>16. SentExact' /\ SlotsExact'
  <2>1. SentExact'
    BY <1>3 DEF IInv, SentExact, SentSoFar
  <2>2. /\ \A q : Lent(q)' = Lent(q)
        /\ \A q, J : LentFor(q, J)' = LentFor(q, J)
    BY <1>3 DEF Lent, LentFor, GivenBack
  <2>3. SlotsExact'
    BY <1>3, <2>2 DEF IInv, SlotsExact
  <2> QED
    BY <2>1, <2>3
<1> QED
  BY <1>5, <1>12, <1>13, <1>14, <1>15, <1>16 DEF IInv

-----------------------------------------------------------------------------
(* Messages arrive.                                                        *)

(* Posting lpcs adds up what they count.                                   *)
LEMMA PostLpcs ==
  ASSUME IInv, NEW r \in Rank, NEW u \in Seq(LpcOf(r)),
         inbox' = [inbox EXCEPT ![r] = @ \o u]
  PROVE  /\ DOMAIN inbox' = Rank /\ inbox' = [q \in Rank |-> inbox'[q]]
         /\ \A q \in Rank : inbox'[q] \in Seq(LpcOf(q))
<1>1. /\ DOMAIN inbox = Rank /\ inbox = [q \in Rank |-> inbox[q]]
      /\ \A q \in Rank : inbox[q] \in Seq(LpcOf(q))
  BY DEF IInv, TypeOK
<1>2. inbox[r] \o u \in Seq(LpcOf(r))
  BY <1>1, ConcatProperties
<1>3. \A q \in Rank : inbox'[q] = IF q = r THEN inbox[r] \o u ELSE inbox[q]
  BY <1>1
<1>4. DOMAIN inbox' = Rank /\ inbox' = [q \in Rank |-> inbox'[q]]
  BY <1>1
<1>5. \A q \in Rank : inbox'[q] \in Seq(LpcOf(q))
  BY <1>1, <1>2, <1>3
<1> QED
  BY <1>4, <1>5

LEMMA PostedAfter ==
  ASSUME IInv, NEW r \in Rank, NEW u \in Seq(LpcOf(r)),
         inbox' = [inbox EXCEPT ![r] = @ \o u],
         NEW v \in Task, NEW kind \in {"dep", "avail"}
  PROVE  /\ Posted(kind, v, inbox[v.rank]) \in Nat
         /\ v.rank # r => Posted(kind, v, inbox'[v.rank])
                            = Posted(kind, v, inbox[v.rank])
         /\ v.rank = r => /\ Posted(kind, v, u) \in Nat
                          /\ Posted(kind, v, inbox'[v.rank])
                               = Posted(kind, v, inbox[v.rank]) + Posted(kind, v, u)
<1>1. /\ v.rank \in Rank /\ inbox[v.rank] \in Seq(LpcOf(v.rank))
      /\ inbox'[v.rank] = IF v.rank = r THEN inbox[r] \o u ELSE inbox[v.rank]
  BY TaskShape DEF IInv, TypeOK
<1>2. CASE v.rank = r
  <2>1. inbox'[v.rank] = inbox[v.rank] \o u /\ u \in Seq(LpcOf(v.rank))
    BY <1>1, <1>2
  <2>2. PICK s : s = inbox[v.rank]
    OBVIOUS
  <2>3. s \in Seq(LpcOf(v.rank)) /\ inbox'[v.rank] = s \o u
    BY <1>1, <2>1, <2>2
  <2>4. /\ Posted(kind, v, s) \in Nat /\ Posted(kind, v, u) \in Nat
        /\ Posted(kind, v, s \o u) = Posted(kind, v, s) + Posted(kind, v, u)
    BY <2>1, <2>3, PostedSum
  <2> QED
    BY <1>2, <2>2, <2>3, <2>4
<1>3. CASE v.rank # r
  <2>1. inbox'[v.rank] = inbox[v.rank]
    BY <1>1, <1>3
  <2>2. Posted(kind, v, inbox[v.rank]) \in Nat
    BY <1>1, PostedSum
  <2> QED
    BY <1>3, <2>1, <2>2
<1> QED
  BY <1>2, <1>3

(* The rpc handler makes each target an input available for every signal   *)
(* the message carries, and satisfies all but one of them.                 *)
LEMMA ArrivalsCount ==
  ASSUME NEW m \in Rpcs
  PROVE  /\ Arrivals(m) \in Seq(LpcOf(m[2]))
         /\ \A v \in OnRank(m[2], Task) :
              /\ Posted("avail", v, Arrivals(m)) =
                   IF v \in TargetsOn(m[1], m[2]) THEN Count(m) ELSE 0
              /\ Posted("dep", v, Arrivals(m)) =
                   IF v \in TargetsOn(m[1], m[2]) THEN Count(m) - 1 ELSE 0
<1> DEFINE T == TargetsOn(m[1], m[2])
           n == Count(m)
           a == LpcList("avail", T, n)
           d == IF n > 1 THEN LpcList("dep", T, n - 1) ELSE <<>>
<1>1. T \subseteq OnRank(m[2], Task) /\ n \in 1..MaxCount /\ MaxCount \in Nat
  BY RpcShape, CountBound, MaxCountType
<1>2. IsFiniteSet(T)
  <2>1. T \in SUBSET Task
    BY <1>1 DEF OnRank
  <2> QED
    BY <2>1, TasksFinite, FS_Subset
<1>3. Arrivals(m) = a \o d
  BY DEF Arrivals, LpcList
<1>4. \E v : v \in OnRank(m[2], Task)
  BY <1>1, RpcShape DEF TargetsOn
<1> HIDE DEF T, n
<1>5. ASSUME NEW v \in OnRank(m[2], Task)
      PROVE  /\ a \in Seq(LpcOf(m[2])) /\ d \in Seq(LpcOf(m[2]))
             /\ Posted("avail", v, a) = (IF v \in T THEN n ELSE 0)
             /\ Posted("dep", v, a) = 0 /\ Posted("avail", v, d) = 0
             /\ Posted("dep", v, d) = (IF v \in T THEN n - 1 ELSE 0)
  <2>1. v \in Task /\ v.rank = m[2]
    BY <1>5 DEF OnRank
  <2>2. T \subseteq OnRank(v.rank, Task)
    BY <1>1, <2>1
  <2>3. /\ a \in Seq(LpcOf(m[2]))
        /\ Posted("avail", v, a) = (IF v \in T THEN n ELSE 0)
        /\ Posted("dep", v, a) = 0
    BY <1>1, <1>2, <2>1, <2>2, PostedList
  <2>4. CASE n > 1
    <3>1. n - 1 \in 1..MaxCount
      BY <1>1, <2>4
    <3>2. d = LpcList("dep", T, n - 1)
      BY <2>4
    <3> HIDE DEF d
    <3>3. ASSUME NEW k \in 1..MaxCount
          PROVE  /\ LpcList("dep", T, k) \in Seq(LpcOf(m[2]))
                 /\ Posted("avail", v, LpcList("dep", T, k)) = 0
                 /\ Posted("dep", v, LpcList("dep", T, k)) = (IF v \in T THEN k ELSE 0)
      BY <1>2, <2>1, <2>2, PostedList
    <3> QED
      BY <2>3, <3>1, <3>2, <3>3
  <2>5. CASE ~(n > 1)
    <3>1. n = 1 /\ d = <<>>
      BY <1>1, <2>5
    <3>2. <<>> \in Seq(LpcOf(m[2]))
      BY EmptySeq
    <3> HIDE DEF a, d
    <3> QED
      BY <2>1, <2>3, <3>1, <3>2, PostedEmpty
  <2> QED
    BY <2>4, <2>5
<1> HIDE DEF a, d
<1>6. Arrivals(m) \in Seq(LpcOf(m[2]))
  <2>1. a \in Seq(LpcOf(m[2])) /\ d \in Seq(LpcOf(m[2]))
    BY <1>4, <1>5
  <2> QED
    BY <1>3, <2>1, ConcatProperties
<1>7. ASSUME NEW v \in OnRank(m[2], Task), NEW kind \in {"dep", "avail"}
      PROVE  Posted(kind, v, Arrivals(m)) = Posted(kind, v, a) + Posted(kind, v, d)
  <2>1. v \in Task /\ v.rank = m[2]
    BY <1>7 DEF OnRank
  <2>2. a \in Seq(LpcOf(v.rank)) /\ d \in Seq(LpcOf(v.rank))
    BY <1>5, <2>1
  <2> QED
    BY <1>3, <2>1, <2>2, PostedSum
<1>8. ASSUME NEW v \in OnRank(m[2], Task)
      PROVE  /\ Posted("avail", v, Arrivals(m)) = (IF v \in T THEN n ELSE 0)
             /\ Posted("dep", v, Arrivals(m)) = (IF v \in T THEN n - 1 ELSE 0)
  <2>1. Posted("avail", v, Arrivals(m)) = Posted("avail", v, a) + Posted("avail", v, d)
    BY <1>7
  <2>2. Posted("dep", v, Arrivals(m)) = Posted("dep", v, a) + Posted("dep", v, d)
    BY <1>7
  <2>3. n \in Nat
    BY <1>1
  <2> QED
    BY <1>1, <1>5, <2>1, <2>2, <2>3
<1> QED
  BY <1>6, <1>8 DEF T, n

(* A message that is still on its way carries signals that no other        *)
(* message brings.                                                         *)
LEMMA CarriedOnce ==
  ASSUME IInv, NEW m \in Rpcs, Announced(m), NEW n \in Rpcs, Announced(n),
         NEW e, Carries(m, e), Carries(n, e)
  PROVE  m = n
<1>1. /\ m = <<m[1], m[2]>> /\ n = <<n[1], n[2]>> /\ m[1] \in Task /\ n[1] \in Task
      /\ m[2] = n[2]
  BY RpcShape DEF Carries
<1>2. CASE Diag(m[1]) /\ Diag(n[1])
  BY <1>1, <1>2 DEF Carries
<1>3. CASE ~Diag(m[1]) /\ ~Diag(n[1])
  <2>1. e.from \in Peers(m[1]) /\ e.from \in Peers(n[1]) /\ n[1] \in Peers(n[1])
    BY <1>1, <1>3, PeersShape DEF Carries
  <2>2. Peers(m[1]) = Peers(n[1])
    BY <1>1, <1>3, <2>1, PeersShape
  <2> QED
    BY <1>3, <2>1, <2>2 DEF IInv, AnnouncedOnce
<1>4. CASE Diag(m[1]) /\ ~Diag(n[1])
  BY <1>1, <1>4, PeersShape DEF Carries
<1>5. CASE ~Diag(m[1]) /\ Diag(n[1])
  BY <1>1, <1>5, PeersShape DEF Carries
<1> QED
  BY <1>2, <1>3, <1>4, <1>5

LEMMA DeliverStep ==
  ASSUME IInv, NEW m \in Rpcs, Deliver(m)
  PROVE  IInv'
<1> DEFINE T == TargetsOn(m[1], m[2])
           u == Arrivals(m)
<1>1. /\ m \in net /\ net' = net \ {m}
      /\ data' = [d \in DOMAIN data |-> IF d \in {m} THEN "fetching" ELSE data[d]]
      /\ inbox' = [inbox EXCEPT ![m[2]] = @ \o u]
      /\ UNCHANGED <<pc, taskCnt, ready, avail, inCnt, availCnt, thens>>
      /\ UNCHANGED <<slots, rightCnt, upCnt, toFree, releases, executed>>
  BY DEF Deliver, Receive, taskVars, solveVars, slotVars
<1>2. /\ m[2] \in Rank /\ T \subseteq OnRank(m[2], Task)
      /\ \A v \in T : v \in Task /\ v.rank = m[2]
  BY RpcShape DEF OnRank
<1>3. data \in [Rpcs -> {"absent", "fetching", "landed"}] /\ data[m] = "absent"
  BY <1>1 DEF IInv, TypeOK, AnnouncedOnce
<1>4. /\ data'[m] = "fetching"
      /\ \A d \in Rpcs : d # m => data'[d] = data[d]
  BY <1>1, <1>3
<1>5. u \in Seq(LpcOf(m[2]))
  BY ArrivalsCount
<1>6. /\ DOMAIN inbox' = Rank /\ inbox' = [q \in Rank |-> inbox'[q]]
      /\ \A q \in Rank : inbox'[q] \in Seq(LpcOf(q))
  BY <1>1, <1>2, <1>5, PostLpcs
<1>7. ASSUME NEW v \in Task
      PROVE  /\ Posted("dep", v, inbox[v.rank]) \in Nat
             /\ Posted("avail", v, inbox[v.rank]) \in Nat
             /\ Posted("avail", v, inbox'[v.rank]) =
                  Posted("avail", v, inbox[v.rank]) + (IF v \in T THEN Count(m) ELSE 0)
             /\ Posted("dep", v, inbox'[v.rank]) =
                  Posted("dep", v, inbox[v.rank]) + (IF v \in T THEN Count(m) - 1 ELSE 0)
  <2>1. ASSUME NEW kind \in {"dep", "avail"}
        PROVE  /\ Posted(kind, v, inbox[v.rank]) \in Nat
               /\ v.rank # m[2] => Posted(kind, v, inbox'[v.rank])
                                    = Posted(kind, v, inbox[v.rank])
               /\ v.rank = m[2] => Posted(kind, v, inbox'[v.rank])
                                    = Posted(kind, v, inbox[v.rank]) + Posted(kind, v, u)
    <3> HIDE DEF u, T
    <3>1. m[2] \in Rank
      BY <1>2
    <3> QED
      BY <1>1, <1>5, <3>1, PostedAfter
  <2>2. CASE v.rank = m[2]
    <3>1. v \in OnRank(m[2], Task)
      BY <2>2 DEF OnRank
    <3>2. /\ Posted("avail", v, u) = (IF v \in T THEN Count(m) ELSE 0)
          /\ Posted("dep", v, u) = (IF v \in T THEN Count(m) - 1 ELSE 0)
      BY <3>1, ArrivalsCount
    <3> HIDE DEF T, u
    <3> QED
      BY <2>1, <2>2, <3>2
  <2>3. CASE v.rank # m[2]
    <3>1. v \notin T
      BY <1>2, <2>3
    <3> HIDE DEF T, u
    <3> QED
      BY <2>1, <2>3, <3>1
  <2> QED
    BY <2>2, <2>3
<1> HIDE DEF u
<1>8. TypeOK'
  <2>1. data' \in [Rpcs -> {"absent", "fetching", "landed"}]
    BY <1>1, <1>3
  <2>2. net' \subseteq Rpcs
    BY <1>1 DEF IInv, TypeOK
  <2> QED
    BY <1>1, <1>6, <2>1, <2>2 DEF IInv, TypeOK
<1>9. \A v \in Task : /\ Attached(v)' = Attached(v)
                      /\ Unsignalled(v)' = Unsignalled(v)
  BY <1>1 DEF Attached, Unsignalled
(* The message delivers the signals it carries.                            *)
<1>10. ASSUME NEW v \in Task
       PROVE  /\ Undelivered(v) = Undelivered(v)' \cup CarriedTo(m, v)
              /\ Undelivered(v)' \cap CarriedTo(m, v) = {}
  <2>1. \A e : Delivered(e)' <=> Delivered(e) \/ Carries(m, e)
    <3> SUFFICES ASSUME NEW e PROVE Delivered(e)' <=> Delivered(e) \/ Carries(m, e)
      OBVIOUS
    <3>1. Delivered(e)' <=> \E d \in Rpcs : data'[d] # "absent" /\ Carries(d, e)
      BY DEF Delivered
    <3> QED
      BY <1>3, <1>4, <3>1 DEF Delivered
  <2>2. \A e \in CarriedTo(m, v) : ~Delivered(e)
    <3> SUFFICES ASSUME NEW e \in CarriedTo(m, v), NEW d \in Rpcs,
                        data[d] # "absent", Carries(d, e)
                 PROVE  FALSE
      BY DEF Delivered
    <3>1. Announced(m) /\ Announced(d) /\ Carries(m, e)
      BY <1>1 DEF Announced, CarriedTo
    <3>2. m = d
      BY <3>1, CarriedOnce
    <3> QED
      BY <1>3, <3>2
  <2> QED
    BY <2>1, <2>2 DEF Undelivered, CarriedTo
<1>11. ASSUME NEW v \in Task
       PROVE  /\ Cardinality(Undelivered(v)) = Cardinality(Undelivered(v)')
                        + (IF v \in T THEN Count(m) ELSE 0)
              /\ Cardinality(Undelivered(v)') \in Nat
  <2>1. Cardinality(CarriedTo(m, v)) = IF v \in T THEN Count(m) ELSE 0
    <3>1. CASE v.rank = m[2]
      BY <3>1, CountIsCarried
    <3>2. CASE v.rank # m[2]
      <4>1. CarriedTo(m, v) = {}
        BY <3>2 DEF CarriedTo, Carries, RemoteInto
      <4>2. v \notin T
        BY <1>2, <3>2
      <4> QED
        BY <4>1, <4>2, FS_EmptySet
    <3> QED
      BY <3>1, <3>2
  <2>2. /\ Cardinality(Undelivered(v)) = Cardinality(Undelivered(v)')
                                           + Cardinality(CarriedTo(m, v))
        /\ Cardinality(Undelivered(v)') \in Nat
    BY <1>10, CountTypes, SplitCount
  <2> HIDE DEF T
  <2> QED
    BY <2>1, <2>2
(* It becomes an input of each of its targets.                             *)
<1>12. ASSUME NEW v \in Task
       PROVE  Cardinality(Awaited(v)') = Cardinality(Awaited(v)) + (IF v \in T THEN 1 ELSE 0)
  <2>1. CASE v \in T
    <3>1. v.rank = m[2]
      BY <1>2, <2>1
    <3>2. m \notin Awaited(v)
      BY <1>3 DEF Awaited, Inputs
    <3>3. Awaited(v)' = Awaited(v) \cup {m}
      <4>1. \A d \in Rpcs : d \in Inputs(v)' <=> d \in Inputs(v) \/ d = m
        BY <1>3, <1>4, <2>1, <3>1 DEF Inputs
      <4>2. \A d : d \in Inputs(v)' => d \in Rpcs
        BY DEF Inputs
      <4>3. \A d : d \in Inputs(v) => d \in Rpcs
        BY DEF Inputs
      <4>4. \A d \in Rpcs : data'[d] = "landed" <=> data[d] = "landed"
        BY <1>3, <1>4
      <4>5. Attached(v)' = Attached(v)
        BY <1>9
      <4>6. Awaited(v)' = {d \in Inputs(v)' : ~(Attached(v)' /\ data'[d] = "landed")}
        BY DEF Awaited
      <4>7. Awaited(v)' \subseteq Awaited(v) \cup {m}
        BY <4>1, <4>2, <4>4, <4>5, <4>6 DEF Awaited
      <4>8. Awaited(v) \cup {m} \subseteq Awaited(v)'
        BY <1>4, <4>1, <4>3, <4>4, <4>5, <4>6 DEF Awaited
      <4> QED
        BY <4>7, <4>8
    <3>4. IsFiniteSet(Awaited(v))
      BY CountTypes
    <3> QED
      BY <2>1, <3>2, <3>3, <3>4, FS_AddElement
  <2>2. CASE v \notin T
    <3>1. Inputs(v)' = Inputs(v)
      BY <1>4, <2>2 DEF Inputs
    <3>2. \A d \in Rpcs : data'[d] = "landed" <=> data[d] = "landed"
      BY <1>3, <1>4
    <3>3. \A d \in Inputs(v) : d \in Rpcs
      BY DEF Inputs
    <3>4. Awaited(v)' = Awaited(v)
      BY <1>9, <3>1, <3>2, <3>3 DEF Awaited
    <3>5. Cardinality(Awaited(v)) \in Nat
      BY CountTypes
    <3> QED
      BY <2>2, <3>4, <3>5
  <2> QED
    BY <2>1, <2>2
<1>13. Count(m) \in Nat /\ Count(m) >= 1
  BY CountBound, MaxCountType
<1>14. DepExact'
  <2> SUFFICES ASSUME NEW v \in Task
               PROVE  inCnt[v] = Cardinality(Unsignalled(v))
                                   + Cardinality(Undelivered(v)')
                                   + Cardinality(Awaited(v)')
                                   + Posted("dep", v, inbox'[v.rank])
    BY <1>1, <1>9 DEF DepExact
  <2>1. /\ inCnt[v] = Cardinality(Unsignalled(v)) + Cardinality(Undelivered(v))
                        + Cardinality(Awaited(v)) + Posted("dep", v, inbox[v.rank])
        /\ Cardinality(Unsignalled(v)) \in Nat /\ Cardinality(Awaited(v)) \in Nat
    BY CountTypes DEF IInv, DepExact
  <2> HIDE DEF T
  <2>2. /\ Posted("dep", v, inbox[v.rank]) \in Nat
        /\ Posted("dep", v, inbox'[v.rank]) =
             Posted("dep", v, inbox[v.rank]) + (IF v \in T THEN Count(m) - 1 ELSE 0)
    BY <1>7
  <2>3. /\ Cardinality(Undelivered(v)) = Cardinality(Undelivered(v)')
                        + (IF v \in T THEN Count(m) ELSE 0)
        /\ Cardinality(Undelivered(v)') \in Nat
        /\ Cardinality(Awaited(v)') = Cardinality(Awaited(v)) + (IF v \in T THEN 1 ELSE 0)
    BY <1>11, <1>12
  <2> QED
    BY <1>13, <2>1, <2>2, <2>3
<1>15. AvailExact'
  <2> SUFFICES ASSUME NEW v \in Task
               PROVE  availCnt[v] = Cardinality(Undelivered(v)')
                                      + Posted("avail", v, inbox'[v.rank])
    BY <1>1 DEF IInv, AvailExact
  <2>1. availCnt[v] = Cardinality(Undelivered(v)) + Posted("avail", v, inbox[v.rank])
    BY DEF IInv, AvailExact
  <2> HIDE DEF T
  <2> QED
    BY <1>7, <1>11, <1>13, <2>1
(* None of its targets has attached to it.                                 *)
<1>16. CallbacksExact'
  <2> SUFFICES ASSUME NEW d \in Rpcs
               PROVE  /\ data'[d] # "fetching" => thens[d] = <<>>
                      /\ data'[d] = "fetching" =>
                           \A v \in Task : Times(v, thens[d]) =
                             IF Attached(v) /\ v \in TargetsOn(d[1], d[2]) THEN 1 ELSE 0
    BY <1>1, <1>9 DEF CallbacksExact
  <2>1. CASE d # m
    BY <1>4, <2>1 DEF IInv, CallbacksExact
  <2>2. CASE d = m
    <3>1. thens[m] = <<>>
      BY <1>3 DEF IInv, CallbacksExact
    <3>2. \A v \in Task : Times(v, <<>>) = 0
      BY FS_EmptySet DEF Times, Places
    <3>3. ASSUME NEW v \in Task, Attached(v), v \in T PROVE FALSE
      <4>1. availCnt[v] = Cardinality(Undelivered(v)) + Posted("avail", v, inbox[v.rank])
        BY DEF IInv, AvailExact
      <4>2. availCnt[v] = 0
        BY <3>3 DEF Attached
      <4>3. /\ Posted("avail", v, inbox[v.rank]) \in Nat
            /\ Cardinality(Undelivered(v)) = Cardinality(Undelivered(v)') + Count(m)
            /\ Cardinality(Undelivered(v)') \in Nat
        BY <1>7, <1>11, <3>3
      <4> QED
        BY <1>13, <4>1, <4>2, <4>3
    <3> QED
      BY <1>4, <2>2, <3>1, <3>2, <3>3
  <2> QED
    BY <2>1, <2>2
<1>17. \A d \in Rpcs : Announced(d)' <=> Announced(d)
  <2> SUFFICES ASSUME NEW d \in Rpcs PROVE Announced(d)' <=> Announced(d)
    OBVIOUS
  <2>1. CASE d = m
    BY <1>1, <1>4, <2>1 DEF Announced
  <2>2. CASE d # m
    BY <1>1, <1>4, <2>2 DEF Announced
  <2> QED
    BY <2>1, <2>2
<1>18. AnnouncedOnce'
  <2>1. \A d \in Rpcs : d \in net' => data'[d] = "absent"
    BY <1>1, <1>4 DEF IInv, AnnouncedOnce
  <2> QED
    BY <1>1, <1>17, <2>1 DEF IInv, AnnouncedOnce
<1>19. SentExact' /\ ReadyExact' /\ LoopExact'
  BY <1>1 DEF IInv, SentExact, SentSoFar, ReadyExact, LoopExact
<1>20. SlotsExact'
  <2>1. \A d \in Rpcs : data'[d] = "landed" <=> data[d] = "landed"
    BY <1>3, <1>4
  <2>2. \A v \in Task : GivenBack(v)' = GivenBack(v)
    BY <1>1, <2>1 DEF GivenBack
  <2>3. \A r : Lent(r)' = Lent(r)
    BY <1>1, <2>2 DEF Lent
  <2>4. \A r, J : LentFor(r, J)' = LentFor(r, J)
    BY <2>3 DEF LentFor
  <2>5. \A d \in releases' : ~Diag(d[1]) /\ data'[d] = "landed"
    BY <1>1, <2>1 DEF IInv, SlotsExact, TypeOK
  <2> QED
    BY <1>1, <2>3, <2>4, <2>5 DEF IInv, SlotsExact
<1> QED
  BY <1>8, <1>14, <1>15, <1>16, <1>18, <1>19, <1>20 DEF IInv

LEMMA LandStep ==
  ASSUME IInv, NEW m \in Rpcs, Land(m)
  PROVE  IInv'
<1> DEFINE T == TargetsOn(m[1], m[2])
           u == Callbacks(thens[m])
<1>1. /\ data[m] = "fetching" /\ data' = [data EXCEPT ![m] = "landed"]
      /\ inbox' = [inbox EXCEPT ![m[2]] = @ \o u]
      /\ thens' = [thens EXCEPT ![m] = <<>>]
      /\ releases' = IF Diag(m[1]) THEN releases ELSE releases \cup {m}
      /\ UNCHANGED <<pc, taskCnt, ready, avail, inCnt, availCnt, net>>
      /\ UNCHANGED <<slots, rightCnt, upCnt, toFree, executed>>
  BY DEF Land, Arrive, Callbacks, taskVars, slotVars
<1>2. /\ m[2] \in Rank /\ \A v \in T : v \in Task /\ v.rank = m[2]
      /\ \E v \in Task : v.rank = m[2]
  BY RpcShape DEF OnRank, TargetsOn
<1>3. /\ data \in [Rpcs -> {"absent", "fetching", "landed"}]
      /\ DOMAIN thens = Rpcs /\ thens = [d \in Rpcs |-> thens[d]]
      /\ \A d \in Rpcs : thens[d] \in Seq(OnRank(d[2], Task))
  BY DEF IInv, TypeOK
<1>4. \A d \in Rpcs : /\ data'[d] = IF d = m THEN "landed" ELSE data[d]
                      /\ thens'[d] = IF d = m THEN <<>> ELSE thens[d]
  BY <1>1, <1>3
<1>5. ASSUME NEW v \in Task, v.rank = m[2]
      PROVE  /\ u \in Seq(LpcOf(m[2]))
             /\ Posted("dep", v, u) = Times(v, thens[m])
             /\ Posted("avail", v, u) = 0
  <2>1. thens[m] \in Seq(OnRank(v.rank, Task))
    BY <1>3, <1>5
  <2> QED
    BY <1>5, <2>1, PostedCallbacks
<1>6. u \in Seq(LpcOf(m[2]))
  BY <1>2, <1>5
<1>7. ASSUME NEW v \in Task
      PROVE  Times(v, thens[m]) = IF Attached(v) /\ v \in T THEN 1 ELSE 0
  BY <1>1 DEF IInv, CallbacksExact
<1> HIDE DEF u, T
<1>8. /\ DOMAIN inbox' = Rank /\ inbox' = [q \in Rank |-> inbox'[q]]
      /\ \A q \in Rank : inbox'[q] \in Seq(LpcOf(q))
  BY <1>1, <1>2, <1>6, PostLpcs
<1>9. ASSUME NEW v \in Task
      PROVE  /\ Posted("dep", v, inbox[v.rank]) \in Nat
             /\ Posted("avail", v, inbox'[v.rank]) = Posted("avail", v, inbox[v.rank])
             /\ Posted("dep", v, inbox'[v.rank]) =
                  Posted("dep", v, inbox[v.rank]) + (IF Attached(v) /\ v \in T THEN 1 ELSE 0)
  <2>1. ASSUME NEW kind \in {"dep", "avail"}
        PROVE  /\ Posted(kind, v, inbox[v.rank]) \in Nat
               /\ v.rank # m[2] => Posted(kind, v, inbox'[v.rank])
                                    = Posted(kind, v, inbox[v.rank])
               /\ v.rank = m[2] => Posted(kind, v, inbox'[v.rank])
                                    = Posted(kind, v, inbox[v.rank]) + Posted(kind, v, u)
    BY <1>1, <1>2, <1>6, PostedAfter
  <2>2. CASE v.rank = m[2]
    <3>1. /\ Posted("dep", v, u) = (IF Attached(v) /\ v \in T THEN 1 ELSE 0)
          /\ Posted("avail", v, u) = 0
      BY <1>5, <1>7, <2>2
    <3> QED
      BY <2>1, <2>2, <3>1
  <2>3. CASE v.rank # m[2]
    <3>1. v \notin T
      BY <1>2, <2>3
    <3> QED
      BY <2>1, <2>3, <3>1
  <2> QED
    BY <2>2, <2>3
<1>10. TypeOK'
  <2>1. data' \in [Rpcs -> {"absent", "fetching", "landed"}]
    BY <1>1, <1>3
  <2>2. DOMAIN thens' = Rpcs /\ thens' = [d \in Rpcs |-> thens'[d]]
    BY <1>1, <1>3
  <2>3. \A d \in Rpcs : thens'[d] \in Seq(OnRank(d[2], Task))
    <3> SUFFICES ASSUME NEW d \in Rpcs PROVE thens'[d] \in Seq(OnRank(d[2], Task))
      OBVIOUS
    <3>1. <<>> \in Seq(OnRank(d[2], Task))
      BY EmptySeq
    <3>2. thens[d] \in Seq(OnRank(d[2], Task))
      BY <1>3
    <3>3. thens'[d] = <<>> \/ thens'[d] = thens[d]
      BY <1>4
    <3> QED
      BY <3>1, <3>2, <3>3
  <2>4. releases' \subseteq Rpcs
    BY <1>1 DEF IInv, TypeOK
  <2> QED
    BY <1>1, <1>8, <2>1, <2>2, <2>3, <2>4 DEF IInv, TypeOK
<1>11. \A v \in Task : /\ Attached(v)' = Attached(v)
                       /\ Unsignalled(v)' = Unsignalled(v)
  BY <1>1 DEF Attached, Unsignalled
<1>12. \A d \in Rpcs : data'[d] # "absent" <=> data[d] # "absent"
  BY <1>1, <1>4
<1>13. \A v \in Task : Undelivered(v)' = Undelivered(v) /\ Inputs(v)' = Inputs(v)
  BY <1>12 DEF Undelivered, Delivered, Inputs
(* The callbacks are those of the targets that have attached.              *)
<1>14. ASSUME NEW v \in Task
       PROVE  /\ Cardinality(Awaited(v)) = Cardinality(Awaited(v)')
                                             + (IF Attached(v) /\ v \in T THEN 1 ELSE 0)
              /\ Cardinality(Awaited(v)') \in Nat
  <2>0. IsFiniteSet(Awaited(v)) /\ Cardinality(Awaited(v)) \in Nat
    BY CountTypes
  <2>1. \A d \in Inputs(v) : d \in Rpcs
    BY DEF Inputs
  <2>2. Awaited(v)' = {d \in Inputs(v) : ~(Attached(v) /\ data'[d] = "landed")}
    BY <1>11, <1>13 DEF Awaited
  <2>3. CASE Attached(v) /\ v \in T
    <3>1. m \in Inputs(v)
      BY <1>1, <1>2, <2>3 DEF Inputs, T
    <3>2. Awaited(v)' = Awaited(v) \ {m} /\ m \in Awaited(v)
      BY <1>1, <1>4, <2>1, <2>2, <2>3, <3>1 DEF Awaited
    <3>3. /\ Cardinality(Awaited(v) \ {m}) = Cardinality(Awaited(v)) - 1
          /\ IsFiniteSet(Awaited(v) \ {m})
      BY <2>0, <3>2, FS_RemoveElement
    <3>4. Cardinality(Awaited(v) \ {m}) \in Nat
      BY <3>3, FS_CardinalityType
    <3> QED
      BY <2>0, <2>3, <3>2, <3>3, <3>4
  <2>4. CASE ~(Attached(v) /\ v \in T)
    <3>1. Attached(v) => m \notin Inputs(v)
      BY <2>4 DEF Inputs, T
    <3>2. Awaited(v)' = Awaited(v)
      BY <1>4, <2>1, <2>2, <3>1 DEF Awaited
    <3> QED
      BY <2>0, <2>4, <3>2
  <2> QED
    BY <2>3, <2>4
<1>15. DepExact'
  <2> SUFFICES ASSUME NEW v \in Task
               PROVE  inCnt[v] = Cardinality(Unsignalled(v))
                                   + Cardinality(Undelivered(v))
                                   + Cardinality(Awaited(v)')
                                   + Posted("dep", v, inbox'[v.rank])
    BY <1>1, <1>11, <1>13 DEF DepExact
  <2>1. /\ inCnt[v] = Cardinality(Unsignalled(v)) + Cardinality(Undelivered(v))
                        + Cardinality(Awaited(v)) + Posted("dep", v, inbox[v.rank])
        /\ Cardinality(Unsignalled(v)) \in Nat /\ Cardinality(Undelivered(v)) \in Nat
    BY CountTypes DEF IInv, DepExact
  <2>2. /\ Posted("dep", v, inbox[v.rank]) \in Nat
        /\ Posted("dep", v, inbox'[v.rank]) =
             Posted("dep", v, inbox[v.rank]) + (IF Attached(v) /\ v \in T THEN 1 ELSE 0)
    BY <1>9
  <2>3. /\ Cardinality(Awaited(v)) = Cardinality(Awaited(v)')
                                             + (IF Attached(v) /\ v \in T THEN 1 ELSE 0)
        /\ Cardinality(Awaited(v)') \in Nat
    BY <1>14
  <2> QED
    BY <2>1, <2>2, <2>3
<1>16. AvailExact'
  BY <1>1, <1>9, <1>13 DEF IInv, AvailExact
<1>17. CallbacksExact'
  BY <1>4, <1>11 DEF IInv, CallbacksExact
<1>18. AnnouncedOnce'
  <2>1. \A d \in Rpcs : Announced(d)' <=> Announced(d)
    BY <1>1, <1>12 DEF Announced
  <2>2. \A d \in Rpcs : d \in net' => data'[d] = "absent"
    BY <1>1, <1>12 DEF IInv, AnnouncedOnce
  <2> QED
    BY <1>1, <2>1, <2>2 DEF IInv, AnnouncedOnce
<1>19. SentExact' /\ ReadyExact' /\ LoopExact'
  BY <1>1 DEF IInv, SentExact, SentSoFar, ReadyExact, LoopExact
(* A contribution that has been fetched is given back by an rpc of its own. *)
<1>20. SlotsExact'
  <2>1. \A d \in Rpcs : (data'[d] = "landed" /\ d \notin releases' /\ ~Diag(d[1]))
                          <=> (data[d] = "landed" /\ d \notin releases /\ ~Diag(d[1]))
    BY <1>1, <1>4
  <2>2. \A v \in Task, d \in Rpcs : ~Diag(v) /\ d[1] \in Peers(v) => ~Diag(d[1])
    BY PeersShape
  <2>3. \A v \in Task : ~Diag(v) => (GivenBack(v)' <=> GivenBack(v))
    BY <2>1, <2>2 DEF GivenBack
  <2>4. \A r : Lent(r)' = Lent(r)
    BY <1>1, <2>3 DEF Lent, Contributes
  <2>5. \A r, J : LentFor(r, J)' = LentFor(r, J)
    BY <2>4 DEF LentFor
  <2>6. \A d \in releases' : ~Diag(d[1]) /\ data'[d] = "landed"
    <3>1. releases \subseteq Rpcs /\ \A d \in releases : ~Diag(d[1]) /\ data[d] = "landed"
      BY DEF IInv, SlotsExact, TypeOK
    <3> QED
      BY <1>1, <1>4, <3>1
  <2> QED
    BY <1>1, <2>4, <2>5, <2>6 DEF IInv, SlotsExact
<1> QED
  BY <1>10, <1>15, <1>16, <1>17, <1>18, <1>19, <1>20 DEF IInv

-----------------------------------------------------------------------------
(* A task attaches to its messages.                                        *)
LEMMA FetchStep ==
  ASSUME IInv, NEW r \in Rank, NEW t \in Task, Fetch(r, t)
  PROVE  IInv'
<1> DEFINE u == Repeat(Cardinality(LandedInputs(t)), DepLpc(t, 1))
           w(d) == Repeat(IF d \in Inputs(t) THEN 1 ELSE 0, t)
<1>1. /\ pc[r] = "comm" /\ pc' = [pc EXCEPT ![r] = "loop"]
      /\ t \in avail /\ t.rank = r /\ avail' = avail \ {t}
      /\ inbox' = [inbox EXCEPT ![r] = @ \o u]
      /\ UNCHANGED <<taskCnt, ready, inCnt, availCnt, net, data>>
      /\ UNCHANGED <<slots, rightCnt, upCnt, toFree, releases, executed>>
  BY DEF Fetch, Attach, Top, OnRank, Repeat, solveVars, slotVars
<1>2. /\ data \in [Rpcs -> {"absent", "fetching", "landed"}]
      /\ DOMAIN thens = Rpcs
      /\ \A d \in Rpcs : thens[d] \in Seq(OnRank(d[2], Task))
      /\ pc \in [Rank -> Steps]
  BY DEF IInv, TypeOK
<1>3. thens' = [d \in Rpcs |-> IF data[d] = "fetching" THEN thens[d] \o w(d)
                               ELSE thens[d]]
  <2>1. thens' = [d \in DOMAIN data |->
                    IF data[d] = "fetching"
                    THEN thens[d] \o [i \in 1..[m \in Rpcs |-> IF m \in Inputs(t)
                                                 THEN 1 ELSE 0][d] |-> t]
                    ELSE thens[d]]
    BY DEF Fetch, Attach
  <2> QED
    BY <1>2, <2>1 DEF Repeat
<1>4. Cardinality(LandedInputs(t)) \in Nat
  BY CountTypes
<1>5. /\ u \in Seq(LpcOf(r))
      /\ \A v \in Task : v.rank = r =>
           /\ Posted("dep", v, u) = IF v = t THEN Cardinality(LandedInputs(t)) ELSE 0
           /\ Posted("avail", v, u) = 0
  BY <1>1, <1>4, PostedRepeat
<1>6. \A d \in Rpcs :
        /\ w(d) \in Seq(OnRank(d[2], Task))
        /\ \A v : Times(v, w(d)) = IF v = t /\ d \in Inputs(t) THEN 1 ELSE 0
  <2> SUFFICES ASSUME NEW d \in Rpcs
               PROVE  /\ w(d) \in Seq(OnRank(d[2], Task))
                      /\ \A v : Times(v, w(d)) =
                           IF v = t /\ d \in Inputs(t) THEN 1 ELSE 0
    OBVIOUS
  <2>1. ASSUME NEW n \in Nat, NEW v
        PROVE  Repeat(n, t) \in Seq({t}) /\ Times(v, Repeat(n, t)) = IF v = t THEN n ELSE 0
    BY TimesConst
  <2>2. CASE d \notin Inputs(t)
    <3>1. w(d) = <<>>
      BY <2>2 DEF Repeat
    <3>2. <<>> \in Seq(OnRank(d[2], Task))
      BY EmptySeq
    <3>3. \A v : Times(v, <<>>) = 0
      BY FS_EmptySet DEF Times, Places
    <3> HIDE DEF w
    <3> QED
      BY <2>2, <3>1, <3>2, <3>3
  <2>3. CASE d \in Inputs(t)
    <3>1. w(d) = Repeat(1, t)
      BY <2>3
    <3>2. {t} \subseteq OnRank(d[2], Task)
      BY <2>3 DEF OnRank, Inputs
    <3>3. w(d) \in Seq({t}) /\ \A v : Times(v, w(d)) = IF v = t THEN 1 ELSE 0
      BY <2>1, <3>1
    <3> HIDE DEF w
    <3> QED
      BY <2>3, <3>2, <3>3, SeqMonotonic
  <2> QED
    BY <2>2, <2>3
<1> HIDE DEF u, w
<1>7. /\ DOMAIN inbox' = Rank /\ inbox' = [q \in Rank |-> inbox'[q]]
      /\ \A q \in Rank : inbox'[q] \in Seq(LpcOf(q))
  BY <1>1, <1>5, PostLpcs
<1>8. ASSUME NEW v \in Task
      PROVE  /\ Posted("dep", v, inbox[v.rank]) \in Nat
             /\ Posted("avail", v, inbox'[v.rank]) = Posted("avail", v, inbox[v.rank])
             /\ Posted("dep", v, inbox'[v.rank]) =
                  Posted("dep", v, inbox[v.rank])
                    + (IF v = t THEN Cardinality(LandedInputs(t)) ELSE 0)
  <2>1. ASSUME NEW kind \in {"dep", "avail"}
        PROVE  /\ Posted(kind, v, inbox[v.rank]) \in Nat
               /\ v.rank # r => Posted(kind, v, inbox'[v.rank])
                                    = Posted(kind, v, inbox[v.rank])
               /\ v.rank = r => Posted(kind, v, inbox'[v.rank])
                                    = Posted(kind, v, inbox[v.rank]) + Posted(kind, v, u)
    BY <1>1, <1>5, PostedAfter
  <2>2. CASE v.rank = r
    <3>1. /\ Posted("dep", v, u) = (IF v = t THEN Cardinality(LandedInputs(t)) ELSE 0)
          /\ Posted("avail", v, u) = 0
      BY <1>5, <2>2
    <3> QED
      BY <2>1, <2>2, <3>1
  <2>3. CASE v.rank # r
    <3>1. v # t
      BY <1>1, <2>3
    <3> QED
      BY <2>1, <2>3, <3>1
  <2> QED
    BY <2>2, <2>3
<1>9. TypeOK'
  <2>1. DOMAIN thens' = Rpcs /\ thens' = [d \in Rpcs |-> thens'[d]]
    BY <1>3
  <2>2. \A d \in Rpcs : thens'[d] \in Seq(OnRank(d[2], Task))
    <3> SUFFICES ASSUME NEW d \in Rpcs
                 PROVE  thens'[d] \in Seq(OnRank(d[2], Task))
      OBVIOUS
    <3>1. thens[d] \o w(d) \in Seq(OnRank(d[2], Task))
      BY <1>2, <1>6, ConcatProperties
    <3> QED
      BY <1>2, <1>3, <3>1
  <2> QED
    BY <1>1, <1>7, <2>1, <2>2 DEF IInv, TypeOK, Steps
<1>10. /\ ~Attached(t) /\ Attached(t)' /\ availCnt[t] = 0
       /\ \A v \in Task : v # t => Attached(v)' = Attached(v)
  <2>1. pc[t.rank] # "before" /\ availCnt[t] = 0 /\ RemoteInto(t) # {}
    BY <1>1 DEF IInv, AvailExact
  <2>2. \A v \in Task : v.rank \in Rank
    BY TaskShape
  <2> QED
    BY <1>1, <1>2, <2>1, <2>2 DEF Attached
<1>11. \A v \in Task : /\ Inputs(v)' = Inputs(v) /\ Undelivered(v)' = Undelivered(v)
                       /\ Unsignalled(v)' = Unsignalled(v)
  BY <1>1 DEF Inputs, Undelivered, Delivered, Unsignalled
<1>12. DepExact'
  <2> SUFFICES ASSUME NEW v \in Task
               PROVE  inCnt[v] = Cardinality(Unsignalled(v))
                                   + Cardinality(Undelivered(v))
                                   + Cardinality(Awaited(v)')
                                   + Posted("dep", v, inbox'[v.rank])
    BY <1>1, <1>11 DEF DepExact
  <2>1. /\ inCnt[v] = Cardinality(Unsignalled(v)) + Cardinality(Undelivered(v))
                        + Cardinality(Awaited(v)) + Posted("dep", v, inbox[v.rank])
        /\ Cardinality(Unsignalled(v)) \in Nat /\ Cardinality(Undelivered(v)) \in Nat
        /\ Cardinality(Awaited(v)) \in Nat
    BY CountTypes DEF IInv, DepExact
  <2>2. CASE v = t
    <3>1. /\ Awaited(t) = Awaited(t)' \cup LandedInputs(t)
          /\ Awaited(t)' \cap LandedInputs(t) = {}
      BY <1>1, <1>10, <1>11 DEF Awaited, LandedInputs
    <3>2. /\ Cardinality(Awaited(t)) = Cardinality(Awaited(t)')
                                         + Cardinality(LandedInputs(t))
          /\ Cardinality(Awaited(t)') \in Nat
          /\ Cardinality(LandedInputs(t)) \in Nat
      BY <3>1, CountTypes, SplitCount
    <3>3. /\ Posted("dep", t, inbox[t.rank]) \in Nat
          /\ Posted("dep", t, inbox'[t.rank])
               = Posted("dep", t, inbox[t.rank]) + Cardinality(LandedInputs(t))
      BY <1>8
    <3> QED
      BY <2>1, <2>2, <3>2, <3>3
  <2>3. CASE v # t
    <3>1. Awaited(v)' = Awaited(v)
      BY <1>1, <1>10, <1>11, <2>3 DEF Awaited
    <3>2. /\ Posted("dep", v, inbox[v.rank]) \in Nat
          /\ Posted("dep", v, inbox'[v.rank]) = Posted("dep", v, inbox[v.rank]) + 0
      BY <1>8, <2>3
    <3> QED
      BY <2>1, <3>1, <3>2
  <2> QED
    BY <2>2, <2>3
<1>13. AvailExact'
  <2> SUFFICES ASSUME NEW v \in Task
               PROVE  /\ availCnt[v] = Cardinality(Undelivered(v))
                           + Posted("avail", v, inbox'[v.rank])
                      /\ RemoteInto(v) = {} => availCnt[v] = 0
                      /\ v \in avail' => /\ pc'[v.rank] # "before"
                                         /\ availCnt[v] = 0
                                         /\ RemoteInto(v) # {}
    BY <1>1, <1>11 DEF AvailExact
  <2>1. /\ availCnt[v] = Cardinality(Undelivered(v))
                           + Posted("avail", v, inbox[v.rank])
        /\ RemoteInto(v) = {} => availCnt[v] = 0
        /\ v \in avail => /\ pc[v.rank] # "before" /\ availCnt[v] = 0
                          /\ RemoteInto(v) # {}
        /\ v.rank \in Rank
    BY TaskShape DEF IInv, AvailExact
  <2> QED
    BY <1>1, <1>2, <1>8, <2>1
<1>14. CallbacksExact'
  <2> SUFFICES ASSUME NEW d \in Rpcs
               PROVE  /\ data[d] # "fetching" => thens'[d] = <<>>
                      /\ data[d] = "fetching" =>
                           \A v \in Task : Times(v, thens'[d]) =
                             IF Attached(v)' /\ v \in TargetsOn(d[1], d[2]) THEN 1 ELSE 0
    BY <1>1 DEF CallbacksExact
  <2>1. CASE data[d] # "fetching"
    BY <1>3, <2>1 DEF IInv, CallbacksExact
  <2>2. CASE data[d] = "fetching"
    <3> SUFFICES ASSUME NEW v \in Task
                 PROVE  Times(v, thens'[d]) =
                          IF Attached(v)' /\ v \in TargetsOn(d[1], d[2]) THEN 1 ELSE 0
      BY <2>2
    <3>1. Times(v, thens'[d]) = Times(v, thens[d]) + Times(v, w(d))
      <4>1. thens[d] \in Seq(OnRank(d[2], Task)) /\ w(d) \in Seq(OnRank(d[2], Task))
        BY <1>2, <1>6
      <4>2. thens'[d] = thens[d] \o w(d)
        BY <1>3, <2>2
      <4> QED
        BY <4>1, <4>2, TimesConcat
    <3>2. Times(v, thens[d]) =
            IF Attached(v) /\ v \in TargetsOn(d[1], d[2]) THEN 1 ELSE 0
      BY <2>2 DEF IInv, CallbacksExact
    <3>3. Times(v, w(d)) = IF v = t /\ d \in Inputs(t) THEN 1 ELSE 0
      BY <1>6
    <3>4. d \in Inputs(t) <=> t \in TargetsOn(d[1], d[2])
      BY <2>2, RpcShape DEF Inputs, OnRank
    <3>5. CASE v = t
      BY <1>10, <3>1, <3>2, <3>3, <3>4, <3>5
    <3>6. CASE v # t
      BY <1>10, <3>1, <3>2, <3>3, <3>6
    <3> QED
      BY <3>5, <3>6
  <2> QED
    BY <2>1, <2>2
<1>15. AnnouncedOnce'
  BY <1>1 DEF IInv, AnnouncedOnce, Announced
<1>16. SentExact'
  BY <1>1 DEF IInv, SentExact, SentSoFar
<1>19. SlotsExact'
  <2>1. \A q : Lent(q)' = Lent(q)
    BY <1>1 DEF Lent, GivenBack
  <2>2. \A q, J : LentFor(q, J)' = LentFor(q, J)
    BY <2>1 DEF LentFor
  <2> QED
    BY <1>1, <2>1, <2>2 DEF IInv, SlotsExact
<1>17. ReadyExact'
  BY <1>1, <1>2, TaskShape DEF IInv, ReadyExact
<1>18. LoopExact'
  BY <1>1, <1>2 DEF IInv, LoopExact
<1> QED
  BY <1>9, <1>12, <1>13, <1>14, <1>15, <1>16, <1>17, <1>18, <1>19 DEF IInv

-----------------------------------------------------------------------------
(* The slot of a contribution is given back.                               *)

LEMMA GoalShape ==
  ASSUME NEW t \in Task
  PROVE  Goal(t) \in Sup /\ t.rank \in Rank
BY TaskShape DEF Goal

(* What is lent until the handler of deallocRemote runs for m: all the     *)
(* contributions m has announced.                                          *)
LEMMA ReleasedWereLent ==
  ASSUME IInv, NEW m \in Rpcs, m \in releases
  PROVE  /\ ~Diag(m[1]) /\ Contributes(m[1]) /\ data[m] = "landed"
         /\ m[1] \in Task /\ m[1].rank \in Rank /\ Goal(m[1]) \in Sup
         /\ Peers(m[1]) \subseteq LentFor(m[1].rank, Goal(m[1]))
         /\ DepCnt(m[1]) = Cardinality(Peers(m[1])) /\ DepCnt(m[1]) \in Nat \ {0}
<1>1. ~Diag(m[1]) /\ data[m] = "landed"
  BY DEF IInv, SlotsExact
<1>2. Contributes(m[1]) /\ m[1] \in Task
  BY <1>1, RpcShape
<1>3. m[1].rank \in Rank /\ Goal(m[1]) \in Sup
  BY <1>2, GoalShape
<1>4. DepCnt(m[1]) = Cardinality(Peers(m[1])) /\ DepCnt(m[1]) \in Nat \ {0}
  BY <1>2, DepCntIsPeers
<1>5. Announced(m)
  BY <1>1 DEF Announced
<1>6. /\ Peers(m[1]) \subseteq executed
      /\ \A n \in Rpcs : n[1] \in Peers(m[1]) /\ Announced(n) => n = m
  BY <1>1, <1>5 DEF IInv, AnnouncedOnce
<1>7. \A u \in Peers(m[1]) :
        /\ u \in Task /\ ~Diag(u) /\ u.rank = m[1].rank /\ Peers(u) = Peers(m[1])
        /\ Goal(u) = Goal(m[1]) /\ (Away(u) <=> Away(m[1]))
  BY <1>1, <1>2, PeersShape
<1>8. \A u \in Peers(m[1]) : ~GivenBack(u)
  <2> SUFFICES ASSUME NEW u \in Peers(m[1]), NEW n \in Rpcs, n[1] \in Peers(u),
                      data[n] = "landed", n \notin releases
               PROVE  FALSE
    BY DEF GivenBack
  <2>1. n[1] \in Peers(m[1]) /\ Announced(n)
    BY <1>7 DEF Announced
  <2> QED
    BY <1>6, <2>1
<1>9. \A u \in Peers(m[1]) : u \in LentFor(m[1].rank, Goal(m[1]))
  BY <1>2, <1>6, <1>7, <1>8 DEF LentFor, Lent, Contributes
<1> QED
  BY <1>1, <1>2, <1>3, <1>4, <1>9

LEMMA TakeAway ==
  ASSUME NEW A, IsFiniteSet(A), NEW B \in SUBSET A
  PROVE  /\ Cardinality(A \ B) = Cardinality(A) - Cardinality(B)
         /\ Cardinality(A \ B) \in Nat /\ Cardinality(A) \in Nat
         /\ Cardinality(B) \in Nat /\ IsFiniteSet(A \ B) /\ IsFiniteSet(B)
<1>1. IsFiniteSet(A \ B) /\ IsFiniteSet(B)
  BY FS_Subset
<1>2. A = (A \ B) \cup B /\ (A \ B) \cap B = {}
  OBVIOUS
<1>3. /\ Cardinality(A \ B) \in Nat /\ Cardinality(B) \in Nat /\ Cardinality(A) \in Nat
  BY <1>1, FS_CardinalityType
<1>4. Cardinality(A) = Cardinality(A \ B) + Cardinality(B)
  BY <1>2, SplitCount
<1> QED
  BY <1>1, <1>3, <1>4

LEMMA ReleaseStep ==
  ASSUME IInv, NEW m \in Rpcs, Release(m)
  PROVE  IInv'
<1> DEFINE r == m[1].rank
           J == Goal(m[1])
           n == DepCnt(m[1])
           P == Peers(m[1])
<1>1. /\ InProgress(r) /\ m \in releases /\ releases' = releases \ {m}
      /\ slots' = [slots EXCEPT ![r][J] = Released(@, n)]
      /\ toFree' = [toFree EXCEPT ![r] = @ - n]
      /\ UNCHANGED <<pc, taskCnt, ready, avail, inCnt, availCnt, net, data, thens>>
      /\ UNCHANGED <<inbox, rightCnt, upCnt, executed>>
  BY DEF Release, loopVars, taskVars, commVars
<1>2. /\ ~Diag(m[1]) /\ Contributes(m[1]) /\ data[m] = "landed"
      /\ m[1] \in Task /\ r \in Rank /\ J \in Sup
      /\ P \subseteq LentFor(r, J)
      /\ n = Cardinality(P) /\ n \in Nat \ {0}
  BY <1>1, ReleasedWereLent
<1>3. \A v \in Task : v \in P => /\ v.rank = r /\ Goal(v) = J /\ Peers(v) = P
                                 /\ ~Diag(v)
  BY <1>2, PeersShape
<1>4. \A v \in Task : ~Diag(v) => (m[1] \in Peers(v) <=> v \in P)
  BY <1>2, PeersShape
<1> HIDE DEF n, P
(* What m announced is given back, and nothing else.                       *)
<1>5. \A v \in Task : ~Diag(v) => (GivenBack(v)' <=> GivenBack(v) \/ v \in P)
  BY <1>1, <1>2, <1>4 DEF GivenBack
<1>6. \A q : Lent(q)' = Lent(q) \ P
  BY <1>1, <1>5 DEF Lent, Contributes
<1>7. \A q, K : LentFor(q, K)' = LentFor(q, K) \ P
  BY <1>6 DEF LentFor
<1>8. /\ \A q : q # r => Lent(q)' = Lent(q)
      /\ \A q, K : q # r \/ K # J => LentFor(q, K)' = LentFor(q, K)
  BY <1>3, <1>6, <1>7 DEF Lent, LentFor
<1>9. P \subseteq Lent(r) /\ P \in SUBSET Lent(r) /\ P \in SUBSET LentFor(r, J)
  BY <1>2 DEF LentFor
<1>10. /\ Cardinality(Lent(r)') = Cardinality(Lent(r)) - n
       /\ Cardinality(Lent(r)) - n \in Nat /\ Cardinality(Lent(r)) \in Nat
  <2>1. IsFiniteSet(Lent(r))
    BY LentFinite
  <2> QED
    BY <1>2, <1>6, <1>9, <2>1, TakeAway
<1>11. /\ Cardinality(LentFor(r, J)') = Cardinality(LentFor(r, J)) - n
       /\ Cardinality(LentFor(r, J)) \in Nat /\ Cardinality(LentFor(r, J)') \in Nat
       /\ IsFiniteSet(LentFor(r, J)')
  <2>1. IsFiniteSet(LentFor(r, J))
    BY LentFinite
  <2> QED
    BY <1>2, <1>7, <1>9, <2>1, TakeAway
<1>12. /\ slots = [q \in Rank |-> [K \in Sup |-> slots[q][K]]]
       /\ \A q \in Rank, K \in Sup : SlotOK(slots[q][K])
       /\ toFree \in [Rank -> Int]
  BY DEF IInv, TypeOK
<1>13. slots' = [q \in Rank |-> [K \in Sup |->
                   IF q = r /\ K = J THEN Released(slots[r][J], n) ELSE slots[q][K]]]
  BY <1>1, <1>2, <1>12
<1>14. \A q \in Rank, K \in Sup :
         slots'[q][K] = IF q = r /\ K = J THEN Released(slots[r][J], n)
                        ELSE slots[q][K]
  BY <1>13
<1>15. SlotOK(Released(slots[r][J], n))
  <2>1. SlotOK(slots[r][J])
    BY <1>2, <1>12
  <2>2. SlotOK(NoSlot)
    BY DEF SlotOK, NoSlot
  <2>3. SlotOK([slots[r][J] EXCEPT !.counter = @ - n])
    BY <1>2, <2>1 DEF SlotOK
  <2> QED
    BY <2>2, <2>3 DEF Released
<1>16. TypeOK'
  <2>1. slots' = [q \in Rank |-> [K \in Sup |-> slots'[q][K]]]
    BY <1>13
  <2>2. \A q \in Rank, K \in Sup : SlotOK(slots'[q][K])
    BY <1>12, <1>14, <1>15
  <2>3. toFree' \in [Rank -> Int]
    BY <1>1, <1>2, <1>12
  <2>4. releases' \subseteq Rpcs
    BY <1>1 DEF IInv, TypeOK
  <2>5. /\ UNCHANGED <<pc, taskCnt, ready, avail, inCnt, availCnt, net, data, thens>>
        /\ UNCHANGED <<inbox, rightCnt, upCnt, executed>>
    BY <1>1
  <2> HIDE <1>1
  <2>6. TypeOK
    BY DEF IInv
  <2> QED
    BY <2>1, <2>2, <2>3, <2>4, <2>5, <2>6 DEF TypeOK
<1>17. \A v \in Task : Attached(v)' = Attached(v)
  BY <1>1 DEF Attached
<1>18. \A v \in Task : /\ Unsignalled(v)' = Unsignalled(v)
                       /\ Awaited(v)' = Awaited(v)
                       /\ Undelivered(v)' = Undelivered(v)
  BY <1>1, <1>17 DEF Unsignalled, Awaited, Inputs, Undelivered, Delivered
<1>19. DepExact'
  BY <1>1, <1>18 DEF IInv, DepExact
<1>20. AvailExact'
  BY <1>1, <1>18 DEF IInv, AvailExact
<1>21. CallbacksExact'
  BY <1>1, <1>17 DEF IInv, CallbacksExact
<1>22. AnnouncedOnce'
  BY <1>1 DEF IInv, AnnouncedOnce, Announced
<1>23. SentExact'
  BY <1>1 DEF IInv, SentExact, SentSoFar
<1>24. ReadyExact'
  BY <1>1 DEF IInv, ReadyExact
(* A rank that has waited for its slots has nothing left to get back.      *)
<1>25. LoopExact'
  <2>1. ~(Quiesce /\ pc[r] \in {"barrier", "end"})
    <3>1. toFree[r] = Cardinality(Lent(r))
      BY <1>2 DEF IInv, SlotsExact
    <3>2. toFree[r] # 0
      BY <1>2, <1>10, <3>1
    <3> QED
      BY <1>2, <3>2 DEF IInv, LoopExact
  <2>2. \A q \in Rank : q # r => toFree'[q] = toFree[q]
    BY <1>1, <1>12
  <2> QED
    BY <1>1, <2>1, <2>2 DEF IInv, LoopExact
<1>26. SlotsExact'
  <2>1. \A d \in releases' : ~Diag(d[1]) /\ data'[d] = "landed"
    BY <1>1 DEF IInv, SlotsExact
  <2>2. \A q \in Rank : toFree'[q] = Cardinality(Lent(q)')
    <3>1. \A q \in Rank : toFree[q] = Cardinality(Lent(q))
      BY DEF IInv, SlotsExact
    <3>2. \A q \in Rank : toFree'[q] = IF q = r THEN toFree[r] - n ELSE toFree[q]
      BY <1>1, <1>12
    <3> QED
      BY <1>2, <1>8, <1>10, <3>1, <3>2
  <2>3. ASSUME NEW q \in Rank, NEW K \in Sup
        PROVE  IF Home(K, K) = q
               THEN FUC(K, K) \in executed => slots'[q][K].there
               ELSE /\ slots'[q][K].counter = Cardinality(LentFor(q, K)')
                    /\ slots'[q][K].there <=> LentFor(q, K)' # {}
                    /\ ~slots'[q][K].there => slots'[q][K] = NoSlot
    <3>1. IF Home(K, K) = q
          THEN FUC(K, K) \in executed => slots[q][K].there
          ELSE /\ slots[q][K].counter = Cardinality(LentFor(q, K))
               /\ slots[q][K].there <=> LentFor(q, K) # {}
               /\ ~slots[q][K].there => slots[q][K] = NoSlot
      BY DEF IInv, SlotsExact
    <3>2. CASE q # r \/ K # J
      <4>1. slots'[q][K] = slots[q][K] /\ LentFor(q, K)' = LentFor(q, K)
        BY <1>8, <1>14, <3>2
      <4> QED
        BY <3>1, <4>1
    <3>3. CASE q = r /\ K = J
      <4>1. Home(K, K) # q
        BY <1>2, <3>3 DEF Contributes, Away
      <4>2. /\ slots[r][J].counter = Cardinality(LentFor(r, J))
            /\ slots[r][J].there <=> LentFor(r, J) # {}
            /\ ~slots[r][J].there => slots[r][J] = NoSlot
        BY <3>1, <3>3, <4>1
      <4>3. slots'[r][J] = Released(slots[r][J], n)
        BY <1>2, <1>14
      <4>4. slots[r][J].there
        <5>1. P # {}
          BY <1>2, FS_EmptySet
        <5> QED
          BY <1>9, <4>2, <5>1
      <4>5. CASE slots[r][J].counter = n
        <5>1. slots'[r][J] = NoSlot
          BY <4>3, <4>5 DEF Released
        <5>2. Cardinality(LentFor(r, J)') = 0
          BY <1>2, <1>11, <4>2, <4>5
        <5>3. LentFor(r, J)' = {}
          BY <1>11, <5>2, FS_EmptySet
        <5>4. slots'[r][J].counter = 0 /\ slots'[r][J].there = FALSE
          BY <5>1 DEF NoSlot
        <5> QED
          BY <3>3, <4>1, <5>1, <5>2, <5>3, <5>4
      <4>6. CASE slots[r][J].counter # n
        <5>1. slots'[r][J] = [slots[r][J] EXCEPT !.counter = @ - n]
          BY <4>3, <4>6 DEF Released
        <5>2. SlotOK(slots[r][J])
          BY <1>2, <1>12
        <5>3. /\ slots'[r][J].counter = slots[r][J].counter - n
              /\ slots'[r][J].there = slots[r][J].there
          BY <5>1, <5>2 DEF SlotOK
        <5>4. slots'[r][J].counter = Cardinality(LentFor(r, J)')
          BY <1>11, <4>2, <5>3
        <5>5. Cardinality(LentFor(r, J)') # 0
          BY <1>2, <1>11, <4>2, <4>6
        <5>6. LentFor(r, J)' # {}
          BY <5>5, FS_EmptySet
        <5> QED
          BY <3>3, <4>1, <4>4, <5>3, <5>4, <5>6
      <4> QED
        BY <4>5, <4>6
    <3> QED
      BY <3>2, <3>3
  <2> QED
    BY <1>1, <2>1, <2>2, <2>3 DEF SlotsExact
<1> QED
  BY <1>16, <1>19, <1>20, <1>21, <1>22, <1>23, <1>24, <1>25, <1>26 DEF IInv

-----------------------------------------------------------------------------
(* A task is executed.                                                     *)

LEMMA ComputedShape ==
  ASSUME NEW t \in Task, NEW slot, SlotOK(slot)
  PROVE  /\ SlotOK(Computed(t, slot))
         /\ Computed(t, slot).counter =
              slot.counter + (IF ~Diag(t) /\ First(t) THEN DepCnt(t) ELSE 0)
         /\ (slot.there \/ t.op = "FUC" \/ Contributes(t)) => Computed(t, slot).there
<1>1. /\ slot = [there |-> slot.there, counter |-> slot.counter, value |-> slot.value]
      /\ slot.there \in BOOLEAN /\ slot.counter \in Int
  BY DEF SlotOK
<1>2. ~Diag(t) /\ First(t) => DepCnt(t) \in Nat
  BY DepCntIsPeers DEF First, Contributes
<1> DEFINE n == IF First(t) THEN DepCnt(t) ELSE 0
<1>3. ~Diag(t) => n \in Int /\ slot.counter + n \in Int
  BY <1>1, <1>2
<1>4. t.op \in {"FUC", "BUC"}
  BY TaskShape
<1>5. CASE t.op = "FUC" /\ Diag(t)
  <2>1. PICK v : Computed(t, slot) = [slot EXCEPT !.there = TRUE, !.value = v]
    BY <1>5 DEF Computed, ForwardDiag
  <2>2. Computed(t, slot) =
          [there |-> TRUE, counter |-> slot.counter, value |-> v]
    BY <1>1, <2>1
  <2>3. SlotOK(Computed(t, slot)) /\ Computed(t, slot).there
    BY <1>1, <2>2 DEF SlotOK
  <2>4. Computed(t, slot).counter = slot.counter
    BY <2>2
  <2> QED
    BY <1>1, <1>5, <2>3, <2>4
<1>6. CASE t.op = "FUC" /\ ~Diag(t)
  <2>1. PICK v : Computed(t, slot) =
                   [slot EXCEPT !.there = TRUE, !.value = v, !.counter = @ + n]
    BY <1>6 DEF Computed, ForwardOff
  <2> HIDE DEF n
  <2>2. Computed(t, slot) =
          [there |-> TRUE, counter |-> slot.counter + n, value |-> v]
    BY <1>1, <2>1
  <2>3. SlotOK(Computed(t, slot)) /\ Computed(t, slot).there
    BY <1>3, <1>6, <2>2 DEF SlotOK
  <2>4. Computed(t, slot).counter = slot.counter + n
    BY <2>2
  <2> QED
    BY <1>6, <2>3, <2>4 DEF n
<1>7. CASE t.op = "BUC" /\ Diag(t)
  <2>1. PICK v : Computed(t, slot) = [slot EXCEPT !.value = v]
    BY <1>7 DEF Computed, BackwardDiag
  <2> QED
    BY <1>1, <1>7, <2>1 DEF SlotOK, Contributes
<1>8. CASE t.op = "BUC" /\ ~Diag(t) /\ Away(t)
  <2>1. PICK v : Computed(t, slot) =
                   [slot EXCEPT !.there = TRUE, !.value = v, !.counter = @ + n]
    BY <1>8 DEF Computed, BackwardOff
  <2> HIDE DEF n
  <2>2. Computed(t, slot) =
          [there |-> TRUE, counter |-> slot.counter + n, value |-> v]
    BY <1>1, <2>1
  <2>3. SlotOK(Computed(t, slot)) /\ Computed(t, slot).there
    BY <1>3, <1>8, <2>2 DEF SlotOK
  <2>4. Computed(t, slot).counter = slot.counter + n
    BY <2>2
  <2> QED
    BY <1>8, <2>3, <2>4 DEF n
<1>9. CASE t.op = "BUC" /\ ~Diag(t) /\ ~Away(t)
  <2>1. PICK v : Computed(t, slot) = [slot EXCEPT !.value = v]
    BY <1>9 DEF Computed, BackwardOff
  <2> QED
    BY <1>1, <1>9, <2>1 DEF SlotOK, Contributes, First
<1> QED
  BY <1>4, <1>5, <1>6, <1>7, <1>8, <1>9

(* A diagonal task computes where its supernode is.                        *)
LEMMA AwayIsOff ==
  ASSUME NEW t \in Task, Away(t)
  PROVE  ~Diag(t) /\ Contributes(t)
<1>1. ~Diag(t)
  BY TaskShape DEF Away, Diag, Goal
<1> QED
  BY <1>1 DEF Contributes

LEMMA ExecuteFacts ==
  ASSUME IInv, NEW r \in Rank, NEW t \in Task, Execute(r, t)
  PROVE  /\ t \in ready /\ t \notin executed /\ t.rank = r
         /\ executed' = executed \cup {t} /\ ready' = ready \ {t}
         /\ pc[r] = "loop" /\ pc' = [pc EXCEPT ![r] = "progress"]
         /\ taskCnt' = [taskCnt EXCEPT ![r] = @ - 1]
         /\ inbox' = [inbox EXCEPT ![r] = @ \o LocalSignals(t)]
         /\ net' = net \cup Announcements(t)
         /\ slots' = [slots EXCEPT ![r][Goal(t)] = Computed(t, @)]
         /\ toFree' = [toFree EXCEPT ![r] =
                         @ + (IF ~Diag(t) /\ First(t) THEN DepCnt(t) ELSE 0)]
         /\ rightCnt' = IF t.op = "FUC" /\ Away(t)
                        THEN [rightCnt EXCEPT ![r][t.row] = @ + 1] ELSE rightCnt
         /\ upCnt' = IF t.op = "BUC" /\ Away(t)
                     THEN [upCnt EXCEPT ![r][t.col] = @ + 1] ELSE upCnt
         /\ UNCHANGED <<avail, inCnt, availCnt, data, thens, releases>>
<1>1. t \in ready /\ t.rank = r
  BY DEF Execute, Run, Top, OnRank
<1>2. t \notin executed
  BY <1>1 DEF IInv, ReadyExact
<1> QED
  BY <1>1, <1>2 DEF Execute, Run

(* A task has announced nothing before it is executed.  A diagonal task    *)
(* announces its slot to all who read it, a contribution only if it is the *)
(* last one.                                                               *)
LEMMA LastSends ==
  ASSUME IInv, NEW t \in Task, Contributes(t), t \notin executed
  PROVE  /\ LastToSend(t) <=> Peers(t) \subseteq executed \cup {t}
         /\ First(t) <=> Peers(t) \cap executed = {}
<1> DEFINE P == Peers(t)
           E == P \cap executed
<1>1. ~Diag(t) /\ Away(t)
  BY DEF Contributes
<1>2. /\ t \in P /\ IsFiniteSet(P) /\ Cardinality(P) \in Nat
  BY <1>1, PeersShape
<1>3. SentSoFar(t) = Cardinality(E) /\ DepCnt(t) = Cardinality(P)
  BY DepCntIsPeers DEF IInv, SentExact
<1>4. t \notin E /\ E \cup {t} \subseteq P
  BY <1>2
<1>5. P \subseteq executed \cup {t} <=> E \cup {t} = P
  BY <1>2
<1> HIDE DEF P, E
<1>6. IsFiniteSet(E) /\ Cardinality(E) \in Nat /\ IsFiniteSet(E \cup {t})
  BY <1>2, <1>4, FS_Subset, FS_CardinalityType
<1>7. Cardinality(E \cup {t}) = Cardinality(E) + 1
  BY <1>4, <1>6, FS_AddElement
<1>8. Cardinality(E) = 0 <=> E = {}
  BY <1>6, FS_EmptySet
<1>9. Cardinality(E \cup {t}) = Cardinality(P) => E \cup {t} = P
  <2>1. E \cup {t} \in SUBSET P
    BY <1>4
  <2>2. /\ Cardinality(P \ (E \cup {t})) = Cardinality(P) - Cardinality(E \cup {t})
        /\ IsFiniteSet(P \ (E \cup {t}))
    BY <1>2, <2>1, TakeAway
  <2>3. Cardinality(E \cup {t}) = Cardinality(P) => P \ (E \cup {t}) = {}
    BY <1>2, <2>2, FS_EmptySet
  <2> QED
    BY <1>4, <2>3
<1>10. LastToSend(t) <=> P \subseteq executed \cup {t}
  BY <1>3, <1>5, <1>7, <1>9 DEF LastToSend
<1>11. First(t) <=> E = {}
  BY <1>1, <1>3, <1>8 DEF First
<1> QED
  BY <1>10, <1>11 DEF P, E

LEMMA AnnouncedRpcs ==
  ASSUME IInv, NEW t \in Task, t \notin executed
  PROVE  /\ Announcements(t) \subseteq Rpcs
         /\ \A m \in Rpcs : m \in Announcements(t) <=>
              m[1] = t /\ (Diag(t) \/ Peers(t) \subseteq executed \cup {t})
         /\ \A m \in Rpcs : m[1] = t => ~Announced(m)
<1>1. \A q \in OtherRanks(t) : <<t, q>> \in Rpcs
  <2>1. \A q \in OtherRanks(t) : q \in Rank
    BY EdgeShape, TaskShape DEF OtherRanks
  <2> QED
    BY <2>1 DEF Rpcs
<1>2. \A m \in Rpcs : m[1] = t => m[2] \in OtherRanks(t) /\ m = <<t, m[2]>>
  BY RpcShape DEF Rpcs
<1>3. \A m \in Rpcs : m[1] = t => Diag(t) \/ Contributes(t)
  BY RpcShape
<1>4. Announcements(t) \subseteq Rpcs
  BY <1>1 DEF Announcements
<1>5. \A m \in Rpcs : m \in Announcements(t) <=> m[1] = t /\ (Diag(t) \/ LastToSend(t))
  BY <1>2 DEF Announcements
<1>6. \A m \in Rpcs : m \in Announcements(t) <=>
              m[1] = t /\ (Diag(t) \/ Peers(t) \subseteq executed \cup {t})
  BY <1>3, <1>5, LastSends
<1>7. \A m \in Rpcs : m[1] = t => ~Announced(m)
  <2>1. ~Diag(t) => t \in Peers(t)
    BY PeersShape
  <2> QED
    BY <2>1 DEF IInv, AnnouncedOnce
<1> QED
  BY <1>4, <1>6, <1>7

LEMMA ExecuteAnnounces ==
  ASSUME IInv, NEW r \in Rank, NEW t \in Task, Execute(r, t)
  PROVE  AnnouncedOnce'
<1>1. /\ t \notin executed /\ executed' = executed \cup {t} /\ data' = data
      /\ net' = net \cup Announcements(t)
  BY ExecuteFacts
<1>2. /\ \A m \in Rpcs : m \in Announcements(t) <=>
              m[1] = t /\ (Diag(t) \/ Peers(t) \subseteq executed \cup {t})
      /\ \A m \in Rpcs : m[1] = t => ~Announced(m)
  BY <1>1, AnnouncedRpcs
<1>3. \A m \in Rpcs : Announced(m)' <=> Announced(m) \/ m \in Announcements(t)
  BY <1>1 DEF Announced
<1>4. ASSUME NEW m \in Rpcs
      PROVE  /\ m \in net => data[m] = "absent"
             /\ Diag(m[1]) => (Announced(m) <=> m[1] \in executed)
             /\ ~Diag(m[1]) /\ Announced(m) =>
                  /\ Peers(m[1]) \subseteq executed
                  /\ \A n \in Rpcs : n[1] \in Peers(m[1]) /\ Announced(n) => n = m
  BY DEF IInv, AnnouncedOnce
<1>5. ASSUME NEW m \in Rpcs, m \in net'
      PROVE  data'[m] = "absent"
  BY <1>1, <1>2, <1>4, <1>5 DEF Announced
<1>6. ASSUME NEW m \in Rpcs, Diag(m[1])
      PROVE  Announced(m)' <=> m[1] \in executed'
  BY <1>1, <1>2, <1>3, <1>4, <1>6
<1>7. ASSUME NEW m \in Rpcs, ~Diag(m[1]), Announced(m)'
      PROVE  /\ Peers(m[1]) \subseteq executed'
             /\ \A n \in Rpcs : n[1] \in Peers(m[1]) /\ Announced(n)' => n = m
  <2>1. m[1] \in Task
    BY RpcShape
  <2>2. CASE Announced(m)
    <3>1. Peers(m[1]) \subseteq executed
      BY <1>4, <1>7, <2>2
    <3>2. \A n \in Rpcs : n[1] \in Peers(m[1]) => n \notin Announcements(t)
      BY <1>1, <1>2, <3>1
    <3> QED
      BY <1>1, <1>3, <1>4, <1>7, <2>2, <3>1, <3>2
  <2>3. CASE ~Announced(m)
    <3>1. m[1] = t /\ Peers(t) \subseteq executed \cup {t}
      BY <1>2, <1>3, <1>7, <2>3
    <3>2. ASSUME NEW n \in Rpcs, n[1] \in Peers(t), Announced(n)'
          PROVE  n = m
      <4>1. ~Diag(n[1]) /\ Peers(n[1]) = Peers(t) /\ t \in Peers(t)
        BY <1>7, <3>1, <3>2, PeersShape
      <4>2. ~Announced(n)
        BY <1>1, <1>4, <4>1
      <4>3. n[1] = t
        BY <1>2, <1>3, <3>2, <4>2
      <4>4. /\ m = <<m[1], m[2]>> /\ n = <<n[1], n[2]>>
            /\ m[2] = Final(m[1]).rank /\ n[2] = Final(n[1]).rank
        BY <1>7, <4>1, RpcShape
      <4> QED
        BY <3>1, <4>3, <4>4
    <3> QED
      BY <1>1, <3>1, <3>2
  <2> QED
    BY <2>2, <2>3
<1> QED
  BY <1>5, <1>6, <1>7 DEF AnnouncedOnce

LEMMA ExecuteSends ==
  ASSUME IInv, NEW r \in Rank, NEW t \in Task, Execute(r, t)
  PROVE  /\ SentExact'
         /\ rightCnt' \in [Rank -> [Sup -> Int]] /\ upCnt' \in [Rank -> [Sup -> Int]]
<1>1. /\ t \notin executed /\ executed' = executed \cup {t} /\ t.rank = r
      /\ rightCnt' = IF t.op = "FUC" /\ Away(t)
                     THEN [rightCnt EXCEPT ![r][t.row] = @ + 1] ELSE rightCnt
      /\ upCnt' = IF t.op = "BUC" /\ Away(t)
                  THEN [upCnt EXCEPT ![r][t.col] = @ + 1] ELSE upCnt
  BY ExecuteFacts
<1>2. rightCnt \in [Rank -> [Sup -> Int]] /\ upCnt \in [Rank -> [Sup -> Int]]
  BY DEF IInv, TypeOK
<1>3. \A v \in Task : /\ v.row \in Sup /\ v.col \in Sup /\ v.rank \in Rank
                      /\ v.op \in {"FUC", "BUC"}
  BY TaskShape
<1>4. /\ \A q \in Rank, J \in Sup :
           rightCnt'[q][J] = rightCnt[q][J] +
             (IF t.op = "FUC" /\ Away(t) /\ q = r /\ J = t.row THEN 1 ELSE 0)
      /\ rightCnt' \in [Rank -> [Sup -> Int]]
  BY <1>1, <1>2, <1>3
<1>5. /\ \A q \in Rank, J \in Sup :
           upCnt'[q][J] = upCnt[q][J] +
             (IF t.op = "BUC" /\ Away(t) /\ q = r /\ J = t.col THEN 1 ELSE 0)
      /\ upCnt' \in [Rank -> [Sup -> Int]]
  BY <1>1, <1>2, <1>3
<1>6. ASSUME NEW v \in Task, Contributes(v)
      PROVE  SentSoFar(v)' = Cardinality(Peers(v) \cap executed')
  <2>1. ~Diag(v) /\ Away(v)
    BY <1>6 DEF Contributes
  <2>2. t \in Peers(v) <=> /\ t.op = v.op /\ Away(t) /\ t.rank = v.rank
                           /\ Goal(t) = Goal(v)
    <3>1. t \in Peers(v) => Away(t)
      BY <2>1, PeersShape
    <3>2. Away(t) => ~Diag(t)
      BY AwayIsOff
    <3> QED
      BY <3>1, <3>2 DEF Peers
  <2>3. SentSoFar(v)' = SentSoFar(v) + (IF t \in Peers(v) THEN 1 ELSE 0)
    <3>1. CASE v.op = "FUC"
      BY <1>1, <1>3, <1>4, <2>2, <3>1 DEF SentSoFar, Goal
    <3>2. CASE v.op = "BUC"
      BY <1>1, <1>3, <1>5, <2>2, <3>2 DEF SentSoFar, Goal
    <3> QED
      BY <1>3, <3>1, <3>2
  <2>4. SentSoFar(v) = Cardinality(Peers(v) \cap executed)
    BY <1>6 DEF IInv, SentExact
  <2>5. IsFiniteSet(Peers(v) \cap executed)
    BY <2>1, PeersShape, FS_Subset
  <2>6. CASE t \in Peers(v)
    <3>1. /\ Peers(v) \cap executed' = (Peers(v) \cap executed) \cup {t}
          /\ t \notin Peers(v) \cap executed
      BY <1>1, <2>6
    <3> QED
      BY <2>3, <2>4, <2>5, <2>6, <3>1, FS_AddElement
  <2>7. CASE t \notin Peers(v)
    <3>1. Peers(v) \cap executed' = Peers(v) \cap executed
      BY <1>1, <2>7
    <3>2. Cardinality(Peers(v) \cap executed) \in Nat
      BY <2>5, FS_CardinalityType
    <3>3. SentSoFar(v)' = SentSoFar(v) + 0
      BY <2>3, <2>7
    <3> HIDE <2>3
    <3>4. SentSoFar(v)' = SentSoFar(v)
      BY <2>4, <3>2, <3>3
    <3> QED
      BY <2>4, <3>1, <3>4
  <2> QED
    BY <2>6, <2>7
<1> QED
  BY <1>4, <1>5, <1>6 DEF SentExact

(* The first of the contributions to a slot makes all of them lent; a      *)
(* later one changes nothing.                                              *)
LEMMA ExecuteLends ==
  ASSUME IInv, NEW r \in Rank, NEW t \in Task, Execute(r, t)
  PROVE  /\ (Contributes(t) /\ First(t)) =>
              /\ Peers(t) \cap Lent(r) = {}
              /\ \A q : Lent(q)' = IF q = r THEN Lent(r) \cup Peers(t) ELSE Lent(q)
         /\ ~(Contributes(t) /\ First(t)) => \A q : Lent(q)' = Lent(q)
<1>1. /\ t \notin executed /\ executed' = executed \cup {t} /\ t.rank = r
      /\ UNCHANGED <<data, releases>>
  BY ExecuteFacts
<1>2. \A v \in Task : GivenBack(v)' <=> GivenBack(v)
  BY <1>1 DEF GivenBack
<1>3. \A v \in Task : Contributes(v)' <=> Contributes(v)
  BY DEF Contributes
<1>4. ASSUME NEW v \in Task, Contributes(v), ~Contributes(t)
      PROVE  t \notin Peers(v)
  BY <1>4, PeersShape DEF Contributes
<1>5. ASSUME NEW v \in Task, Contributes(v), Contributes(t)
      PROVE  t \in Peers(v) <=> v \in Peers(t)
  <2>1. v \in Peers(v) /\ t \in Peers(t)
    BY <1>5, PeersShape DEF Contributes
  <2>2. t \in Peers(v) => Peers(t) = Peers(v)
    BY <1>5, PeersShape DEF Contributes
  <2>3. v \in Peers(t) => Peers(t) = Peers(v)
    BY <1>5, PeersShape DEF Contributes
  <2> QED
    BY <2>1, <2>2, <2>3
<1>6. CASE ~Contributes(t)
  <2>1. \A v \in Task : Contributes(v) =>
          (Peers(v) \cap executed' # {} <=> Peers(v) \cap executed # {})
    BY <1>1, <1>4, <1>6
  <2>2. \A q : Lent(q)' = Lent(q)
    BY <1>2, <1>3, <2>1 DEF Lent
  <2> QED
    BY <1>6, <2>2
<1>7. CASE Contributes(t)
  <2> DEFINE P == Peers(t)
  <2>1. /\ P \subseteq Task /\ t \in P
        /\ \A v \in P : v.rank = r /\ Contributes(v) /\ Peers(v) = P
    BY <1>1, <1>7, PeersShape DEF Contributes
  <2>2. First(t) <=> P \cap executed = {}
    BY <1>1, <1>7, LastSends
  <2>3. \A v \in Task : Contributes(v) => (t \in Peers(v) <=> v \in P)
    BY <1>5, <1>7
  <2>4. ASSUME NEW v \in P
        PROVE  ~GivenBack(v)
    <3> SUFFICES ASSUME NEW m \in Rpcs, m[1] \in Peers(v), data[m] = "landed"
                 PROVE  FALSE
      BY DEF GivenBack
    <3>1. m[1] \in P
      BY <2>1
    <3>2. ~Diag(m[1]) /\ Announced(m) /\ Peers(m[1]) = P
      BY <1>7, <3>1, PeersShape DEF Contributes, Announced
    <3>3. Peers(m[1]) \subseteq executed
      BY <3>2 DEF IInv, AnnouncedOnce
    <3> QED
      BY <1>1, <2>1, <3>2, <3>3
  <2> HIDE DEF P
  <2>5. \A v \in Task : Contributes(v) =>
          (Peers(v) \cap executed' # {} <=> v \in P \/ Peers(v) \cap executed # {})
    BY <1>1, <2>3
  <2>6. \A q : Lent(q)' = IF q = r THEN Lent(r) \cup P ELSE Lent(q)
    <3> SUFFICES ASSUME NEW q
                 PROVE  Lent(q)' = IF q = r THEN Lent(r) \cup P ELSE Lent(q)
      OBVIOUS
    <3>1. Lent(q)' = {v \in Task : /\ v.rank = q /\ Contributes(v)
                                   /\ Peers(v) \cap executed' # {} /\ ~GivenBack(v)}
      BY <1>2, <1>3 DEF Lent
    <3> QED
      BY <2>1, <2>4, <2>5, <3>1 DEF Lent
  <2>7. CASE First(t)
    <3>1. P \cap Lent(r) = {}
      BY <2>1, <2>2, <2>7 DEF Lent
    <3> QED
      BY <1>7, <2>6, <2>7, <3>1 DEF P
  <2>8. CASE ~First(t)
    <3>1. P \subseteq Lent(r)
      BY <2>1, <2>2, <2>4, <2>8 DEF Lent
    <3> QED
      BY <1>7, <2>6, <2>8, <3>1
  <2> QED
    BY <2>7, <2>8
<1> QED
  BY <1>6, <1>7

LEMMA SlotsStep ==
  ASSUME IInv, NEW r \in Rank, NEW t \in Task, Execute(r, t)
  PROVE  /\ SlotsExact' /\ toFree' \in [Rank -> Int]
         /\ slots' = [q \in Rank |-> [K \in Sup |-> slots'[q][K]]]
         /\ \A q \in Rank, K \in Sup : SlotOK(slots'[q][K])
<1> DEFINE J == Goal(t)
           n == IF ~Diag(t) /\ First(t) THEN DepCnt(t) ELSE 0
           P == Peers(t)
           new == Computed(t, slots[r][J])
<1>1. /\ t \notin executed /\ executed' = executed \cup {t} /\ t.rank = r
      /\ slots' = [slots EXCEPT ![r][J] = Computed(t, @)]
      /\ toFree' = [toFree EXCEPT ![r] = @ + n]
      /\ UNCHANGED <<data, releases>>
  BY ExecuteFacts
<1>2. /\ slots = [q \in Rank |-> [K \in Sup |-> slots[q][K]]]
      /\ \A q \in Rank, K \in Sup : SlotOK(slots[q][K])
      /\ toFree \in [Rank -> Int]
  BY DEF IInv, TypeOK
<1>3. J \in Sup
  BY GoalShape
<1>4. slots' = [q \in Rank |-> [K \in Sup |->
                  IF q = r /\ K = J THEN new ELSE slots[q][K]]]
  <2> HIDE DEF J
  <2> QED
    BY <1>1, <1>2, <1>3
<1>5. \A q \in Rank, K \in Sup :
        slots'[q][K] = IF q = r /\ K = J THEN new ELSE slots[q][K]
  <2> HIDE DEF J, new
  <2> QED
    BY <1>4
<1>6. SlotOK(slots[r][J])
  BY <1>2, <1>3
<1>7. /\ SlotOK(new) /\ new.counter = slots[r][J].counter + n
      /\ (slots[r][J].there \/ t.op = "FUC" \/ Contributes(t)) => new.there
  BY <1>6, ComputedShape
<1>8. slots[r][J].counter \in Int
  BY <1>6 DEF SlotOK
<1>9. ~Diag(t) /\ First(t) <=> Contributes(t) /\ First(t)
  BY DEF Contributes, First
<1>10. Contributes(t) => /\ DepCnt(t) = Cardinality(P) /\ DepCnt(t) \in Nat \ {0}
                         /\ IsFiniteSet(P) /\ t \in P
                         /\ \A v \in P : v.rank = r /\ Goal(v) = J
  BY <1>1, DepCntIsPeers, PeersShape DEF Contributes
<1>11. /\ (Contributes(t) /\ First(t)) =>
             /\ P \cap Lent(r) = {}
             /\ \A q : Lent(q)' = IF q = r THEN Lent(r) \cup P ELSE Lent(q)
       /\ ~(Contributes(t) /\ First(t)) => \A q : Lent(q)' = Lent(q)
  BY ExecuteLends
<1>12. n \in Nat
  BY <1>9, <1>10
<1> HIDE DEF new, P, J
<1>13. \A q : Cardinality(Lent(q)') = Cardinality(Lent(q)) + (IF q = r THEN n ELSE 0)
  <2> SUFFICES ASSUME NEW q
               PROVE  Cardinality(Lent(q)')
                        = Cardinality(Lent(q)) + (IF q = r THEN n ELSE 0)
    OBVIOUS
  <2>1. IsFiniteSet(Lent(q)) /\ Cardinality(Lent(q)) \in Nat
    BY LentFinite
  <2>2. CASE Contributes(t) /\ First(t) /\ q = r
    <3>1. /\ Lent(q)' = Lent(q) \cup P /\ Lent(q) \cap P = {}
          /\ n = Cardinality(P) /\ IsFiniteSet(P)
      BY <1>9, <1>10, <1>11, <2>2
    <3>2. IsFiniteSet(Lent(q)')
      BY <2>1, <3>1, FS_Union
    <3>3. Cardinality(Lent(q)') = Cardinality(Lent(q)) + Cardinality(P)
      BY <3>1, <3>2, SplitCount
    <3> QED
      BY <2>2, <3>1, <3>3
  <2>3. CASE ~(Contributes(t) /\ First(t)) \/ q # r
    <3>1. Lent(q)' = Lent(q) /\ (q = r => n = 0)
      BY <1>9, <1>11, <2>3
    <3> QED
      BY <2>1, <3>1
  <2> QED
    BY <2>2, <2>3
<1>14. \A q \in Rank, K \in Sup :
         /\ Cardinality(LentFor(q, K)') =
              Cardinality(LentFor(q, K)) + (IF q = r /\ K = J THEN n ELSE 0)
         /\ LentFor(q, K) \subseteq LentFor(q, K)'
         /\ q # r \/ K # J => LentFor(q, K)' = LentFor(q, K)
         /\ n # 0 => LentFor(r, J)' # {}
         /\ n = 0 => LentFor(q, K)' = LentFor(q, K)
  <2> SUFFICES ASSUME NEW q \in Rank, NEW K \in Sup
               PROVE  /\ Cardinality(LentFor(q, K)') =
                           Cardinality(LentFor(q, K)) + (IF q = r /\ K = J THEN n ELSE 0)
                      /\ LentFor(q, K) \subseteq LentFor(q, K)'
                      /\ q # r \/ K # J => LentFor(q, K)' = LentFor(q, K)
                      /\ n # 0 => LentFor(r, J)' # {}
                      /\ n = 0 => LentFor(q, K)' = LentFor(q, K)
    OBVIOUS
  <2>1. IsFiniteSet(LentFor(q, K)) /\ Cardinality(LentFor(q, K)) \in Nat
    BY LentFinite
  <2>2. CASE Contributes(t) /\ First(t)
    <3>0. /\ n = Cardinality(P) /\ n # 0 /\ IsFiniteSet(P) /\ t \in P
          /\ \A v \in P : v.rank = r /\ Goal(v) = J
          /\ P \cap Lent(r) = {}
          /\ \A p : Lent(p)' = IF p = r THEN Lent(r) \cup P ELSE Lent(p)
      BY <1>9, <1>10, <1>11, <2>2
    <3>1. LentFor(r, J)' = LentFor(r, J) \cup P /\ LentFor(r, J) \cap P = {}
      BY <3>0 DEF LentFor
    <3>2. q # r \/ K # J => LentFor(q, K)' = LentFor(q, K)
      BY <3>0 DEF LentFor
    <3>3. LentFor(r, J)' # {}
      BY <3>0, <3>1
    <3>4. CASE q = r /\ K = J
      <4>0. IsFiniteSet(LentFor(q, K) \cup P)
        BY <2>1, <3>0, FS_Union
      <4>1. IsFiniteSet(LentFor(q, K)')
        BY <3>1, <3>4, <4>0
      <4>2. Cardinality(LentFor(q, K)') = Cardinality(LentFor(q, K)) + Cardinality(P)
        BY <3>1, <3>4, <4>1, SplitCount
      <4> QED
        BY <3>0, <3>1, <3>3, <3>4, <4>2
    <3>5. CASE q # r \/ K # J
      BY <2>1, <3>0, <3>2, <3>3, <3>5
    <3> QED
      BY <3>4, <3>5
  <2>3. CASE ~(Contributes(t) /\ First(t))
    <3>1. LentFor(q, K)' = LentFor(q, K) /\ n = 0
      BY <1>9, <1>11, <2>3 DEF LentFor
    <3> QED
      BY <2>1, <3>1
  <2> QED
    BY <2>2, <2>3
<1> HIDE DEF n
<1>15. toFree' \in [Rank -> Int]
  BY <1>1, <1>2, <1>12
<1>16. \A q \in Rank : toFree'[q] = Cardinality(Lent(q)')
  <2>1. \A q \in Rank : toFree[q] = Cardinality(Lent(q))
    BY DEF IInv, SlotsExact
  <2>2. \A q \in Rank : toFree'[q] = toFree[q] + (IF q = r THEN n ELSE 0)
    BY <1>1, <1>2, <1>12
  <2> QED
    BY <1>13, <2>1, <2>2
<1>17. ASSUME NEW q \in Rank, NEW K \in Sup
       PROVE  IF Home(K, K) = q
              THEN FUC(K, K) \in executed' => slots'[q][K].there
              ELSE /\ slots'[q][K].counter = Cardinality(LentFor(q, K)')
                   /\ slots'[q][K].there <=> LentFor(q, K)' # {}
                   /\ ~slots'[q][K].there => slots'[q][K] = NoSlot
  <2>1. IF Home(K, K) = q
        THEN FUC(K, K) \in executed => slots[q][K].there
        ELSE /\ slots[q][K].counter = Cardinality(LentFor(q, K))
             /\ slots[q][K].there <=> LentFor(q, K) # {}
             /\ ~slots[q][K].there => slots[q][K] = NoSlot
    BY DEF IInv, SlotsExact
  <2>2. CASE q # r \/ K # J
    <3>1. slots'[q][K] = slots[q][K] /\ LentFor(q, K)' = LentFor(q, K)
      BY <1>5, <1>14, <2>2
    <3>2. Home(K, K) = q => t # FUC(K, K)
      BY <1>1, <2>2 DEF FUC, TaskOf, Goal, J
    <3> QED
      BY <1>1, <2>1, <3>1, <3>2
  <2>3. CASE q = r /\ K = J
    <3>1. slots'[q][K] = new
      BY <1>5, <2>3
    <3>2. CASE Home(K, K) = q
      <4>1. t = FUC(K, K) => t.op = "FUC"
        BY DEF FUC, TaskOf
      <4>2. FUC(K, K) \in executed' => new.there
        BY <1>1, <1>7, <2>1, <2>3, <3>2, <4>1
      <4> QED
        BY <3>1, <3>2, <4>2
    <3>3. CASE Home(K, K) # q
      <4>1. Contributes(t)
        <5>1. Away(t)
          BY <1>1, <2>3, <3>3 DEF Away, J
        <5> QED
          BY <5>1, AwayIsOff
      <4>2. new.there
        BY <1>7, <4>1
      <4>3. LentFor(r, J)' # {}
        <5>1. CASE First(t)
          <6>1. n # 0
            BY <1>9, <1>10, <4>1, <5>1 DEF n
          <6> QED
            BY <1>3, <1>14, <6>1
        <5>2. CASE ~First(t)
          <6>1. Peers(t) \cap executed # {}
            BY <1>1, <4>1, <5>2, LastSends
          <6>2. t \in LentFor(r, J)'
            <7>1. ~GivenBack(t)
              <8> SUFFICES ASSUME NEW m \in Rpcs, m[1] \in Peers(t),
                                  data[m] = "landed"
                           PROVE  FALSE
                BY DEF GivenBack
              <8>1. ~Diag(m[1]) /\ Announced(m) /\ Peers(m[1]) = Peers(t)
                BY <4>1, PeersShape DEF Contributes, Announced
              <8>2. Peers(m[1]) \subseteq executed
                BY <8>1 DEF IInv, AnnouncedOnce
              <8> QED
                BY <1>1, <1>10, <4>1, <8>1, <8>2 DEF P
            <7>2. t \in LentFor(r, J)
              BY <1>1, <4>1, <6>1, <7>1 DEF LentFor, Lent, J
            <7> QED
              BY <1>3, <1>14, <7>2
          <6> QED
            BY <6>2
        <5> QED
          BY <5>1, <5>2
      <4>4. new.counter = Cardinality(LentFor(r, J)')
        BY <1>3, <1>7, <1>14, <2>1, <2>3, <3>3
      <4> QED
        BY <2>3, <3>1, <3>3, <4>2, <4>3, <4>4
    <3> QED
      BY <3>2, <3>3
  <2> QED
    BY <2>2, <2>3
<1>18. \A m \in releases' : ~Diag(m[1]) /\ data'[m] = "landed"
  BY <1>1 DEF IInv, SlotsExact
<1>19. SlotsExact'
  BY <1>16, <1>17, <1>18 DEF SlotsExact
<1>20. slots' = [q \in Rank |-> [K \in Sup |-> slots'[q][K]]]
  BY <1>4
<1>21. \A q \in Rank, K \in Sup : SlotOK(slots'[q][K])
  BY <1>2, <1>5, <1>7
<1> QED
  BY <1>15, <1>19, <1>20, <1>21

LEMMA ExecuteStep ==
  ASSUME IInv, NEW r \in Rank, NEW t \in Task, Execute(r, t)
  PROVE  IInv'
<1> DEFINE T == TargetsOn(t, r)
           u == LocalSignals(t)
<1>1. /\ t \in ready /\ t \notin executed /\ t.rank = r
      /\ executed' = executed \cup {t} /\ ready' = ready \ {t}
      /\ pc[r] = "loop" /\ pc' = [pc EXCEPT ![r] = "progress"]
      /\ taskCnt' = [taskCnt EXCEPT ![r] = @ - 1]
      /\ inbox' = [inbox EXCEPT ![r] = @ \o u]
      /\ net' = net \cup Announcements(t)
      /\ UNCHANGED <<avail, inCnt, availCnt, data, thens, releases>>
  BY ExecuteFacts
<1>2. Announcements(t) \subseteq Rpcs
  BY <1>1, AnnouncedRpcs
<1>3. AnnouncedOnce'
  BY ExecuteAnnounces
<1>4. /\ SentExact'
      /\ rightCnt' \in [Rank -> [Sup -> Int]] /\ upCnt' \in [Rank -> [Sup -> Int]]
  BY ExecuteSends
<1>5. /\ SlotsExact' /\ toFree' \in [Rank -> Int]
      /\ slots' = [q \in Rank |-> [K \in Sup |-> slots'[q][K]]]
      /\ \A q \in Rank, K \in Sup : SlotOK(slots'[q][K])
  BY SlotsStep
<1>6. pc \in [Rank -> Steps] /\ taskCnt \in [Rank -> Int] /\ toFree \in [Rank -> Int]
  BY DEF IInv, TypeOK
<1>7. T \subseteq OnRank(r, Task) /\ T \in SUBSET Task
  BY EdgeShape DEF TargetsOn, OnRank
<1>8. u = LpcList("dep", T, 1)
  BY <1>1 DEF LocalSignals, LpcList
<1>9. ASSUME NEW v \in Task, v.rank = r
      PROVE  /\ u \in Seq(LpcOf(r))
             /\ Posted("dep", v, u) = (IF v \in T THEN 1 ELSE 0)
             /\ Posted("avail", v, u) = 0
  <2>1. IsFiniteSet(T) /\ 1 \in 1..MaxCount /\ T \subseteq OnRank(v.rank, Task)
    BY <1>7, <1>9, TasksFinite, FS_Subset, MaxCountType
  <2> HIDE DEF T, u
  <2>2. ASSUME NEW n \in 1..MaxCount
        PROVE  /\ LpcList("dep", T, n) \in Seq(LpcOf(r))
               /\ Posted("dep", v, LpcList("dep", T, n)) = (IF v \in T THEN n ELSE 0)
               /\ Posted("avail", v, LpcList("dep", T, n)) = 0
    BY <1>9, <2>1, PostedList
  <2> QED
    BY <1>8, <2>1, <2>2
<1> HIDE DEF u
<1>10. u \in Seq(LpcOf(r))
  BY <1>1, <1>9
<1>11. /\ DOMAIN inbox' = Rank /\ inbox' = [q \in Rank |-> inbox'[q]]
       /\ \A q \in Rank : inbox'[q] \in Seq(LpcOf(q))
  BY <1>1, <1>10, PostLpcs
<1>12. ASSUME NEW v \in Task
       PROVE  /\ Posted("dep", v, inbox[v.rank]) \in Nat
              /\ Posted("avail", v, inbox'[v.rank]) = Posted("avail", v, inbox[v.rank])
              /\ Posted("dep", v, inbox'[v.rank]) =
                   Posted("dep", v, inbox[v.rank]) + (IF v \in T THEN 1 ELSE 0)
  <2>1. ASSUME NEW kind \in {"dep", "avail"}
        PROVE  /\ Posted(kind, v, inbox[v.rank]) \in Nat
               /\ v.rank # r => Posted(kind, v, inbox'[v.rank])
                                    = Posted(kind, v, inbox[v.rank])
               /\ v.rank = r => Posted(kind, v, inbox'[v.rank])
                                    = Posted(kind, v, inbox[v.rank]) + Posted(kind, v, u)
    <3>1. inbox' = [inbox EXCEPT ![r] = @ \o u]
      BY <1>1
    <3> QED
      BY <1>10, <3>1, PostedAfter
  <2>2. v.rank # r => v \notin T
    BY <1>7 DEF OnRank
  <2> HIDE DEF T
  <2>3. CASE v.rank = r
    <3>1. /\ Posted("dep", v, u) = (IF v \in T THEN 1 ELSE 0)
          /\ Posted("avail", v, u) = 0
      BY <1>9, <2>3
    <3> QED
      BY <2>1, <2>3, <3>1
  <2>4. CASE v.rank # r
    BY <2>1, <2>2, <2>4
  <2> QED
    BY <2>3, <2>4
<1>13. TypeOK'
  <2>1. /\ net' \subseteq Rpcs /\ ready' \subseteq Task /\ executed' \subseteq Task
        /\ releases' \subseteq Rpcs
    BY <1>1, <1>2 DEF IInv, TypeOK
  <2>2. pc' \in [Rank -> Steps]
    BY <1>1, <1>6 DEF Steps
  <2>3. taskCnt' \in [Rank -> Int]
    BY <1>1, <1>6
  <2>4. UNCHANGED <<avail, inCnt, availCnt, data, thens>>
    BY <1>1
  <2>5. TypeOK
    BY DEF IInv
  <2> HIDE <1>1
  <2> QED
    BY <1>4, <1>5, <1>11, <2>1, <2>2, <2>3, <2>4, <2>5 DEF TypeOK
<1>14. \A v \in Task : /\ Attached(v)' = Attached(v)
                       /\ Undelivered(v)' = Undelivered(v)
                       /\ Inputs(v)' = Inputs(v)
  <2>1. \A v \in Task : v.rank \in Rank
    BY TaskShape
  <2> QED
    BY <1>1, <1>6, <2>1 DEF Attached, Undelivered, Delivered, Inputs
<1>15. \A v \in Task : Awaited(v)' = Awaited(v)
  BY <1>1, <1>14 DEF Awaited
(* The signals of t to its own rank become lpcs.                           *)
<1>16. DepExact'
  <2> SUFFICES ASSUME NEW v \in Task
               PROVE  inCnt[v] = Cardinality(Unsignalled(v)')
                                   + Cardinality(Undelivered(v))
                                   + Cardinality(Awaited(v))
                                   + Posted("dep", v, inbox'[v.rank])
    BY <1>1, <1>14, <1>15 DEF DepExact
  <2> DEFINE E == {e \in LocalInto(v) : e.from = t}
  <2>1. Unsignalled(v) = Unsignalled(v)' \cup E /\ Unsignalled(v)' \cap E = {}
    BY <1>1 DEF Unsignalled
  <2>2. Cardinality(E) = IF v \in T THEN 1 ELSE 0
    <3>1. CASE v \in T
      <4>1. PICK e \in Edges : e.from = t /\ e.to = v /\ e.to.rank = r
        BY <3>1 DEF TargetsOn
      <4>2. E = {e}
        <5>1. e \in E
          BY <1>1, <4>1 DEF LocalInto
        <5>2. \A f \in E : f = e
          BY <4>1, EdgeEnds DEF LocalInto
        <5> QED
          BY <5>1, <5>2
      <4> QED
        BY <3>1, <4>2, FS_Singleton
    <3>2. CASE v \notin T
      <4>1. E = {}
        BY <1>1, <3>2 DEF LocalInto, TargetsOn
      <4> QED
        BY <3>2, <4>1, FS_EmptySet
    <3> QED
      BY <3>1, <3>2
  <2> HIDE DEF E
  <2>3. /\ Cardinality(Unsignalled(v)) = Cardinality(Unsignalled(v)') + Cardinality(E)
        /\ Cardinality(Unsignalled(v)') \in Nat
    BY <2>1, CountTypes, SplitCount
  <2>4. /\ inCnt[v] = Cardinality(Unsignalled(v)) + Cardinality(Undelivered(v))
                        + Cardinality(Awaited(v)) + Posted("dep", v, inbox[v.rank])
        /\ Cardinality(Undelivered(v)) \in Nat /\ Cardinality(Awaited(v)) \in Nat
    BY CountTypes DEF IInv, DepExact
  <2>5. /\ Posted("dep", v, inbox[v.rank]) \in Nat
        /\ Posted("dep", v, inbox'[v.rank]) =
             Posted("dep", v, inbox[v.rank]) + (IF v \in T THEN 1 ELSE 0)
    BY <1>12
  <2> HIDE DEF T
  <2> QED
    BY <2>2, <2>3, <2>4, <2>5
<1>17. AvailExact'
  <2> SUFFICES ASSUME NEW v \in Task
               PROVE  /\ availCnt[v] = Cardinality(Undelivered(v))
                           + Posted("avail", v, inbox'[v.rank])
                      /\ RemoteInto(v) = {} => availCnt[v] = 0
                      /\ v \in avail => /\ pc'[v.rank] # "before"
                                        /\ availCnt[v] = 0
                                        /\ RemoteInto(v) # {}
    BY <1>1, <1>14 DEF AvailExact
  <2>1. /\ availCnt[v] = Cardinality(Undelivered(v))
                           + Posted("avail", v, inbox[v.rank])
        /\ RemoteInto(v) = {} => availCnt[v] = 0
        /\ v \in avail => /\ pc[v.rank] # "before" /\ availCnt[v] = 0
                          /\ RemoteInto(v) # {}
        /\ v.rank \in Rank
    BY TaskShape DEF IInv, AvailExact
  <2> QED
    BY <1>1, <1>6, <1>12, <2>1
<1>18. CallbacksExact'
  BY <1>1, <1>14 DEF IInv, CallbacksExact
<1>19. ReadyExact'
  <2>1. \A v \in Task : v.rank \in Rank
    BY TaskShape
  <2> QED
    BY <1>1, <1>6, <2>1 DEF IInv, ReadyExact
<1>20. LoopExact'
  <2> SUFFICES ASSUME NEW q \in Rank
               PROVE  /\ taskCnt'[q] = Cardinality(OnRank(q, Task \ executed'))
                      /\ pc'[q] \in {"quiesce", "barrier", "end"} => taskCnt'[q] = 0
                      /\ pc'[q] = "end" =>
                           \A p \in Rank : pc'[p] \in {"barrier", "end"}
                      /\ Quiesce /\ pc'[q] \in {"barrier", "end"} => toFree'[q] = 0
    BY DEF LoopExact
  <2>1. \A p \in Rank : /\ taskCnt[p] = Cardinality(OnRank(p, Task \ executed))
                        /\ pc[p] \in {"quiesce", "barrier", "end"} => taskCnt[p] = 0
                        /\ pc[p] # "end"
                        /\ Quiesce /\ pc[p] \in {"barrier", "end"} => toFree[p] = 0
    BY <1>1 DEF IInv, LoopExact
  <2> DEFINE S0 == OnRank(q, Task \ executed)
  <2>2. IsFiniteSet(S0)
    <3>1. S0 \in SUBSET Task
      BY DEF OnRank
    <3> QED
      BY <3>1, TasksFinite, FS_Subset
  <2>3. OnRank(q, Task \ executed') = S0 \ {t} /\ (t \in S0 <=> q = r)
    BY <1>1 DEF OnRank
  <2> HIDE DEF S0
  <2>4. Cardinality(S0 \ {t}) = IF q = r THEN Cardinality(S0) - 1 ELSE Cardinality(S0)
    BY <2>2, <2>3, FS_RemoveElement
  <2>5. taskCnt'[q] = IF q = r THEN taskCnt[q] - 1 ELSE taskCnt[q]
    BY <1>1, <1>6
  <2>6. taskCnt[q] = Cardinality(S0)
    BY <2>1 DEF S0
  <2>7. q # r => toFree'[q] = toFree[q]
    <3>1. toFree' = [toFree EXCEPT ![r] =
                       @ + (IF ~Diag(t) /\ First(t) THEN DepCnt(t) ELSE 0)]
      BY ExecuteFacts
    <3> QED
      BY <1>6, <3>1
  <2> QED
    BY <1>1, <1>6, <2>1, <2>3, <2>4, <2>5, <2>6, <2>7
<1> QED
  BY <1>3, <1>4, <1>5, <1>13, <1>16, <1>17, <1>18, <1>19, <1>20 DEF IInv

-----------------------------------------------------------------------------
(* Every step.                                                             *)

LEMMA StutterStep ==
  ASSUME IInv, UNCHANGED vars
  PROVE  IInv'
<1>1. /\ UNCHANGED <<pc, taskCnt, taskVars, commVars, inbox, solveVars>>
      /\ toFree' = toFree
  BY DEF vars, loopVars, solveVars, slotVars
<1>2. /\ pc' \in [Rank -> Steps]
      /\ \A q \in Rank : pc'[q] = "before" <=> pc[q] = "before"
      /\ \A q \in Rank : pc'[q] \in {"quiesce", "barrier", "end"} => taskCnt[q] = 0
      /\ \A q \in Rank : pc'[q] = "end" =>
           \A p \in Rank : pc'[p] \in {"barrier", "end"}
      /\ \A q \in Rank : Quiesce /\ pc'[q] \in {"barrier", "end"} => toFree[q] = 0
  BY <1>1 DEF IInv, TypeOK, LoopExact
<1> QED
  BY <1>1, <1>2, QuietStep

LEMMA NextStep ==
  ASSUME IInv, [Next]_vars
  PROVE  IInv'
<1>1. CASE UNCHANGED vars
  BY <1>1, StutterStep
<1>2. CASE Terminated
  BY <1>2, StutterStep DEF Terminated
<1>3. ASSUME NEW r \in Rank, RankStep(r)
      PROVE  IInv'
  <2>1. ASSUME NEW t \in Task, Execute(r, t)
        PROVE  IInv'
    BY <2>1, ExecuteStep
  <2>2. ASSUME NEW t \in Task, Fetch(r, t)
        PROVE  IInv'
    BY <2>2, FetchStep
  <2>3. CASE /\ \/ Turn(r, {t \in Task : RemoteDeps(t) > 0})
                \/ LeaveLoop(r, IF Quiesce THEN "quiesce" ELSE "barrier")
                \/ Quiet(r)
             /\ UNCHANGED solveVars
    <3>1. CASE Start(r, {t \in Task : RemoteDeps(t) > 0})
      BY <2>3, <3>1, StartStep
    <3>2. CASE HandleDep(r)
      BY <2>3, <3>2, HandleDepStep
    <3>3. CASE HandleAvail(r)
      BY <2>3, <3>3, HandleAvailStep
    <3>4. CASE \/ Idle(r) \/ LeaveProgress(r) \/ NothingToFetch(r) \/ PassBarrier(r)
               \/ LeaveLoop(r, IF Quiesce THEN "quiesce" ELSE "barrier") \/ Quiet(r)
      BY <2>3, <3>4, LoopStep
    <3> QED
      BY <2>3, <3>1, <3>2, <3>3, <3>4 DEF Turn
  <2> QED
    BY <1>3, <2>1, <2>2, <2>3 DEF RankStep
<1>4. ASSUME NEW r \in Rank, Reached(r)
      PROVE  IInv'
  BY <1>4, DeliverStep, LandStep, ReleaseStep DEF Reached
<1> QED
  BY <1>1, <1>2, <1>3, <1>4 DEF Next

(* The inductive invariant of the solve: the counters of every task are    *)
(* what stands between it and its last lpc, a message is announced once    *)
(* and for all it stands for, and the counter of a slot is the number of   *)
(* contributions that reserve it.                                          *)
THEOREM SolveInvariant == Spec => []IInv
<1>1. Init => IInv
  BY InitInv
<1>2. IInv /\ [Next]_vars => IInv'
  BY NextStep
<1> QED
  BY <1>1, <1>2, PTL DEF Spec

-----------------------------------------------------------------------------
(* What follows of the counters.                                           *)

LEMMA AllGone ==
  ASSUME NEW a \in Nat, NEW b \in Nat, NEW c \in Nat, NEW d \in Nat,
         NEW n, n = 0, n = a + b + c + d
  PROVE  a = 0 /\ b = 0 /\ c = 0 /\ d = 0
  OBVIOUS

(* The message that carries a signal is an input of the task it is for.    *)
LEMMA CarrierIsInput ==
  ASSUME NEW m \in Rpcs, NEW e \in Edges, e.from.rank # e.to.rank, Carries(m, e),
         data[m] # "absent"
  PROVE  m \in Inputs(e.to)
<1>1. m[2] = e.to.rank /\ m[1] \in Task
  BY RpcShape DEF Carries
<1>2. CASE Diag(m[1])
  BY <1>1, <1>2 DEF Carries, Inputs, TargetsOn
<1>3. CASE ~Diag(m[1])
  <2>1. e.from \in Peers(m[1])
    BY <1>3 DEF Carries
  <2>2. ~Diag(e.from) /\ Final(e.from) = Final(m[1])
    BY <1>1, <1>3, <2>1, PeersShape
  <2>3. e.to = Final(m[1])
    BY <2>2, EdgeShape, ContributionShape
  <2> QED
    BY <1>1, <1>3, <2>3, RpcShape DEF Inputs
<1> QED
  BY <1>2, <1>3

(* Before a task starts, every task that signals it has been executed, and *)
(* the data of those of other ranks has come.                              *)
LEMMA NothingLeft ==
  ASSUME IInv, NEW t \in Task, inCnt[t] = 0
  PROVE  Unsignalled(t) = {} /\ Undelivered(t) = {} /\ Awaited(t) = {}
<1>1. inCnt[t] = Cardinality(Unsignalled(t)) + Cardinality(Undelivered(t))
                 + Cardinality(Awaited(t)) + Posted("dep", t, inbox[t.rank])
  BY DEF IInv, DepExact
<1>2. /\ Cardinality(Unsignalled(t)) \in Nat /\ Cardinality(Undelivered(t)) \in Nat
      /\ Cardinality(Awaited(t)) \in Nat /\ Posted("dep", t, inbox[t.rank]) \in Nat
  BY CountTypes, PostedTypes DEF IInv
<1>3. /\ Cardinality(Unsignalled(t)) = 0 /\ Cardinality(Undelivered(t)) = 0
      /\ Cardinality(Awaited(t)) = 0
  BY <1>1, <1>2, AllGone
<1> QED
  BY <1>3, CountTypes, FS_EmptySet

LEMMA SendersRan ==
  ASSUME IInv, NEW e \in Edges, inCnt[e.to] = 0
  PROVE  /\ e.from \in executed
         /\ e.from.rank # e.to.rank =>
              /\ Attached(e.to)
              /\ \E m \in Rpcs : data[m] = "landed" /\ Carries(m, e) /\ m \in Inputs(e.to)
<1>1. e.to \in Task /\ e.from \in Task
  BY EdgeShape
<1>2. Unsignalled(e.to) = {} /\ Undelivered(e.to) = {} /\ Awaited(e.to) = {}
  BY <1>1, NothingLeft
<1>3. CASE e.from.rank = e.to.rank
  BY <1>2, <1>3 DEF Unsignalled, LocalInto
<1>4. CASE e.from.rank # e.to.rank
  <2>1. Delivered(e)
    BY <1>2, <1>4 DEF Undelivered, RemoteInto
  <2>2. PICK m \in Rpcs : data[m] # "absent" /\ Carries(m, e)
    BY <2>1 DEF Delivered
  <2>3. m \in Inputs(e.to)
    BY <1>4, <2>2, CarrierIsInput
  <2>4. Attached(e.to) /\ data[m] = "landed"
    BY <1>2, <2>3 DEF Awaited
  <2>5. e.from \in executed
    <3>1. Announced(m)
      BY <2>4 DEF Announced
    <3> QED
      BY <2>2, <3>1 DEF IInv, AnnouncedOnce, Carries
  <2> QED
    BY <1>4, <2>2, <2>3, <2>4, <2>5
<1> QED
  BY <1>3, <1>4

Started(t) == t \in Task /\ t \in ready \cup executed

LEMMA StartedZero ==
  ASSUME IInv, NEW t, Started(t)
  PROVE  t \in Task /\ inCnt[t] = 0
BY DEF Started, IInv, ReadyExact

LEMMA CountersFollow ==
  ASSUME IInv
  PROVE  CountersExact
<1> SUFFICES ASSUME NEW t \in Task
             PROVE  /\ inCnt[t] >= 0 /\ availCnt[t] >= 0
                    /\ t \in ready => t \notin executed
                    /\ t \in ready \cup executed => inCnt[t] = 0 /\ availCnt[t] = 0
  BY DEF CountersExact, CountersSound, IInv, TypeOK
<1>1. /\ inCnt[t] = Cardinality(Unsignalled(t)) + Cardinality(Undelivered(t))
                      + Cardinality(Awaited(t)) + Posted("dep", t, inbox[t.rank])
      /\ availCnt[t] = Cardinality(Undelivered(t)) + Posted("avail", t, inbox[t.rank])
      /\ RemoteInto(t) = {} => availCnt[t] = 0
  BY DEF IInv, DepExact, AvailExact
<1>2. /\ Cardinality(Unsignalled(t)) \in Nat /\ Cardinality(Undelivered(t)) \in Nat
      /\ Cardinality(Awaited(t)) \in Nat
      /\ Posted("dep", t, inbox[t.rank]) \in Nat
      /\ Posted("avail", t, inbox[t.rank]) \in Nat
  BY CountTypes, PostedTypes DEF IInv
<1>3. inCnt[t] >= 0 /\ availCnt[t] >= 0
  BY <1>1, <1>2
<1>4. t \in ready => t \notin executed
  BY DEF IInv, ReadyExact
<1>5. ASSUME t \in ready \cup executed PROVE inCnt[t] = 0 /\ availCnt[t] = 0
  <2>1. inCnt[t] = 0
    BY <1>5 DEF IInv, ReadyExact
  <2>2. CASE RemoteInto(t) = {}
    BY <1>1, <2>1, <2>2
  <2>3. CASE RemoteInto(t) # {}
    <3>1. PICK e \in Edges : e.to = t /\ e.from.rank # t.rank
      BY <2>3 DEF RemoteInto
    <3>2. Attached(t)
      BY <2>1, <3>1, SendersRan
    <3> QED
      BY <2>1, <3>2 DEF Attached
  <2> QED
    BY <2>2, <2>3
<1> QED
  BY <1>3, <1>4, <1>5

(* The assertions of satisfy_dep and avail_dep hold although one message   *)
(* stands for several signals; no task is executed twice, and none while a *)
(* signal to it is still to come.                                          *)
THEOREM SolveCountersExact == Spec => []CountersExact
<1>1. IInv => CountersExact
  BY CountersFollow
<1> QED
  BY <1>1, SolveInvariant, PTL

-----------------------------------------------------------------------------
(* The order of the operations.                                            *)

(* What a task needs to have been executed before it.                      *)
LEMMA BelowSends ==
  ASSUME NEW I \in Sup, NEW J \in Struct[I]
  PROVE  /\ J \in Sup /\ J > I /\ I \in Nat /\ J \in Nat /\ J <= NS /\ NS \in Nat
         /\ \E e \in Edges : e.from = FUC(I, I) /\ e.to = FUC(J, I)
         /\ \E e \in Edges : e.from = FUC(J, I) /\ e.to = FUC(J, J)
         /\ \E e \in Edges : e.from = BUC(J, I) /\ e.to = BUC(I, I)
         /\ \E e \in Edges : e.from = BUC(J, J) /\ e.to = BUC(J, I)
         /\ FUC(J, I) \in Task /\ BUC(J, I) \in Task
<1> DEFINE x == <<I, J>>
<1>1. J \in Sup /\ J > I /\ I \in Nat /\ J \in Nat /\ J <= NS /\ NS \in Nat
  BY GraphAssumption DEF Sup
<1>2. x \in Below /\ x[1] = I /\ x[2] = J
  BY <1>1 DEF Below
<1> HIDE DEF x
<1>3. Edge(FUC(I, I), FUC(J, I), "FUC_D", x) \in Edges
  BY <1>2 DEF Edges, FucDSend
<1>4. Edge(FUC(J, I), FUC(J, J), "FUC", x) \in Edges
  BY <1>2 DEF Edges, FucSend
<1>5. Edge(BUC(J, I), BUC(I, I), "BUC_D", x) \in Edges
  BY <1>2 DEF Edges, BucDSend
<1>6. Edge(BUC(J, J), BUC(J, I), "BUC", x) \in Edges
  BY <1>2 DEF Edges, BucSend
<1>7. FUC(J, I) \in Task /\ BUC(J, I) \in Task
  BY <1>2 DEF Task
<1> QED
  BY <1>1, <1>3, <1>4, <1>5, <1>6, <1>7 DEF Edge

LEMMA DiagTasks ==
  ASSUME NEW I \in Sup
  PROVE  /\ FUC(I, I) \in Task /\ BUC(I, I) \in Task
         /\ Root(I) => \E e \in Edges : e.from = FUC(I, I) /\ e.to = BUC(I, I)
<1>1. FUC(I, I) \in Task /\ BUC(I, I) \in Task
  BY DEF Task
<1>2. Root(I) => Edge(FUC(I, I), BUC(I, I), "FUC", <<I, I>>) \in Edges
  BY DEF Edges, FucSend
<1> QED
  BY <1>1, <1>2 DEF Edge

LEMMA SenderOf ==
  ASSUME IInv, NEW t, NEW u, \E e \in Edges : e.from = u /\ e.to = t, Started(t)
  PROVE  u \in executed /\ Started(u)
<1>1. PICK e \in Edges : e.from = u /\ e.to = t
  OBVIOUS
<1>2. inCnt[t] = 0
  BY StartedZero
<1>3. u \in executed
  BY <1>1, <1>2, SendersRan
<1> QED
  BY <1>1, <1>3, EdgeShape DEF Started

LEMMA ForwardChain ==
  ASSUME IInv, NEW I \in Sup, NEW J \in Struct[I]
  PROVE  /\ Started(FUC(J, I)) => FUC(I, I) \in executed
         /\ Started(FUC(J, J)) => FUC(J, I) \in executed /\ FUC(I, I) \in executed
         /\ Started(BUC(J, I)) => BUC(J, J) \in executed
         /\ Started(BUC(I, I)) => BUC(J, I) \in executed /\ BUC(J, J) \in executed
<1>1. /\ \E e \in Edges : e.from = FUC(I, I) /\ e.to = FUC(J, I)
      /\ \E e \in Edges : e.from = FUC(J, I) /\ e.to = FUC(J, J)
      /\ \E e \in Edges : e.from = BUC(J, I) /\ e.to = BUC(I, I)
      /\ \E e \in Edges : e.from = BUC(J, J) /\ e.to = BUC(J, I)
  BY BelowSends
<1>2. Started(FUC(J, I)) => FUC(I, I) \in executed
  BY <1>1, SenderOf
<1>3. Started(FUC(J, J)) => FUC(J, I) \in executed /\ Started(FUC(J, I))
  BY <1>1, SenderOf
<1>4. Started(BUC(J, I)) => BUC(J, J) \in executed
  BY <1>1, SenderOf
<1>5. Started(BUC(I, I)) => BUC(J, I) \in executed /\ Started(BUC(J, I))
  BY <1>1, SenderOf
<1> QED
  BY <1>2, <1>3, <1>4, <1>5

LEMMA RanStarted ==
  ASSUME IInv, NEW t \in executed
  PROVE  Started(t)
BY DEF IInv, TypeOK, Started

(* The backward phase of a supernode starts after its forward phase: the   *)
(* path from the one to the other goes through the root of its tree.       *)
LEMMA BackwardAfterForward ==
  ASSUME IInv, NEW I \in Sup, Started(BUC(I, I))
  PROVE  FUC(I, I) \in executed
<1> DEFINE Wrong == {K \in Sup : Started(BUC(K, K)) /\ FUC(K, K) \notin executed}
           D == {NS - K : K \in Wrong}
<1> SUFFICES ASSUME I \in Wrong PROVE FALSE
  OBVIOUS
<1>1. \A K \in Sup : K \in Nat /\ K <= NS /\ NS - K \in Nat /\ NS \in Nat
  BY GraphAssumption DEF Sup
<1>2. D \subseteq Nat /\ D # {}
  BY <1>1
<1>3. PICK n \in D : \A k \in D : n <= k
  BY <1>2, LeastNatural
<1>4. PICK J \in Wrong : n = NS - J
  OBVIOUS
<1>5. \A K \in Wrong : NS - J <= NS - K
  BY <1>3, <1>4
<1>6. J \in Sup /\ Started(BUC(J, J)) /\ FUC(J, J) \notin executed
  BY <1>4
<1>7. ~Root(J)
  BY <1>6, DiagTasks, SenderOf
<1>8. PICK K \in Struct[J] : TRUE
  BY <1>7 DEF Root
<1>9. K \in Sup /\ K > J
  BY <1>6, <1>8, BelowSends
<1>10. BUC(K, K) \in executed
  BY <1>6, <1>8, ForwardChain
<1>11. K \notin Wrong
  BY <1>1, <1>5, <1>6, <1>9
<1>12. FUC(K, K) \in executed
  BY <1>9, <1>10, <1>11, RanStarted
<1>13. FUC(J, J) \in executed
  BY <1>6, <1>8, <1>12, RanStarted, ForwardChain
<1> QED
  BY <1>6, <1>13

(* Nothing is subtracted from the solution of I while anything still has   *)
(* to read what the forward phase left of it.                              *)
LEMMA BackwardAfterReads ==
  ASSUME FillClosed, IInv, NEW I \in Sup, NEW J \in Struct[I], Started(BUC(J, I))
  PROVE  /\ BUC(J, J) \in executed /\ FUC(I, I) \in executed
         /\ \A K \in Struct[I] : FUC(K, I) \in executed /\ FUC(K, K) \in executed
<1>1. BUC(J, J) \in executed
  BY ForwardChain
<1>2. J \in Sup /\ J \in Nat
  BY BelowSends
<1>3. FUC(J, J) \in executed
  BY <1>1, <1>2, RanStarted, BackwardAfterForward
<1>4. FUC(I, I) \in executed
  BY <1>3, RanStarted, ForwardChain
<1>5. ASSUME NEW K \in Struct[I]
      PROVE  FUC(K, I) \in executed /\ FUC(K, K) \in executed
  <2>1. K \in Sup /\ K \in Nat
    BY BelowSends
  <2>2. CASE K = J
    BY <1>3, <2>2, RanStarted, ForwardChain
  <2>3. CASE K > J
    <3>1. K \in Struct[J]
      BY <2>3 DEF FillClosed
    <3>2. BUC(K, K) \in executed
      BY <1>1, <1>2, <3>1, RanStarted, ForwardChain
    <3>3. FUC(K, K) \in executed
      BY <2>1, <3>2, RanStarted, BackwardAfterForward
    <3> QED
      BY <3>3, RanStarted, ForwardChain
  <2>4. CASE J > K
    <3>1. J \in Struct[K]
      BY <2>4 DEF FillClosed
    <3>2. FUC(K, K) \in executed
      BY <1>3, <2>1, <3>1, RanStarted, ForwardChain
    <3> QED
      BY <3>2, RanStarted, ForwardChain
  <2> QED
    BY <1>2, <2>1, <2>2, <2>3, <2>4
<1> QED
  BY <1>1, <1>4, <1>5

-----------------------------------------------------------------------------
(* Every step of the solve is an operation of block substitution, or none. *)

Applied == {<<t.op, t.row, t.col>> : t \in executed}

LEMMA RanApplied ==
  ASSUME NEW J, NEW I
  PROVE  /\ FUC(J, I) \in executed => S!Forward(J, I) \in Applied
         /\ BUC(J, I) \in executed => S!Backward(J, I) \in Applied
<1>1. /\ FUC(J, I).op = "FUC" /\ FUC(J, I).row = J /\ FUC(J, I).col = I
      /\ BUC(J, I).op = "BUC" /\ BUC(J, I).row = J /\ BUC(J, I).col = I
  BY DEF FUC, BUC, TaskOf
<1> HIDE DEF FUC, BUC
<1> QED
  BY <1>1 DEF Applied, S!Forward, S!Backward

LEMMA TaskIsOperation ==
  ASSUME NEW t \in Task
  PROVE  <<t.op, t.row, t.col>> \in S!Operation
<1>1. /\ t.op \in {"FUC", "BUC"} /\ t.row \in Sup /\ t.col \in Sup
      /\ ~Diag(t) => <<t.col, t.row>> \in Below
  BY TaskShape
<1>2. t.row \in S!Cells(t.col)
  BY <1>1 DEF Diag, Below, S!Cells
<1>3. t.col \in 1..NS
  BY <1>1 DEF Sup
<1> QED
  BY <1>1, <1>2, <1>3 DEF S!Operation, S!Forward, S!Backward

LEMMA SendersApplied ==
  ASSUME FillClosed, IInv, NEW t \in ready
  PROVE  S!Before(<<t.op, t.row, t.col>>) \subseteq Applied
<1> DEFINE op == <<t.op, t.row, t.col>>
<1>1. t \in Task /\ Started(t)
  BY DEF IInv, TypeOK, Started
<1>2. /\ t.op \in {"FUC", "BUC"} /\ t.row \in Sup /\ t.col \in Sup
      /\ ~Diag(t) => <<t.col, t.row>> \in Below
      /\ t.op = "FUC" => t = FUC(t.row, t.col)
      /\ t.op = "BUC" => t = BUC(t.row, t.col)
  BY <1>1, TaskShape
<1>3. ~Diag(t) => t.row \in Struct[t.col]
  BY <1>2 DEF Below
<1>4. CASE t.op = "FUC" /\ Diag(t)
  <2>1. S!Before(op) = {S!Forward(t.row, K) : K \in {L \in 1..NS : t.row \in Struct[L]}}
    BY <1>4 DEF S!Before, Diag
  <2>2. ASSUME NEW K \in 1..NS, t.row \in Struct[K]
        PROVE  S!Forward(t.row, K) \in Applied
    <3>1. Started(FUC(t.row, t.row)) /\ K \in Sup
      BY <1>1, <1>2, <1>4 DEF Diag, Sup
    <3> QED
      BY <2>2, <3>1, ForwardChain, RanApplied
  <2> QED
    BY <2>1, <2>2
<1>5. CASE t.op = "FUC" /\ ~Diag(t)
  <2>1. S!Before(op) = {S!Forward(t.col, t.col)}
    BY <1>5 DEF S!Before, Diag
  <2>2. FUC(t.col, t.col) \in executed
    BY <1>1, <1>2, <1>3, <1>5, ForwardChain
  <2> QED
    BY <2>1, <2>2, RanApplied
<1>6. CASE t.op = "BUC" /\ Diag(t)
  <2>1. S!Before(op) = {S!Forward(t.col, t.col)}
                         \cup {S!Backward(K, t.col) : K \in Struct[t.col]}
    BY <1>6 DEF S!Before, Diag
  <2>2. Started(BUC(t.col, t.col))
    BY <1>1, <1>2, <1>6 DEF Diag
  <2>3. S!Forward(t.col, t.col) \in Applied
    BY <1>2, <2>2, BackwardAfterForward, RanApplied
  <2>4. \A K \in Struct[t.col] : S!Backward(K, t.col) \in Applied
    BY <1>2, <2>2, ForwardChain, RanApplied
  <2> QED
    BY <2>1, <2>3, <2>4
<1>7. CASE t.op = "BUC" /\ ~Diag(t)
  <2>1. S!Before(op) = {S!Backward(t.row, t.row)}
                         \cup {S!Forward(K, t.col) : K \in {t.col} \cup Struct[t.col]}
    BY <1>7 DEF S!Before, S!Cells, Diag
  <2>2. /\ BUC(t.row, t.row) \in executed /\ FUC(t.col, t.col) \in executed
        /\ \A K \in Struct[t.col] : FUC(K, t.col) \in executed
    BY <1>1, <1>2, <1>3, <1>7, BackwardAfterReads
  <2> QED
    BY <2>1, <2>2, RanApplied
<1> QED
  BY <1>2, <1>4, <1>5, <1>6, <1>7

LEMMA OnlyExecuteExecutes ==
  ASSUME [Next]_vars
  PROVE  executed' = executed \/ \E r \in Rank, t \in Task : Execute(r, t)
<1>1. ASSUME NEW r \in Rank, RankStep(r)
      PROVE  executed' = executed \/ \E t \in Task : Execute(r, t)
  BY <1>1 DEF RankStep, Fetch, solveVars
<1>2. ASSUME NEW r \in Rank, Reached(r)
      PROVE  executed' = executed
  BY <1>2 DEF Reached, Deliver, Land, Release, solveVars
<1>3. ASSUME UNCHANGED vars
      PROVE  executed' = executed
  BY <1>3 DEF vars, solveVars
<1> QED
  BY <1>1, <1>2, <1>3 DEF Next, Terminated

LEMMA RefinementStep ==
  ASSUME FillClosed, IInv, [Next]_vars
  PROVE  Applied' = Applied \/ \E o \in S!Operation :
           /\ o \notin Applied /\ S!Before(o) \subseteq Applied
           /\ Applied' = Applied \cup {o}
<1>1. CASE executed' = executed
  BY <1>1 DEF Applied
<1>2. ASSUME NEW r \in Rank, NEW t \in Task, Execute(r, t)
      PROVE  \E o \in S!Operation :
               /\ o \notin Applied /\ S!Before(o) \subseteq Applied
               /\ Applied' = Applied \cup {o}
  <2> DEFINE o == <<t.op, t.row, t.col>>
  <2>1. t \in ready /\ t \notin executed /\ executed' = executed \cup {t}
    BY <1>2, ExecuteFacts
  <2>2. o \in S!Operation /\ S!Before(o) \subseteq Applied
    BY <2>1, TaskIsOperation, SendersApplied
  <2>3. o \notin Applied
    <3>1. executed \subseteq Task
      BY DEF IInv, TypeOK
    <3> QED
      BY <2>1, <3>1, SameTask DEF Applied
  <2>4. Applied' = Applied \cup {o}
    BY <2>1 DEF Applied
  <2> HIDE DEF o
  <2> QED
    BY <2>2, <2>3, <2>4
<1> QED
  BY <1>1, <1>2, OnlyExecuteExecutes

(* The ranks carry out forward and backward substitution: every block      *)
(* operation at most once, none before the operations whose results it     *)
(* reads, and nothing is subtracted from a supernode while another rank    *)
(* still has to read what the forward phase left in its slot.              *)
THEOREM SolveImplements == FillClosed => (Spec => SubstitutionSpec)
<1> SUFFICES ASSUME FillClosed PROVE Spec => SubstitutionSpec
  OBVIOUS
<1>1. Init => S!Init
  BY DEF Init, S!Init
<1>2. IInv /\ [Next]_vars => [S!Next]_({<<t.op, t.row, t.col>> : t \in executed})
  BY RefinementStep DEF Applied, S!Next, S!Apply
<1>3. Spec => []IInv
  BY SolveInvariant
<1> QED
  BY <1>1, <1>2, <1>3, PTL DEF Spec, SubstitutionSpec, S!Spec

-----------------------------------------------------------------------------
(* The slots.                                                              *)

LEMMA OwedFollows ==
  ASSUME Quiesce, IInv
  PROVE  NothingOwed
<1> SUFFICES ASSUME NEW r \in Rank, pc[r] = "end"
             PROVE  /\ toFree[r] = 0
                    /\ \A m \in releases : m[1].rank # r
                    /\ \A I \in Sup : Home(I, I) # r => slots[r][I] = NoSlot
  BY DEF NothingOwed
<1>1. toFree[r] = 0
  BY DEF IInv, LoopExact
<1>2. Lent(r) = {}
  <2>1. Cardinality(Lent(r)) = 0
    BY <1>1 DEF IInv, SlotsExact
  <2> QED
    BY <2>1, LentFinite, FS_EmptySet
<1>3. ASSUME NEW m \in releases
      PROVE  m[1].rank # r
  <2>1. m \in Rpcs
    BY DEF IInv, TypeOK
  <2>2. /\ m[1] \in Peers(m[1])
        /\ Peers(m[1]) \subseteq LentFor(m[1].rank, Goal(m[1]))
    BY <2>1, ReleasedWereLent, PeersShape
  <2> QED
    BY <1>2, <2>2 DEF LentFor
<1>4. ASSUME NEW I \in Sup, Home(I, I) # r
      PROVE  slots[r][I] = NoSlot
  <2>1. LentFor(r, I) = {}
    BY <1>2 DEF LentFor
  <2> QED
    BY <1>4, <2>1 DEF IInv, SlotsExact
<1> QED
  BY <1>1, <1>3, <1>4

(* With a quiesce handle, a rank that leaves Solve has got back every slot *)
(* it lent, whatever the order of the answers and of the second use of the *)
(* slots.                                                                  *)
THEOREM SolveNothingOwed == Quiesce => (Spec => []NothingOwed)
<1> SUFFICES ASSUME Quiesce PROVE Spec => []NothingOwed
  OBVIOUS
<1>1. IInv => NothingOwed
  BY OwedFollows
<1>2. Spec => []IInv
  BY SolveInvariant
<1> QED
  BY <1>1, <1>2, PTL

LEMMA ExposedShape ==
  ASSUME IInv, NEW m \in Rpcs, Exposed(m)
  PROVE  /\ Announced(m) /\ data[m] # "landed" /\ m[1] \in Task
         /\ m[1].rank \in Rank /\ Goal(m[1]) \in Sup
         /\ Diag(m[1]) => m[1] \in executed /\ m[1].rank = Home(Goal(m[1]), Goal(m[1]))
         /\ ~Diag(m[1]) => /\ m[1] \in executed /\ Peers(m[1]) \subseteq executed
                           /\ Contributes(m[1])
                           /\ m[1] \in LentFor(m[1].rank, Goal(m[1]))
<1>1. Announced(m) /\ data[m] # "landed"
  BY DEF Exposed, Announced, IInv, AnnouncedOnce
<1>2. m[1] \in Task /\ (~Diag(m[1]) => Contributes(m[1]))
  BY RpcShape
<1>3. m[1].rank \in Rank /\ Goal(m[1]) \in Sup
  BY <1>2, GoalShape
<1>4. Diag(m[1]) => m[1] \in executed /\ m[1].rank = Home(Goal(m[1]), Goal(m[1]))
  BY <1>1, <1>2, TaskShape DEF IInv, AnnouncedOnce, Diag, Goal
<1>5. ASSUME ~Diag(m[1])
      PROVE  /\ m[1] \in executed /\ Peers(m[1]) \subseteq executed
             /\ m[1] \in LentFor(m[1].rank, Goal(m[1]))
  <2>1. m[1] \in Peers(m[1])
    BY <1>2, <1>5, PeersShape
  <2>2. /\ Peers(m[1]) \subseteq executed
        /\ \A n \in Rpcs : n[1] \in Peers(m[1]) /\ Announced(n) => n = m
    BY <1>1, <1>5 DEF IInv, AnnouncedOnce
  <2>3. ~GivenBack(m[1])
    BY <1>1, <2>2 DEF GivenBack, Announced
  <2> QED
    BY <1>2, <1>5, <2>1, <2>2, <2>3 DEF LentFor, Lent
<1> QED
  BY <1>1, <1>2, <1>3, <1>4, <1>5

LEMMA ExposedThere ==
  ASSUME IInv, NEW m \in Rpcs, Exposed(m)
  PROVE  slots[m[1].rank][Goal(m[1])].there
<1> DEFINE r == m[1].rank
           J == Goal(m[1])
<1>1. /\ m[1] \in Task /\ r \in Rank /\ J \in Sup
      /\ Diag(m[1]) => m[1] \in executed /\ r = Home(J, J)
      /\ ~Diag(m[1]) => Contributes(m[1]) /\ m[1] \in LentFor(r, J)
  BY ExposedShape
<1>2. CASE Diag(m[1])
  <2>1. m[1] = FUC(J, J) \/ m[1] = BUC(J, J)
    BY <1>1, <1>2, TaskShape DEF Diag, Goal
  <2>2. FUC(J, J) \in executed
    BY <1>1, <1>2, <2>1, RanStarted, BackwardAfterForward
  <2> QED
    BY <1>1, <1>2, <2>2 DEF IInv, SlotsExact
<1>3. CASE ~Diag(m[1])
  <2>1. Home(J, J) # r
    BY <1>1, <1>3 DEF Contributes, Away
  <2> QED
    BY <1>1, <1>3, <2>1 DEF IInv, SlotsExact
<1> QED
  BY <1>2, <1>3

(* A task that has started has received the messages that carry its        *)
(* signals.                                                                *)
LEMMA CarrierLanded ==
  ASSUME IInv, NEW m \in Rpcs, Announced(m), NEW e \in Edges, Carries(m, e),
         e.from.rank # e.to.rank, Started(e.to)
  PROVE  data[m] = "landed"
<1>1. inCnt[e.to] = 0
  BY StartedZero
<1>2. PICK n \in Rpcs : data[n] = "landed" /\ Carries(n, e)
  BY <1>1, SendersRan
<1>3. Announced(n)
  BY <1>2 DEF Announced
<1>4. m = n
  BY <1>2, <1>3, CarriedOnce
<1> QED
  BY <1>2, <1>4

(* While a slot is exposed no task that computes into it is ready: those   *)
(* of the same phase have been executed, those of the other one wait for   *)
(* the reader.                                                             *)
LEMMA NoWriterReady ==
  ASSUME FillClosed, IInv, NEW m \in Rpcs, Exposed(m), NEW t \in ready,
         t.rank = m[1].rank, Goal(t) = Goal(m[1])
  PROVE  FALSE
<1> DEFINE J == Goal(t)
<1>1. t \in Task /\ t \notin executed /\ Started(t)
  BY DEF IInv, TypeOK, ReadyExact, Started
<1>2. /\ Announced(m) /\ data[m] # "landed" /\ m[1] \in Task /\ J \in Sup
      /\ m[1] \in executed
      /\ Diag(m[1]) => m[1].rank = Home(J, J)
      /\ ~Diag(m[1]) => Peers(m[1]) \subseteq executed /\ Contributes(m[1])
  BY ExposedShape
<1>3. /\ t.op \in {"FUC", "BUC"} /\ t.row \in Sup /\ t.col \in Sup
      /\ ~Diag(t) => <<t.col, t.row>> \in Below
      /\ t.op = "FUC" => t = FUC(t.row, t.col) /\ t.row = J
      /\ t.op = "BUC" => t = BUC(t.row, t.col) /\ t.col = J
  BY <1>1, TaskShape DEF Goal
<1>4. ~Diag(t) => t.row \in Struct[t.col]
  BY <1>3 DEF Below
<1>5. /\ m[1].op \in {"FUC", "BUC"} /\ m[1].row \in Sup /\ m[1].col \in Sup
      /\ ~Diag(m[1]) => m[1].row \in Struct[m[1].col]
      /\ m[1].op = "FUC" => m[1] = FUC(m[1].row, m[1].col) /\ m[1].row = J
      /\ m[1].op = "BUC" => m[1] = BUC(m[1].row, m[1].col) /\ m[1].col = J
  BY <1>2, TaskShape DEF Goal, Below
(* A forward task of J has been executed once the diagonal one has.        *)
<1>6. ASSUME t.op = "FUC", FUC(J, J) \in executed
      PROVE  FALSE
  <2>1. CASE Diag(t)
    BY <1>1, <1>3, <1>6, <2>1 DEF Diag
  <2>2. CASE ~Diag(t)
    <3>1. FUC(J, t.col) \in executed
      BY <1>2, <1>3, <1>4, <1>6, <2>2, RanStarted, ForwardChain
    <3> QED
      BY <1>1, <1>3, <1>6, <3>1
  <2> QED
    BY <2>1, <2>2
(* The backward tasks of J start when everything has read the slot.        *)
<1>7. ASSUME NEW K \in Struct[J], t.op = "BUC"
      PROVE  FUC(J, J) \in executed /\ FUC(K, J) \in executed
  <2>1. CASE Diag(t)
    <3>1. BUC(K, J) \in executed
      BY <1>1, <1>2, <1>3, <1>7, <2>1, ForwardChain DEF Diag
    <3> QED
      BY <1>2, <3>1, RanStarted, BackwardAfterReads
  <2>2. CASE ~Diag(t)
    BY <1>1, <1>2, <1>3, <1>4, <1>7, <2>2, BackwardAfterReads
  <2> QED
    BY <2>1, <2>2
<1>8. CASE Diag(m[1]) /\ m[1].op = "FUC"
  <2>1. m[1] = FUC(J, J)
    BY <1>5, <1>8 DEF Diag
  <2>2. PICK e \in Edges : e.from = m[1] /\ e.to.rank = m[2] /\ m[1].rank # m[2]
    BY RpcShape
  <2>3. e.to \in Task /\ ~Diag(e.to) /\ e.to.op = "FUC" /\ e.to.col = J
    BY <1>8, <2>1, <2>2, EdgeShape DEF FUC, TaskOf
  <2>4. e.to = FUC(e.to.row, J) /\ e.to.row \in Struct[J]
    BY <2>3, TaskShape DEF Below
  <2>5. CASE t.op = "FUC"
    BY <1>2, <1>6, <2>1, <2>5
  <2>6. CASE t.op = "BUC"
    <3>1. Started(e.to)
      BY <1>7, <2>4, <2>6, RanStarted
    <3>2. Carries(m, e)
      BY <1>8, <2>2 DEF Carries
    <3> QED
      BY <1>2, <2>2, <3>1, <3>2, CarrierLanded
  <2> QED
    BY <1>3, <2>5, <2>6
<1>9. CASE Diag(m[1]) /\ m[1].op = "BUC"
  <2>1. m[1] = BUC(J, J) /\ Started(BUC(J, J))
    BY <1>2, <1>5, <1>9, RanStarted DEF Diag
  <2>2. CASE t.op = "FUC"
    BY <1>2, <1>6, <2>1, <2>2, BackwardAfterForward
  <2>3. CASE t.op = "BUC" /\ Diag(t)
    BY <1>1, <1>2, <1>3, <2>1, <2>3 DEF Diag
  <2>4. CASE t.op = "BUC" /\ ~Diag(t)
    BY <1>1, <1>2, <1>3, <1>4, <2>1, <2>4, ForwardChain
  <2> QED
    BY <1>3, <2>2, <2>3, <2>4
<1>10. CASE ~Diag(m[1])
  <2>1. ~Diag(t)
    <3>1. Away(t)
      BY <1>2, <1>10 DEF Contributes, Away
    <3> QED
      BY <1>1, <3>1, AwayIsOff
  <2>2. t.op # m[1].op
    BY <1>1, <1>2, <1>10, <2>1 DEF Peers
  <2>3. CASE t.op = "FUC"
    <3>1. m[1] = BUC(m[1].row, J) /\ m[1].row \in Struct[J]
      BY <1>3, <1>5, <1>10, <2>2, <2>3
    <3>2. FUC(J, J) \in executed
      BY <1>2, <3>1, RanStarted, BackwardAfterReads
    <3> QED
      BY <1>6, <2>3, <3>2
  <2>4. CASE t.op = "BUC"
    <3>1. m[1].op = "FUC"
      BY <1>5, <2>2, <2>4
    <3>2. FUC(J, J) \in executed
      BY <1>3, <1>4, <1>7, <2>1, <2>4
    <3> DEFINE e == Contribution(m[1])
    <3>3. /\ e \in Edges /\ e.from = m[1] /\ e.to = Final(m[1])
          /\ Final(m[1]).rank # m[1].rank /\ Final(m[1]).rank = m[2]
      BY <1>2, <1>10, ContributionShape, RpcShape DEF Contributes
    <3> HIDE DEF e
    <3>4. Final(m[1]) = FUC(J, J)
      BY <3>1 DEF Final, FUC
    <3>5. Started(e.to)
      BY <3>2, <3>3, <3>4, RanStarted
    <3>6. Carries(m, e)
      BY <1>2, <1>10, <3>3, PeersShape DEF Carries
    <3> QED
      BY <1>2, <3>3, <3>5, <3>6, CarrierLanded
  <2> QED
    BY <1>3, <2>3, <2>4
<1> QED
  BY <1>5, <1>8, <1>9, <1>10

LEMMA ReleaseKeeps ==
  ASSUME IInv, IInv', NEW n \in Rpcs, Release(n), NEW m \in Rpcs, Exposed(m)
  PROVE  LET slot == slots[m[1].rank][Goal(m[1])]
             slotAfter == slots'[m[1].rank][Goal(m[1])]
         IN slotAfter.there /\ slotAfter.value = slot.value
<1> DEFINE r == m[1].rank
           J == Goal(m[1])
           slot == slots[r][J]
           slotAfter == slots'[r][J]
           R == Released(slots[n[1].rank][Goal(n[1])], DepCnt(n[1]))
<1>1. /\ n \in releases /\ UNCHANGED <<data, executed>>
      /\ releases' = releases \ {n}
      /\ slots' = [slots EXCEPT ![n[1].rank][Goal(n[1])] = Released(@, DepCnt(n[1]))]
  BY DEF Release, loopVars, commVars
<1>2. /\ slots = [q \in Rank |-> [K \in Sup |-> slots[q][K]]]
      /\ \A q \in Rank, K \in Sup : SlotOK(slots[q][K])
  BY DEF IInv, TypeOK
<1>3. /\ ~Diag(n[1]) /\ Contributes(n[1]) /\ data[n] = "landed"
      /\ n[1] \in Task /\ n[1].rank \in Rank /\ Goal(n[1]) \in Sup
  BY <1>1, ReleasedWereLent
<1>4. /\ Announced(m) /\ data[m] # "landed" /\ m[1] \in Task
      /\ r \in Rank /\ J \in Sup /\ slot.there
      /\ Diag(m[1]) => r = Home(J, J)
      /\ ~Diag(m[1]) => Peers(m[1]) \subseteq executed /\ Contributes(m[1])
  BY ExposedShape, ExposedThere
<1>5. slotAfter = IF n[1].rank = r /\ Goal(n[1]) = J THEN R ELSE slot
  <2> HIDE DEF r, J
  <2>1. slots' = [q \in Rank |-> [K \in Sup |->
                    IF q = n[1].rank /\ K = Goal(n[1]) THEN R ELSE slots[q][K]]]
    BY <1>1, <1>2, <1>3
  <2> QED
    BY <1>4, <2>1
<1>6. CASE ~(n[1].rank = r /\ Goal(n[1]) = J)
  BY <1>4, <1>5, <1>6
<1>7. CASE n[1].rank = r /\ Goal(n[1]) = J
  <2>1. Home(J, J) # r
    BY <1>3, <1>7 DEF Contributes, Away
  <2>2. ~Diag(m[1])
    BY <1>4, <2>1
  (* The contribution exposed is not among those given back.               *)
  <2>3. ~GivenBack(m[1])'
    <3>1. \A d \in Rpcs : d[1] \in Peers(m[1]) /\ Announced(d) => d = m
      BY <1>4, <2>2 DEF IInv, AnnouncedOnce
    <3>2. \A d \in Rpcs : d[1] \in Peers(m[1]) => data[d] # "landed"
      BY <1>4, <3>1 DEF Announced
    <3> QED
      BY <1>1, <3>2 DEF GivenBack
  <2>4. m[1] \in LentFor(r, J)'
    <3>1. m[1] \in Peers(m[1]) /\ m[1] \in executed'
      BY <1>1, <1>4, <2>2, PeersShape
    <3> QED
      BY <1>4, <2>2, <2>3, <3>1 DEF LentFor, Lent
  <2>5. slotAfter.there
    BY <1>4, <2>1, <2>4 DEF IInv, SlotsExact
  <2>6. slotAfter = R /\ R # NoSlot
    BY <1>5, <1>7, <2>5 DEF NoSlot
  <2>7. R = [slot EXCEPT !.counter = @ - DepCnt(n[1])]
    BY <1>7, <2>6 DEF Released
  <2>8. SlotOK(slot)
    BY <1>2, <1>4
  <2> HIDE DEF R, slot, slotAfter
  <2>9. R.value = slot.value
    BY <2>7, <2>8 DEF SlotOK
  <2> QED
    BY <2>5, <2>6, <2>9 DEF slot, slotAfter
<1> QED
  BY <1>6, <1>7

LEMMA ExecuteKeeps ==
  ASSUME FillClosed, IInv, NEW q \in Rank, NEW t \in Task, Execute(q, t),
         NEW m \in Rpcs, Exposed(m)
  PROVE  slots'[m[1].rank][Goal(m[1])] = slots[m[1].rank][Goal(m[1])]
<1>1. /\ t \in ready /\ t.rank = q
      /\ slots' = [slots EXCEPT ![q][Goal(t)] = Computed(t, @)]
  BY ExecuteFacts
<1>2. m[1].rank # q \/ Goal(m[1]) # Goal(t)
  BY <1>1, NoWriterReady
<1>3. m[1].rank \in Rank /\ Goal(m[1]) \in Sup /\ Goal(t) \in Sup
  BY ExposedShape, GoalShape
<1>4. slots = [p \in Rank |-> [K \in Sup |-> slots[p][K]]]
  BY DEF IInv, TypeOK
<1> QED
  BY <1>1, <1>2, <1>3, <1>4

LEMMA SlotsWriters ==
  ASSUME [Next]_vars
  PROVE  \/ slots' = slots
         \/ \E r \in Rank, t \in Task : Execute(r, t)
         \/ \E m \in Rpcs : Release(m)
<1>1. ASSUME NEW r \in Rank, RankStep(r)
      PROVE  slots' = slots \/ \E t \in Task : Execute(r, t)
  BY <1>1 DEF RankStep, Fetch, solveVars, slotVars
<1>2. ASSUME NEW r \in Rank, Reached(r)
      PROVE  slots' = slots \/ \E m \in Rpcs : Release(m)
  BY <1>2 DEF Reached, Deliver, Land, solveVars, slotVars
<1>3. ASSUME UNCHANGED vars
      PROVE  slots' = slots
  BY <1>3 DEF vars, solveVars, slotVars
<1> QED
  BY <1>1, <1>2, <1>3 DEF Next, Terminated

LEMMA NoWriteStep ==
  ASSUME FillClosed, IInv, IInv', [Next]_vars, NEW m \in Rpcs, Exposed(m)
  PROVE  LET slot == slots[m[1].rank][Goal(m[1])]
             slotAfter == slots'[m[1].rank][Goal(m[1])]
         IN slot.there /\ slotAfter.there /\ slotAfter.value = slot.value
<1>1. slots[m[1].rank][Goal(m[1])].there
  BY ExposedThere
<1>2. CASE slots' = slots
  BY <1>1, <1>2
<1>3. CASE \E r \in Rank, t \in Task : Execute(r, t)
  BY <1>1, <1>3, ExecuteKeeps
<1>4. CASE \E n \in Rpcs : Release(n)
  BY <1>1, <1>4, ReleaseKeeps
<1> QED
  BY <1>2, <1>3, <1>4, SlotsWriters

(* From the announcement of a slot to the end of the rget that reads it,   *)
(* nobody writes or frees it, although nothing orders the answer to the    *)
(* first use of the slot with the second use.                              *)
THEOREM SolveNoWriteUnderFetch == FillClosed => (Spec => NoWriteUnderFetch)
<1> SUFFICES ASSUME FillClosed PROVE Spec => NoWriteUnderFetch
  OBVIOUS
<1>1. IInv /\ IInv' /\ [Next]_vars =>
        [\A m \in Rpcs :
           Exposed(m) =>
             LET slot == slots[m[1].rank][Goal(m[1])]
                 slotAfter == slots'[m[1].rank][Goal(m[1])]
             IN slot.there /\ slotAfter.there /\ slotAfter.value = slot.value]_vars
  BY NoWriteStep
<1>2. Spec => []IInv
  BY SolveInvariant
<1> QED
  BY <1>1, <1>2, PTL DEF Spec, NoWriteUnderFetch

-----------------------------------------------------------------------------
(* What the slots hold, as a function of the tasks executed.               *)

Content(T, n, b) == [terms |-> T, solved |-> n, scaled |-> b]

(* Each supernode of a set contributed once.                               *)
Ones(A) == [K \in Sup |-> IF K \in A THEN 1 ELSE 0]

(* The supernodes that contribute to J in either phase, those of which     *)
(* rank r does it, and of these the ones whose task has been executed.     *)
Before(J)    == {K \in Sup : J \in Struct[K]}
Ahead(J, r)  == {K \in Before(J) : Home(J, K) = r}
Behind(J, r) == {K \in Struct[J] : Home(K, J) = r}

AheadRan(J, r)  == {K \in Ahead(J, r) : FUC(J, K) \in executed}
BehindRan(J, r) == {K \in Behind(J, r) : BUC(K, J) \in executed}

(* On the owner of J.                                                      *)
OwnForward(J) ==
  IF FUC(J, J) \in executed THEN {J} \cup Before(J) ELSE AheadRan(J, Home(J, J))
OwnBackward(J) ==
  IF BUC(J, J) \in executed THEN Struct[J] ELSE BehindRan(J, Home(J, J))

OwnSolved(J) == (IF FUC(J, J) \in executed THEN 1 ELSE 0)
                  + (IF BUC(J, J) \in executed THEN 1 ELSE 0)
OwnScaled(J) == IF BUC(J, J) \in executed \/ BehindRan(J, Home(J, J)) # {}
                THEN LDL ELSE FALSE

OwnValue(J) ==
  Content(Ones(OwnForward(J) \cup OwnBackward(J)), OwnSolved(J), OwnScaled(J))

(* On another rank: the second use of the slot starts from zero.           *)
AwayValue(J, r) ==
  Content(Ones(IF BehindRan(J, r) # {} THEN BehindRan(J, r) ELSE AheadRan(J, r)),
          0, FALSE)

ValuesExact ==
  \A r \in Rank, J \in Sup :
    IF Home(J, J) = r THEN slots[r][J].value = OwnValue(J)
    ELSE slots[r][J].there => slots[r][J].value = AwayValue(J, r)

(* What a task announces is the same in every execution.                   *)
Sent(t) ==
  IF Diag(t) THEN IF t.op = "FUC" THEN Y(t.row) ELSE X(t.col)
  ELSE Content(Ones(IF t.op = "FUC" THEN Ahead(t.row, t.rank)
                    ELSE Behind(t.col, t.rank)), 0, FALSE)

GotExact ==
  /\ got = [m \in Rpcs |-> got[m]]
  /\ \A m \in Rpcs : data[m] = "landed" => got[m] = Sent(m[1])

VInv == ValuesExact /\ GotExact

-----------------------------------------------------------------------------
(* The sum of the terms of the messages received.  Only the case is needed *)
(* where at most one of them is not zero.                                  *)
LEMMA AddedIsSum ==
  ASSUME NEW K, NEW D, NEW f, NEW w, w = [d \in D |-> got[d].terms[K]],
         IsFiniteSet(D), IsSetSum(f, w, D)
  PROVE  Added(K, D) = f[D]
<1> DEFINE Is(g) == g = [A \in SUBSET D |->
                           IF A = {} THEN 0
                           ELSE LET x == CHOOSE x \in A : TRUE
                                IN got[x].terms[K] + g[A \ {x}]]
<1>1. ASSUME NEW g PROVE Is(g) <=> IsSetSum(g, w, D)
  <2>1. ASSUME NEW A \in SUBSET D
        PROVE  (IF A = {} THEN 0
                ELSE LET x == CHOOSE x \in A : TRUE
                     IN got[x].terms[K] + g[A \ {x}]) = SumStep(g, w, A)
    <3>1. A # {} => (CHOOSE x \in A : TRUE) \in D
      OBVIOUS
    <3> QED
      BY <3>1 DEF SumStep
  <2> QED
    BY <2>1 DEF IsSetSum
<1>2. Added(K, D) = (CHOOSE g : Is(g))[D]
  BY DEF Added, MapThenSumSet, MapThenFoldSet
<1> HIDE DEF Is
<1>3. Is(CHOOSE g : Is(g))
  BY <1>1
<1>4. (CHOOSE g : Is(g)) = f
  BY <1>1, <1>3, SumUnique
<1> QED
  BY <1>2, <1>4

LEMMA AddedOnce ==
  ASSUME NEW K, NEW D, IsFiniteSet(D), NEW M \in SUBSET D,
         \A m, n \in M : m = n,
         \A d \in D : got[d].terms[K] = IF d \in M THEN 1 ELSE 0
  PROVE  Added(K, D) = IF M # {} THEN 1 ELSE 0
<1> DEFINE w == [d \in D |-> got[d].terms[K]]
           f == [A \in SUBSET D |-> IF M \cap A # {} THEN 1 ELSE 0]
<1>1. ASSUME NEW A \in SUBSET D
      PROVE  f[A] = SumStep(f, w, A)
  <2>1. CASE A = {}
    BY <2>1 DEF SumStep
  <2>2. CASE A # {}
    <3>1. PICK d : d = CHOOSE x \in A : TRUE
      OBVIOUS
    <3>2. d \in A /\ A \ {d} \in SUBSET D
      BY <2>2, <3>1
    <3>3. SumStep(f, w, A) = w[d] + f[A \ {d}]
      BY <2>2, <3>1 DEF SumStep
    <3>4. CASE d \in M
      <4>1. M \cap (A \ {d}) = {} /\ M \cap A # {}
        BY <3>2, <3>4
      <4>2. f[A \ {d}] = 0 /\ f[A] = 1 /\ w[d] = 1
        BY <3>2, <3>4, <4>1
      <4> QED
        BY <3>3, <4>2
    <3>5. CASE d \notin M
      <4>1. M \cap (A \ {d}) = M \cap A
        BY <3>5
      <4>2. f[A \ {d}] = f[A] /\ f[A] \in Nat /\ w[d] = 0
        BY <3>2, <3>5, <4>1
      <4> HIDE DEF f
      <4> QED
        BY <3>3, <4>2
    <3> QED
      BY <3>4, <3>5
  <2> QED
    BY <2>1, <2>2
<1>2. IsSetSum(f, w, D)
  <2>1. f = [A \in SUBSET D |-> f[A]]
    OBVIOUS
  <2> HIDE DEF f
  <2>2. [A \in SUBSET D |-> f[A]] = [A \in SUBSET D |-> SumStep(f, w, A)]
    BY <1>1
  <2> QED
    BY <2>1, <2>2 DEF IsSetSum
<1>3. f[D] = IF M # {} THEN 1 ELSE 0
  <2>1. M \cap D = M
    OBVIOUS
  <2> QED
    BY <2>1
<1>4. PICK w0 : w0 = w
  OBVIOUS
<1> HIDE DEF f, w
<1>5. IsSetSum(f, w0, D)
  BY <1>2, <1>4
<1>6. Added(K, D) = f[D]
  BY <1>4, <1>5, AddedIsSum DEF w
<1> QED
  BY <1>3, <1>6

-----------------------------------------------------------------------------
(* What a task does to the value of its slot.                              *)

LEMMA ZeroContent == Zero = Content(Ones({}), 0, FALSE)
  BY DEF Zero, Content, Ones

LEMMA PlusOnes ==
  ASSUME NEW A, NEW n, NEW b, NEW k \in Sup, k \notin A
  PROVE  Plus(Content(Ones(A), n, b), k) = Content(Ones(A \cup {k}), n, b)
<1>1. PICK T, U : T = Ones(A) /\ U = Ones(A \cup {k})
  OBVIOUS
<1>2. /\ T = [K \in Sup |-> IF K \in A THEN 1 ELSE 0]
      /\ U = [K \in Sup |-> IF K \in A \cup {k} THEN 1 ELSE 0]
  BY <1>1 DEF Ones
<1>3. T \in [Sup -> Int]
  BY <1>2
<1>4. Plus(Content(T, n, b), k) = Content([K \in Sup |-> IF K = k THEN T[K] + 1 ELSE T[K]], n, b)
  BY <1>3 DEF Plus, Content
<1>5. [K \in Sup |-> IF K = k THEN T[K] + 1 ELSE T[K]] = U
  BY <1>2
<1> QED
  BY <1>1, <1>4, <1>5

(* The messages received bring each supernode of a set once.               *)
Brings(D, B) == \A K \in Sup : Added(K, D) = IF K \in B THEN 1 ELSE 0

LEMMA PlusAllOnes ==
  ASSUME NEW A, NEW B, NEW n, NEW b, NEW D, A \cap B = {}, Brings(D, B)
  PROVE  PlusAll(Content(Ones(A), n, b), D) = Content(Ones(A \cup B), n, b)
<1>1. PICK T, U : T = Ones(A) /\ U = Ones(A \cup B)
  OBVIOUS
<1>2. /\ T = [K \in Sup |-> IF K \in A THEN 1 ELSE 0]
      /\ U = [K \in Sup |-> IF K \in A \cup B THEN 1 ELSE 0]
  BY <1>1 DEF Ones
<1>3. PlusAll(Content(T, n, b), D) = Content([K \in Sup |-> T[K] + Added(K, D)], n, b)
  BY DEF PlusAll, Content
<1>4. [K \in Sup |-> T[K] + Added(K, D)] = U
  BY <1>2 DEF Brings
<1> QED
  BY <1>1, <1>3, <1>4

LEMMA ScaledContent ==
  ASSUME NEW T, NEW n, NEW b, b = FALSE \/ b = LDL
  PROVE  Scaled(Content(T, n, b)) = Content(T, n, LDL)
<1>1. CASE LDL = TRUE
  BY <1>1 DEF Scaled, Content
<1>2. CASE LDL = FALSE
  BY <1>2 DEF Scaled, Content
<1> QED
  BY <1>1, <1>2, GraphAssumption

LEMMA ComputedValue ==
  ASSUME NEW t \in Task, NEW slot, SlotOK(slot)
  PROVE  /\ t.op = "FUC" /\ Diag(t) => Computed(t, slot).value =
              [PlusAll(Plus(slot.value, t.row), LandedInputs(t)) EXCEPT !.solved = @ + 1]
         /\ t.op = "FUC" /\ ~Diag(t) => Computed(t, slot).value = Plus(slot.value, t.col)
         /\ t.op = "BUC" /\ Diag(t) => Computed(t, slot).value =
              [PlusAll(Scaled(slot.value), LandedInputs(t)) EXCEPT !.solved = @ + 1]
         /\ t.op = "BUC" /\ ~Diag(t) => Computed(t, slot).value =
              IF Away(t) THEN Plus(IF First(t) THEN Zero ELSE slot.value, t.row)
              ELSE Plus(Scaled(slot.value), t.row)
<1>1. slot = [there |-> slot.there, counter |-> slot.counter, value |-> slot.value]
  BY DEF SlotOK
<1>2. CASE t.op = "FUC" /\ Diag(t)
  <2>1. PICK v : v = [PlusAll(Plus(slot.value, t.row), LandedInputs(t)) EXCEPT !.solved = @ + 1]
    OBVIOUS
  <2>2. Computed(t, slot) = [slot EXCEPT !.there = TRUE, !.value = v]
    BY <1>2, <2>1 DEF Computed, ForwardDiag
  <2>3. Computed(t, slot).value = v
    BY <1>1, <2>2
  <2> QED
    BY <1>2, <2>1, <2>3
<1>3. CASE t.op = "FUC" /\ ~Diag(t)
  <2>1. PICK v, n : v = Plus(slot.value, t.col) /\ n = IF First(t) THEN DepCnt(t) ELSE 0
    OBVIOUS
  <2>2. Computed(t, slot) = [slot EXCEPT !.there = TRUE, !.value = v, !.counter = @ + n]
    BY <1>3, <2>1 DEF Computed, ForwardOff
  <2>3. Computed(t, slot).value = v
    BY <1>1, <2>2
  <2> QED
    BY <1>3, <2>1, <2>3
<1>4. CASE t.op = "BUC" /\ Diag(t)
  <2>1. PICK v : v = [PlusAll(Scaled(slot.value), LandedInputs(t)) EXCEPT !.solved = @ + 1]
    OBVIOUS
  <2>2. Computed(t, slot) = [slot EXCEPT !.value = v]
    BY <1>4, <2>1 DEF Computed, BackwardDiag
  <2>3. Computed(t, slot).value = v
    BY <1>1, <2>2
  <2> QED
    BY <1>4, <2>1, <2>3
<1>5. CASE t.op = "BUC" /\ ~Diag(t) /\ Away(t)
  <2>1. PICK v, n : /\ v = Plus(IF First(t) THEN Zero ELSE slot.value, t.row)
                    /\ n = IF First(t) THEN DepCnt(t) ELSE 0
    OBVIOUS
  <2>2. Computed(t, slot) = [slot EXCEPT !.there = TRUE, !.value = v, !.counter = @ + n]
    BY <1>5, <2>1 DEF Computed, BackwardOff
  <2>3. Computed(t, slot).value = v
    BY <1>1, <2>2
  <2> QED
    BY <1>5, <2>1, <2>3
<1>6. CASE t.op = "BUC" /\ ~Diag(t) /\ ~Away(t)
  <2>1. PICK v : v = Plus(Scaled(slot.value), t.row)
    OBVIOUS
  <2>2. Computed(t, slot) = [slot EXCEPT !.value = v]
    BY <1>6, <2>1 DEF Computed, BackwardOff
  <2>3. Computed(t, slot).value = v
    BY <1>1, <2>2
  <2> QED
    BY <1>6, <2>1, <2>3
<1>7. t.op \in {"FUC", "BUC"}
  BY TaskShape
<1> QED
  BY <1>2, <1>3, <1>4, <1>5, <1>6, <1>7

-----------------------------------------------------------------------------
(* The order of the tasks that compute into one slot.                      *)

LEMMA PhaseOrder ==
  ASSUME IInv, NEW J \in Sup
  PROVE  /\ \A K \in Before(J) : Started(FUC(J, J)) => FUC(J, K) \in executed
         /\ \A K \in Struct[J] : Started(BUC(K, J)) => FUC(J, J) \in executed
         /\ Started(BUC(J, J)) => /\ FUC(J, J) \in executed
                                  /\ \A K \in Struct[J] : BUC(K, J) \in executed
<1>1. \A K \in Before(J) : Started(FUC(J, J)) => FUC(J, K) \in executed
  BY ForwardChain DEF Before
<1>2. ASSUME NEW K \in Struct[J], Started(BUC(K, J))
      PROVE  FUC(J, J) \in executed
  <2>1. K \in Sup
    BY BelowSends
  <2>2. BUC(K, K) \in executed
    BY <1>2, ForwardChain
  <2>3. FUC(K, K) \in executed
    BY <2>1, <2>2, RanStarted, BackwardAfterForward
  <2> QED
    BY <2>3, RanStarted, ForwardChain
<1>3. ASSUME Started(BUC(J, J))
      PROVE  \A K \in Struct[J] : BUC(K, J) \in executed
  BY <1>3, ForwardChain
<1>4. Started(BUC(J, J)) => FUC(J, J) \in executed
  BY BackwardAfterForward
<1> QED
  BY <1>1, <1>2, <1>3, <1>4

(* The same of tasks that have been executed.                              *)
LEMMA RanOrder ==
  ASSUME IInv, NEW J \in Sup
  PROVE  /\ FUC(J, J) \in executed => AheadRan(J, Home(J, J)) = Ahead(J, Home(J, J))
         /\ \A r : BehindRan(J, r) # {} => FUC(J, J) \in executed
         /\ BUC(J, J) \in executed =>
              /\ FUC(J, J) \in executed
              /\ \A r : BehindRan(J, r) = Behind(J, r)
<1>1. FUC(J, J) \in executed => \A K \in Before(J) : FUC(J, K) \in executed
  BY PhaseOrder, RanStarted
<1>2. \A K \in Struct[J] : BUC(K, J) \in executed => FUC(J, J) \in executed
  BY PhaseOrder, RanStarted
<1>3. BUC(J, J) \in executed => /\ FUC(J, J) \in executed
                                /\ \A K \in Struct[J] : BUC(K, J) \in executed
  BY PhaseOrder, RanStarted
<1> QED
  BY <1>1, <1>2, <1>3 DEF AheadRan, BehindRan, Ahead, Behind

(* The supernodes ahead of J and behind it are apart, and not J.           *)
LEMMA SidesApart ==
  ASSUME NEW J \in Sup
  PROVE  /\ Before(J) \subseteq Sup /\ Struct[J] \subseteq Sup
         /\ Before(J) \cap Struct[J] = {} /\ J \notin Before(J) /\ J \notin Struct[J]
<1>1. \A K \in Sup : \A L \in Struct[K] : L \in Sup /\ L > K /\ K \in Nat /\ L \in Nat
  BY BelowSends
<1>2. \A K \in Before(J) : K \in Sup /\ J > K /\ K \in Nat /\ J \in Nat
  BY <1>1 DEF Before
<1>3. \A K \in Struct[J] : K \in Sup /\ K > J /\ K \in Nat /\ J \in Nat
  BY <1>1
<1>4. \A K \in Before(J) : K \notin Struct[J] /\ K # J
  BY <1>2, <1>3
<1>5. J \notin Struct[J]
  BY <1>3
<1> QED
  BY <1>2, <1>3, <1>4, <1>5

(* The task of a contribution, by kind.                                    *)
LEMMA OffTask ==
  ASSUME NEW t \in Task, ~Diag(t)
  PROVE  /\ t.op = "FUC" => /\ t = FUC(t.row, t.col) /\ t.row \in Struct[t.col]
                            /\ t.col \in Ahead(t.row, t.rank) /\ Goal(t) = t.row
         /\ t.op = "BUC" => /\ t = BUC(t.row, t.col) /\ t.row \in Struct[t.col]
                            /\ t.row \in Behind(t.col, t.rank) /\ Goal(t) = t.col
         /\ t.op \in {"FUC", "BUC"} /\ t.row \in Sup /\ t.col \in Sup
BY TaskShape DEF Below, Ahead, Before, Behind, Goal

LEMMA DiagTask ==
  ASSUME NEW t \in Task, Diag(t)
  PROVE  /\ t.op = "FUC" => t = FUC(Goal(t), Goal(t))
         /\ t.op = "BUC" => t = BUC(Goal(t), Goal(t))
         /\ t.op \in {"FUC", "BUC"} /\ Goal(t) \in Sup /\ t.row = Goal(t) /\ t.col = Goal(t)
         /\ t.rank = Home(Goal(t), Goal(t))
BY TaskShape DEF Diag, Goal

(* Tasks are told apart by kind and cell.                                  *)
LEMMA ByCell ==
  ASSUME NEW J, NEW K, NEW L, NEW M
  PROVE  /\ FUC(J, K) = FUC(L, M) => J = L /\ K = M
         /\ BUC(J, K) = BUC(L, M) => J = L /\ K = M
         /\ FUC(J, K) # BUC(L, M)
         /\ FUC(J, K).rank = Home(J, K) /\ BUC(J, K).rank = Home(J, K)
<1>1. /\ FUC(J, K).op = "FUC" /\ FUC(J, K).row = J /\ FUC(J, K).col = K
      /\ FUC(L, M).row = L /\ FUC(L, M).col = M
      /\ BUC(J, K).row = J /\ BUC(J, K).col = K
      /\ BUC(L, M).op = "BUC" /\ BUC(L, M).row = L /\ BUC(L, M).col = M
      /\ FUC(J, K).rank = Home(J, K) /\ BUC(J, K).rank = Home(J, K)
  BY DEF FUC, BUC, TaskOf
<1> QED
  BY <1>1

(* Which of these sets a task enters when it is executed.                  *)
LEMMA RanSets ==
  ASSUME NEW t \in Task, executed' = executed \cup {t}
  PROVE  \A J \in Sup : \A r :
    /\ AheadRan(J, r)' = AheadRan(J, r) \cup
         IF t.op = "FUC" /\ ~Diag(t) /\ t.row = J /\ t.rank = r THEN {t.col} ELSE {}
    /\ BehindRan(J, r)' = BehindRan(J, r) \cup
         IF t.op = "BUC" /\ ~Diag(t) /\ t.col = J /\ t.rank = r THEN {t.row} ELSE {}
    /\ (FUC(J, J) \in executed') <=> (FUC(J, J) \in executed
                                       \/ (t.op = "FUC" /\ Diag(t) /\ t.row = J))
    /\ (BUC(J, J) \in executed') <=> (BUC(J, J) \in executed
                                       \/ (t.op = "BUC" /\ Diag(t) /\ t.col = J))
<1> SUFFICES ASSUME NEW J \in Sup, NEW r
             PROVE
    /\ AheadRan(J, r)' = AheadRan(J, r) \cup
         IF t.op = "FUC" /\ ~Diag(t) /\ t.row = J /\ t.rank = r THEN {t.col} ELSE {}
    /\ BehindRan(J, r)' = BehindRan(J, r) \cup
         IF t.op = "BUC" /\ ~Diag(t) /\ t.col = J /\ t.rank = r THEN {t.row} ELSE {}
    /\ (FUC(J, J) \in executed') <=> (FUC(J, J) \in executed
                                       \/ (t.op = "FUC" /\ Diag(t) /\ t.row = J))
    /\ (BUC(J, J) \in executed') <=> (BUC(J, J) \in executed
                                       \/ (t.op = "BUC" /\ Diag(t) /\ t.col = J))
  OBVIOUS
<1>1. /\ t.op \in {"FUC", "BUC"} /\ t.rank = Home(t.row, t.col)
      /\ t.op = "FUC" => t = FUC(t.row, t.col)
      /\ t.op = "BUC" => t = BUC(t.row, t.col)
  BY TaskShape
<1>2. \A K, L : /\ FUC(L, K) = t <=> t.op = "FUC" /\ t.row = L /\ t.col = K
                /\ BUC(L, K) = t <=> t.op = "BUC" /\ t.row = L /\ t.col = K
  BY <1>1, ByCell
<1>3. AheadRan(J, r)' = {K \in Ahead(J, r) : FUC(J, K) \in executed \/ FUC(J, K) = t}
  BY DEF AheadRan, Ahead, Before, FUC
<1>4. BehindRan(J, r)' = {K \in Behind(J, r) : BUC(K, J) \in executed \/ BUC(K, J) = t}
  BY DEF BehindRan, Behind, BUC
<1>5. \A K \in Ahead(J, r) : K # J /\ (FUC(J, K) = t => t.rank = r)
  BY <1>1, <1>2, SidesApart DEF Ahead, Before
<1>6. \A K \in Behind(J, r) : K # J /\ (BUC(K, J) = t => t.rank = r)
  BY <1>1, <1>2, SidesApart DEF Behind
<1>7. t.op = "FUC" /\ ~Diag(t) /\ t.row = J /\ t.rank = r => t.col \in Ahead(J, r)
  BY OffTask
<1>8. t.op = "BUC" /\ ~Diag(t) /\ t.col = J /\ t.rank = r => t.row \in Behind(J, r)
  BY OffTask
<1>9. AheadRan(J, r)' = AheadRan(J, r) \cup
         IF t.op = "FUC" /\ ~Diag(t) /\ t.row = J /\ t.rank = r THEN {t.col} ELSE {}
  BY <1>2, <1>3, <1>5, <1>7 DEF AheadRan, Diag
<1>10. BehindRan(J, r)' = BehindRan(J, r) \cup
         IF t.op = "BUC" /\ ~Diag(t) /\ t.col = J /\ t.rank = r THEN {t.row} ELSE {}
  BY <1>2, <1>4, <1>6, <1>8 DEF BehindRan, Diag
<1>11. (FUC(J, J) \in executed') <=> (FUC(J, J) \in executed
                                      \/ (t.op = "FUC" /\ Diag(t) /\ t.row = J))
  <2>1. FUC(J, J) = t <=> t.op = "FUC" /\ t.row = J /\ t.col = J
    BY <1>2
  <2>2. (FUC(J, J) \in executed') <=> (FUC(J, J) \in executed \/ FUC(J, J) = t)
    OBVIOUS
  <2> QED
    BY <2>1, <2>2 DEF Diag
<1>12. (BUC(J, J) \in executed') <=> (BUC(J, J) \in executed
                                      \/ (t.op = "BUC" /\ Diag(t) /\ t.col = J))
  <2>1. BUC(J, J) = t <=> t.op = "BUC" /\ t.row = J /\ t.col = J
    BY <1>2
  <2>2. (BUC(J, J) \in executed') <=> (BUC(J, J) \in executed \/ BUC(J, J) = t)
    OBVIOUS
  <2> QED
    BY <2>1, <2>2 DEF Diag
<1> QED
  BY <1>9, <1>10, <1>11, <1>12

LEMMA ForwardRanSets ==
  ASSUME NEW t \in Task, executed' = executed \cup {t}, t.op = "FUC"
  PROVE  \A J \in Sup : \A r : BehindRan(J, r)' = BehindRan(J, r)
<1> SUFFICES ASSUME NEW J \in Sup, NEW r PROVE BehindRan(J, r)' = BehindRan(J, r)
  OBVIOUS
<1>1. BehindRan(J, r)' = BehindRan(J, r) \cup
        IF t.op = "BUC" /\ ~Diag(t) /\ t.col = J /\ t.rank = r THEN {t.row} ELSE {}
  BY RanSets
<1> QED
  BY <1>1

-----------------------------------------------------------------------------
(* What a diagonal task receives: the contributions of the other ranks.    *)

Contributors(op, J) == IF op = "FUC" THEN Before(J) ELSE Struct[J]
Side(op, J, r)      == IF op = "FUC" THEN Ahead(J, r) ELSE Behind(J, r)
Contributor(op, J, K) == IF op = "FUC" THEN FUC(J, K) ELSE BUC(K, J)

LEMMA SideFacts ==
  ASSUME NEW op \in {"FUC", "BUC"}, NEW J \in Sup
  PROVE  /\ Contributors(op, J) \subseteq Sup
         /\ \A r : Side(op, J, r) = {K \in Contributors(op, J) :
                                       Contributor(op, J, K).rank = r}
         /\ \A K \in Contributors(op, J) :
              LET u == Contributor(op, J, K)
              IN u \in Task /\ ~Diag(u) /\ u.op = op /\ Goal(u) = J
<1>1. Contributors(op, J) \subseteq Sup
  BY SidesApart DEF Contributors
<1>2. \A r : Side(op, J, r) = {K \in Contributors(op, J) :
                                 Contributor(op, J, K).rank = r}
  BY ByCell DEF Side, Contributors, Contributor, Ahead, Behind
<1>3. ASSUME NEW K \in Before(J)
      PROVE  FUC(J, K) \in Task /\ ~Diag(FUC(J, K)) /\ FUC(J, K).op = "FUC"
             /\ Goal(FUC(J, K)) = J
  <2>1. K \in Sup /\ J \in Struct[K] /\ K # J
    BY SidesApart DEF Before
  <2> QED
    BY <2>1, BelowSends DEF FUC, TaskOf, Diag, Goal
<1>4. ASSUME NEW K \in Struct[J]
      PROVE  BUC(K, J) \in Task /\ ~Diag(BUC(K, J)) /\ BUC(K, J).op = "BUC"
             /\ Goal(BUC(K, J)) = J
  <2>1. K # J
    BY SidesApart
  <2> QED
    BY <2>1, BelowSends DEF BUC, TaskOf, Diag, Goal
<1> QED
  BY <1>1, <1>2, <1>3, <1>4 DEF Contributors, Contributor

LEMMA ReceivedFrom ==
  ASSUME NEW t \in Task, Diag(t), NEW m \in Inputs(t)
  PROVE  /\ m \in Rpcs /\ m[1] \in Task /\ ~Diag(m[1]) /\ Contributes(m[1])
         /\ m[1].op = t.op /\ Goal(m[1]) = Goal(t) /\ m[1].rank # t.rank
         /\ Announced(m)
<1>1. /\ m \in Rpcs /\ m[2] = t.rank /\ data[m] # "absent" /\ t \in TargetsOn(m[1], m[2])
  BY DEF Inputs
<1>2. m[1] \in Task /\ m[1].rank # m[2]
      /\ (~Diag(m[1]) => Contributes(m[1]) /\ TargetsOn(m[1], m[2]) = {Final(m[1])})
  BY <1>1, RpcShape
<1>3. PICK e \in Edges : e.from = m[1] /\ e.to = t
  BY <1>1 DEF TargetsOn
<1>4. ~Diag(m[1])
  BY <1>1, <1>2, <1>3, EdgeShape
<1>5. t = Final(m[1])
  BY <1>1, <1>2, <1>4
<1>6. t.op = m[1].op /\ Goal(t) = Goal(m[1])
  BY <1>2, <1>4, <1>5, ContributionShape
<1> QED
  BY <1>1, <1>2, <1>4, <1>6 DEF Announced

LEMMA SentTerms ==
  ASSUME GotExact, NEW m \in Rpcs, data[m] = "landed", m[1] \in Task, ~Diag(m[1]),
         NEW K \in Sup
  PROVE  got[m].terms[K] = IF K \in Side(m[1].op, Goal(m[1]), m[1].rank) THEN 1 ELSE 0
<1>1. m[1].op \in {"FUC", "BUC"}
  BY TaskShape
<1>2. got[m] = Content(Ones(Side(m[1].op, Goal(m[1]), m[1].rank)), 0, FALSE)
  BY <1>1 DEF GotExact, Sent, Side, Goal
<1> QED
  BY <1>2 DEF Content, Ones

LEMMA ReceivedSum ==
  ASSUME IInv, GotExact, NEW t \in ready, Diag(t), NEW K \in Sup
  PROVE  Added(K, LandedInputs(t)) =
           IF K \in Contributors(t.op, Goal(t)) \ Side(t.op, Goal(t), t.rank)
           THEN 1 ELSE 0
<1> DEFINE J == Goal(t)
           D == LandedInputs(t)
           M == {d \in D : K \in Side(t.op, J, d[1].rank)}
<1>1. t \in Task /\ Started(t) /\ inCnt[t] = 0
  BY StartedZero DEF IInv, TypeOK, Started
<1>2. /\ t.op \in {"FUC", "BUC"} /\ J \in Sup /\ t.rank = Home(J, J)
      /\ t = TaskOf(t.op, J, J, J, Home(J, J))
  BY <1>1, DiagTask, TaskShape
<1>3. IsFiniteSet(D)
  BY <1>1, CountTypes
<1>4. \A d \in D : /\ d \in Rpcs /\ d[1] \in Task /\ ~Diag(d[1]) /\ d[1].op = t.op
                   /\ Goal(d[1]) = J /\ d[1].rank # t.rank
                   /\ data[d] = "landed" /\ Announced(d) /\ Contributes(d[1])
  BY <1>1, ReceivedFrom DEF LandedInputs
<1>5. \A d \in D : got[d].terms[K] = IF d \in M THEN 1 ELSE 0
  BY <1>4, SentTerms
<1>6. \A r : K \in Side(t.op, J, r) => /\ K \in Contributors(t.op, J)
                                       /\ Contributor(t.op, J, K).rank = r
  BY <1>2, SideFacts
<1>7. ASSUME NEW m \in M, NEW n \in M PROVE m = n
  <2>1. m[1].rank = n[1].rank
    BY <1>6
  <2>2. n[1] \in Peers(m[1])
    BY <1>4, <2>1 DEF Peers
  <2> QED
    BY <1>4, <2>2 DEF IInv, AnnouncedOnce
<1>8. ASSUME M # {}
      PROVE  K \in Contributors(t.op, J) \ Side(t.op, J, t.rank)
  <2>1. PICK m \in M : TRUE
    BY <1>8
  <2>2. m[1].rank # t.rank /\ K \in Side(t.op, J, m[1].rank)
    BY <1>4, <2>1
  <2> QED
    BY <1>6, <2>2
<1>9. ASSUME K \in Contributors(t.op, J) \ Side(t.op, J, t.rank)
      PROVE  M # {}
  <2> DEFINE u == Contributor(t.op, J, K)
             e == Contribution(u)
  <2>1. /\ u \in Task /\ ~Diag(u) /\ u.op = t.op /\ Goal(u) = J
        /\ K \in Side(t.op, J, u.rank) /\ u.rank # t.rank
    BY <1>2, <1>9, SideFacts
  <2> HIDE DEF u
  <2>2. e \in Edges /\ e.from = u /\ e.to = Final(u)
    BY <2>1, ContributionShape
  <2>3. Final(u) = t
    BY <1>2, <2>1 DEF Final
  <2> HIDE DEF e
  <2>4. PICK m \in Rpcs : data[m] = "landed" /\ Carries(m, e) /\ m \in Inputs(t)
    BY <1>1, <2>1, <2>2, <2>3, SendersRan
  <2>5. m \in D
    BY <2>4 DEF LandedInputs
  <2>6. u \in Peers(m[1])
    BY <1>4, <2>2, <2>4, <2>5 DEF Carries
  <2>7. u.rank = m[1].rank
    BY <2>6 DEF Peers
  <2> QED
    BY <2>1, <2>5, <2>7
<1> HIDE DEF M, D
<1>10. M \in SUBSET D
  BY DEF M
<1>11. Added(K, D) = IF M # {} THEN 1 ELSE 0
  BY <1>3, <1>5, <1>7, <1>10, AddedOnce
<1> QED
  BY <1>8, <1>9, <1>11 DEF D

-----------------------------------------------------------------------------
(* A task leaves what the other slots should hold as it was.               *)
LEMMA ElsewhereSame ==
  ASSUME NEW t \in Task, executed' = executed \cup {t}, NEW J \in Sup, NEW q,
         q # t.rank \/ J # Goal(t)
  PROVE  /\ AwayValue(J, q)' = AwayValue(J, q)
         /\ q = Home(J, J) => OwnValue(J)' = OwnValue(J)
<1>1. t.op \in {"FUC", "BUC"} /\ t.rank = Home(t.row, t.col)
  BY TaskShape
<1>2. AheadRan(J, q)' = AheadRan(J, q) /\ BehindRan(J, q)' = BehindRan(J, q)
  <2>1. /\ ~(t.op = "FUC" /\ ~Diag(t) /\ t.row = J /\ t.rank = q)
        /\ ~(t.op = "BUC" /\ ~Diag(t) /\ t.col = J /\ t.rank = q)
    BY DEF Goal
  <2>2. /\ AheadRan(J, q)' = AheadRan(J, q) \cup
             IF t.op = "FUC" /\ ~Diag(t) /\ t.row = J /\ t.rank = q THEN {t.col} ELSE {}
        /\ BehindRan(J, q)' = BehindRan(J, q) \cup
             IF t.op = "BUC" /\ ~Diag(t) /\ t.col = J /\ t.rank = q THEN {t.row} ELSE {}
    BY RanSets
  <2> QED
    BY <2>1, <2>2
<1>3. ASSUME q = Home(J, J)
      PROVE  /\ (FUC(J, J) \in executed') <=> (FUC(J, J) \in executed)
             /\ (BUC(J, J) \in executed') <=> (BUC(J, J) \in executed)
  <2>1. /\ ~(t.op = "FUC" /\ Diag(t) /\ t.row = J)
        /\ ~(t.op = "BUC" /\ Diag(t) /\ t.col = J)
    BY <1>1, <1>3 DEF Goal, Diag
  <2> QED
    BY <2>1, RanSets
<1>4. AwayValue(J, q)' = AwayValue(J, q)
  BY <1>2 DEF AwayValue, Content, Ones
<1>5. ASSUME q = Home(J, J)
      PROVE  OwnValue(J)' = OwnValue(J)
  <2>1. /\ AheadRan(J, Home(J, J))' = AheadRan(J, Home(J, J))
        /\ BehindRan(J, Home(J, J))' = BehindRan(J, Home(J, J))
    BY <1>2, <1>5
  <2>2. OwnForward(J)' = OwnForward(J) /\ OwnBackward(J)' = OwnBackward(J)
    BY <1>3, <1>5, <2>1 DEF OwnForward, OwnBackward, FUC, BUC, Before
  <2>3. OwnSolved(J)' = OwnSolved(J) /\ OwnScaled(J)' = OwnScaled(J)
    BY <1>3, <1>5, <2>1 DEF OwnSolved, OwnScaled, FUC, BUC
  <2> QED
    BY <2>2, <2>3 DEF OwnValue, Content, Ones
<1> QED
  BY <1>4, <1>5

(* The tasks of one contribution.                                          *)
LEMMA PeersAre ==
  ASSUME NEW t \in Task, ~Diag(t)
  PROVE  /\ t.op = "FUC" =>
              Peers(t) = {FUC(Goal(t), K) : K \in Ahead(Goal(t), t.rank)}
         /\ t.op = "BUC" =>
              Peers(t) = {BUC(K, Goal(t)) : K \in Behind(Goal(t), t.rank)}
<1> DEFINE J == Goal(t)
           r == t.rank
<1>1. J \in Sup /\ t.op \in {"FUC", "BUC"}
  BY OffTask, GoalShape
<1>2. \A u \in Peers(t) : /\ u \in Task /\ ~Diag(u) /\ u.op = t.op
                          /\ Goal(u) = J /\ u.rank = r
  BY DEF Peers
<1>3. ASSUME t.op = "FUC"
      PROVE  Peers(t) = {FUC(J, K) : K \in Ahead(J, r)}
  <2>1. ASSUME NEW u \in Peers(t)
        PROVE  u \in {FUC(J, K) : K \in Ahead(J, r)}
    <3>1. u = FUC(J, u.col) /\ u.col \in Ahead(J, r)
      BY <1>2, <1>3, OffTask
    <3> QED
      BY <3>1
  <2>2. ASSUME NEW K \in Ahead(J, r)
        PROVE  FUC(J, K) \in Peers(t)
    <3>1. K \in Contributors("FUC", J) /\ Contributor("FUC", J, K) = FUC(J, K)
          /\ FUC(J, K).rank = r
      BY ByCell DEF Ahead, Contributors, Contributor
    <3>2. /\ FUC(J, K) \in Task /\ ~Diag(FUC(J, K))
          /\ FUC(J, K).op = "FUC" /\ Goal(FUC(J, K)) = J
      BY <1>1, <3>1, SideFacts
    <3> QED
      BY <1>3, <3>1, <3>2 DEF Peers
  <2> QED
    BY <2>1, <2>2
<1>4. ASSUME t.op = "BUC"
      PROVE  Peers(t) = {BUC(K, J) : K \in Behind(J, r)}
  <2>1. ASSUME NEW u \in Peers(t)
        PROVE  u \in {BUC(K, J) : K \in Behind(J, r)}
    <3>1. u = BUC(u.row, J) /\ u.row \in Behind(J, r)
      BY <1>2, <1>4, OffTask
    <3> QED
      BY <3>1
  <2>2. ASSUME NEW K \in Behind(J, r)
        PROVE  BUC(K, J) \in Peers(t)
    <3>1. K \in Contributors("BUC", J) /\ Contributor("BUC", J, K) = BUC(K, J)
          /\ BUC(K, J).rank = r
      BY ByCell DEF Behind, Contributors, Contributor
    <3>2. /\ BUC(K, J) \in Task /\ ~Diag(BUC(K, J))
          /\ BUC(K, J).op = "BUC" /\ Goal(BUC(K, J)) = J
      BY <1>1, <3>1, SideFacts
    <3> QED
      BY <1>4, <3>1, <3>2 DEF Peers
  <2> QED
    BY <2>1, <2>2
<1> QED
  BY <1>3, <1>4

(* Which of them have been executed.                                       *)
LEMMA PeersRan ==
  ASSUME NEW t \in Task, ~Diag(t)
  PROVE  /\ t.op = "FUC" =>
              /\ (Peers(t) \cap executed = {}) <=> AheadRan(Goal(t), t.rank) = {}
              /\ Peers(t) \subseteq executed =>
                   AheadRan(Goal(t), t.rank) = Ahead(Goal(t), t.rank)
         /\ t.op = "BUC" =>
              /\ (Peers(t) \cap executed = {}) <=> BehindRan(Goal(t), t.rank) = {}
              /\ Peers(t) \subseteq executed =>
                   BehindRan(Goal(t), t.rank) = Behind(Goal(t), t.rank)
BY PeersAre DEF AheadRan, BehindRan

(* A slot that is not there has got nothing yet from a contribution that   *)
(* is not complete.                                                        *)
LEMMA FreshSlot ==
  ASSUME IInv, NEW t \in Task, Contributes(t), t \notin executed,
         ~slots[t.rank][Goal(t)].there
  PROVE  Peers(t) \cap executed = {} /\ slots[t.rank][Goal(t)] = NoSlot
<1>1. /\ t.rank \in Rank /\ Goal(t) \in Sup /\ ~Diag(t)
      /\ Home(Goal(t), Goal(t)) # t.rank
  BY GoalShape DEF Contributes, Away
<1>2. LentFor(t.rank, Goal(t)) = {} /\ slots[t.rank][Goal(t)] = NoSlot
  BY <1>1 DEF IInv, SlotsExact
<1>3. ~GivenBack(t)
  <2>1. ASSUME NEW m \in Rpcs, m[1] \in Peers(t), data[m] = "landed"
        PROVE  FALSE
    <3>1. ~Diag(m[1]) /\ Peers(m[1]) = Peers(t) /\ t \in Peers(t)
      BY <1>1, <2>1, PeersShape
    <3>2. Peers(m[1]) \subseteq executed
      BY <2>1, <3>1 DEF IInv, AnnouncedOnce, Announced
    <3> QED
      BY <3>1, <3>2
  <2> QED
    BY <2>1 DEF GivenBack
<1>4. Peers(t) \cap executed = {}
  BY <1>2, <1>3 DEF LentFor, Lent
<1> QED
  BY <1>2, <1>4

-----------------------------------------------------------------------------
(* What each kind of task makes of its slot.                               *)

(* FUC(J, J): what the rank had contributed, J and what it was sent.       *)
LEMMA ForwardDiagValue ==
  ASSUME IInv, VInv, NEW t \in ready, t.op = "FUC", Diag(t),
         executed' = executed \cup {t}
  PROVE  Computed(t, slots[t.rank][Goal(t)]).value = OwnValue(Goal(t))'
<1> DEFINE J == Goal(t)
           r == t.rank
           slot == slots[r][J]
<1>1. t \in Task /\ t \notin executed /\ Started(t)
  BY DEF IInv, TypeOK, ReadyExact, Started
<1>2. /\ J \in Sup /\ r = Home(J, J) /\ r \in Rank /\ t = FUC(J, J)
      /\ t.row = J /\ t.col = J
  BY <1>1, DiagTask, GoalShape
<1> HIDE DEF J, r
<1>3. /\ BehindRan(J, r) = {} /\ BUC(J, J) \notin executed
      /\ AheadRan(J, r) = Ahead(J, r)
  <2>1. \A K \in Before(J) : FUC(J, K) \in executed
    BY <1>1, <1>2, PhaseOrder
  <2> QED
    BY <1>1, <1>2, <2>1, RanOrder DEF AheadRan, Ahead
<1>4. slot.value = Content(Ones(Ahead(J, r)), 0, FALSE)
  <2>1. slot.value = OwnValue(J)
    BY <1>2 DEF VInv, ValuesExact
  <2>2. OwnForward(J) \cup OwnBackward(J) = Ahead(J, r)
    BY <1>1, <1>2, <1>3 DEF OwnForward, OwnBackward
  <2>3. OwnSolved(J) = 0 /\ OwnScaled(J) = FALSE
    BY <1>1, <1>2, <1>3 DEF OwnSolved, OwnScaled
  <2> QED
    BY <2>1, <2>2, <2>3 DEF OwnValue
<1>5. SlotOK(slot)
  BY <1>2 DEF IInv, TypeOK
<1>6. /\ Ahead(J, r) \subseteq Before(J) /\ J \notin Before(J)
      /\ Before(J) \subseteq Sup
  BY <1>2, SidesApart DEF Ahead
<1>7. \A K \in Sup : Added(K, LandedInputs(t)) =
                       IF K \in Before(J) \ Ahead(J, r) THEN 1 ELSE 0
  BY <1>2, ReceivedSum DEF VInv, Contributors, Side, J, r
<1>8. Plus(slot.value, t.row) = Content(Ones(Ahead(J, r) \cup {J}), 0, FALSE)
  <2>1. J \in Sup /\ J \notin Ahead(J, r)
    BY <1>2, <1>6
  <2>2. PICK A, b : A = Ahead(J, r) /\ b = FALSE
    OBVIOUS
  <2>3. Plus(Content(Ones(A), 0, b), J) = Content(Ones(A \cup {J}), 0, b)
    BY <2>1, <2>2, PlusOnes
  <2> QED
    BY <1>2, <1>4, <2>2, <2>3
<1>9. PlusAll(Plus(slot.value, t.row), LandedInputs(t))
        = Content(Ones({J} \cup Before(J)), 0, FALSE)
  <2>1. PICK A, B, D, b : /\ A = Ahead(J, r) \cup {J} /\ B = Before(J) \ Ahead(J, r)
                          /\ D = LandedInputs(t) /\ b = FALSE
    OBVIOUS
  <2>2. A \cap B = {} /\ A \cup B = {J} \cup Before(J)
    BY <1>6, <2>1
  <2>3. Brings(D, B)
    BY <1>7, <2>1 DEF Brings
  <2>4. PlusAll(Content(Ones(A), 0, b), D) = Content(Ones(A \cup B), 0, b)
    BY <2>2, <2>3, PlusAllOnes
  <2> QED
    BY <1>8, <2>1, <2>2, <2>4
<1>10. Computed(t, slot).value = Content(Ones({J} \cup Before(J)), 1, FALSE)
  <2>1. Computed(t, slot).value =
          [PlusAll(Plus(slot.value, t.row), LandedInputs(t)) EXCEPT !.solved = @ + 1]
    BY <1>1, <1>5, ComputedValue
  <2>2. PICK T, b : T = Ones({J} \cup Before(J)) /\ b = FALSE
    OBVIOUS
  <2>3. [Content(T, 0, b) EXCEPT !.solved = @ + 1] = Content(T, 1, b)
    BY DEF Content
  <2> QED
    BY <1>9, <2>1, <2>2, <2>3
<1>11. OwnValue(J)' = Content(Ones({J} \cup Before(J)), 1, FALSE)
  <2>1. FUC(J, J) \in executed' /\ BUC(J, J) \notin executed'
    BY <1>1, <1>2, <1>3, RanSets
  <2>2. BehindRan(J, Home(J, J))' = {}
    <3>1. BehindRan(J, r)' = BehindRan(J, r) \cup
            IF t.op = "BUC" /\ ~Diag(t) /\ t.col = J /\ t.rank = r THEN {t.row} ELSE {}
      BY <1>1, <1>2, RanSets
    <3> QED
      BY <1>2, <1>3, <3>1
  <2>3. OwnForward(J)' \cup OwnBackward(J)' = {J} \cup Before(J)
    BY <2>1, <2>2 DEF OwnForward, OwnBackward, FUC, BUC, Before
  <2>4. OwnSolved(J)' = 1 /\ OwnScaled(J)' = FALSE
    BY <2>1, <2>2 DEF OwnSolved, OwnScaled, FUC, BUC
  <2> QED
    BY <2>3, <2>4 DEF OwnValue, Content, Ones
<1> QED
  BY <1>10, <1>11 DEF J, r

(* BUC(J, J): the solution of J, scaled by D before the contributions.     *)
LEMMA BackwardDiagValue ==
  ASSUME IInv, VInv, NEW t \in ready, t.op = "BUC", Diag(t),
         executed' = executed \cup {t}
  PROVE  Computed(t, slots[t.rank][Goal(t)]).value = OwnValue(Goal(t))'
<1> DEFINE J == Goal(t)
           r == t.rank
           slot == slots[r][J]
           A == ({J} \cup Before(J)) \cup Behind(J, r)
           B == Struct[J] \ Behind(J, r)
<1>1. t \in Task /\ t \notin executed /\ Started(t)
  BY DEF IInv, TypeOK, ReadyExact, Started
<1>2. /\ J \in Sup /\ r = Home(J, J) /\ r \in Rank /\ t = BUC(J, J)
      /\ t.row = J /\ t.col = J
  BY <1>1, DiagTask, GoalShape
<1> HIDE DEF J, r
<1>3. FUC(J, J) \in executed /\ BehindRan(J, r) = Behind(J, r)
  <2>1. FUC(J, J) \in executed /\ \A K \in Struct[J] : BUC(K, J) \in executed
    BY <1>1, <1>2, PhaseOrder
  <2> QED
    BY <2>1 DEF BehindRan, Behind
<1>4. PICK b : /\ slot.value = Content(Ones(A), 1, b)
               /\ b = FALSE \/ b = LDL
  <2>1. slot.value = OwnValue(J)
    BY <1>2 DEF VInv, ValuesExact
  <2>2. OwnForward(J) \cup OwnBackward(J) = A
    BY <1>1, <1>2, <1>3 DEF OwnForward, OwnBackward
  <2>3. OwnSolved(J) = 1 /\ (OwnScaled(J) = FALSE \/ OwnScaled(J) = LDL)
    BY <1>1, <1>2, <1>3 DEF OwnSolved, OwnScaled
  <2> HIDE DEF A
  <2> QED
    BY <2>1, <2>2, <2>3 DEF OwnValue
<1>5. SlotOK(slot)
  BY <1>2 DEF IInv, TypeOK
<1>6. A \cap B = {} /\ A \cup B = ({J} \cup Before(J)) \cup Struct[J]
  BY <1>2, SidesApart DEF Behind
<1>7. \A K \in Sup : Added(K, LandedInputs(t)) = IF K \in B THEN 1 ELSE 0
  BY <1>2, ReceivedSum DEF VInv, Contributors, Side, J, r
<1> HIDE DEF A, B
<1>8. Scaled(slot.value) = Content(Ones(A), 1, LDL)
  BY <1>4, ScaledContent
<1>9. PlusAll(Scaled(slot.value), LandedInputs(t)) = Content(Ones(A \cup B), 1, LDL)
  <2>1. PICK D : D = LandedInputs(t)
    OBVIOUS
  <2>2. Brings(D, B)
    BY <1>7, <2>1 DEF Brings
  <2>3. PlusAll(Content(Ones(A), 1, LDL), D) = Content(Ones(A \cup B), 1, LDL)
    BY <1>6, <2>2, PlusAllOnes
  <2> QED
    BY <1>8, <2>1, <2>3
<1>10. Computed(t, slot).value = Content(Ones(A \cup B), 2, LDL)
  <2>1. Computed(t, slot).value =
          [PlusAll(Scaled(slot.value), LandedInputs(t)) EXCEPT !.solved = @ + 1]
    BY <1>1, <1>5, ComputedValue
  <2>2. PICK T : T = Ones(A \cup B)
    OBVIOUS
  <2>3. [Content(T, 1, LDL) EXCEPT !.solved = @ + 1] = Content(T, 2, LDL)
    BY DEF Content
  <2> QED
    BY <1>9, <2>1, <2>2, <2>3
<1>11. OwnValue(J)' = Content(Ones(A \cup B), 2, LDL)
  <2>1. FUC(J, J) \in executed' /\ BUC(J, J) \in executed'
    BY <1>1, <1>2, <1>3, RanSets
  <2>2. OwnForward(J)' \cup OwnBackward(J)' = A \cup B
    BY <1>6, <2>1 DEF OwnForward, OwnBackward, FUC, BUC, Before
  <2>3. OwnSolved(J)' = 2 /\ OwnScaled(J)' = LDL
    BY <2>1 DEF OwnSolved, OwnScaled, FUC, BUC
  <2> QED
    BY <2>2, <2>3 DEF OwnValue, Content, Ones
<1> QED
  BY <1>10, <1>11 DEF J, r

(* FUC(J, I) on the owner of J.                                            *)
LEMMA ForwardHomeValue ==
  ASSUME IInv, VInv, NEW t \in ready, t.op = "FUC", ~Diag(t), ~Away(t),
         executed' = executed \cup {t}
  PROVE  Computed(t, slots[t.rank][Goal(t)]).value = OwnValue(Goal(t))'
<1> DEFINE J == Goal(t)
           r == t.rank
           slot == slots[r][J]
           A == AheadRan(J, r)
<1>1. t \in Task /\ t \notin executed /\ Started(t)
  BY DEF IInv, TypeOK, ReadyExact, Started
<1>2. /\ J \in Sup /\ r = Home(J, J) /\ r \in Rank
      /\ t = FUC(J, t.col) /\ t.row = J /\ t.col \in Ahead(J, r)
      /\ t.col \in Before(J) /\ t.col \in Sup
  BY <1>1, OffTask, GoalShape DEF Away, Ahead
<1> HIDE DEF J, r
<1>3. FUC(J, J) \notin executed /\ BehindRan(J, r) = {} /\ BUC(J, J) \notin executed
  <2>1. FUC(J, J) \notin executed
    BY <1>1, <1>2, RanStarted, PhaseOrder
  <2> QED
    BY <1>2, <2>1, RanOrder
<1>4. slot.value = Content(Ones(A), 0, FALSE)
  <2>1. slot.value = OwnValue(J)
    BY <1>2 DEF VInv, ValuesExact
  <2>2. OwnForward(J) \cup OwnBackward(J) = A
    BY <1>2, <1>3 DEF OwnForward, OwnBackward
  <2>3. OwnSolved(J) = 0 /\ OwnScaled(J) = FALSE
    BY <1>2, <1>3 DEF OwnSolved, OwnScaled
  <2> HIDE DEF A
  <2> QED
    BY <2>1, <2>2, <2>3 DEF OwnValue
<1>5. SlotOK(slot)
  BY <1>2 DEF IInv, TypeOK
<1>6. t.col \notin A
  BY <1>1, <1>2 DEF AheadRan
<1>7. Computed(t, slot).value = Plus(slot.value, t.col)
  BY <1>1, <1>5, ComputedValue
<1> HIDE DEF A
<1>8. Plus(Content(Ones(A), 0, FALSE), t.col) = Content(Ones(A \cup {t.col}), 0, FALSE)
  <2>1. PICK k, b : k = t.col /\ b = FALSE
    OBVIOUS
  <2>2. Plus(Content(Ones(A), 0, b), k) = Content(Ones(A \cup {k}), 0, b)
    BY <1>2, <1>6, <2>1, PlusOnes
  <2> QED
    BY <2>1, <2>2
<1>9. OwnValue(J)' = Content(Ones(A \cup {t.col}), 0, FALSE)
  <2>1. FUC(J, J) \notin executed' /\ BUC(J, J) \notin executed'
    BY <1>1, <1>2, <1>3, RanSets
  <2>2. /\ AheadRan(J, r)' = AheadRan(J, r) \cup
             IF t.op = "FUC" /\ ~Diag(t) /\ t.row = J /\ t.rank = r THEN {t.col} ELSE {}
        /\ BehindRan(J, r)' = BehindRan(J, r)
    <3>1. AheadRan(J, r)' = AheadRan(J, r) \cup
            IF t.op = "FUC" /\ ~Diag(t) /\ t.row = J /\ t.rank = r THEN {t.col} ELSE {}
      BY <1>1, <1>2, RanSets
    <3>2. BehindRan(J, r)' = BehindRan(J, r)
      BY <1>1, <1>2, ForwardRanSets
    <3> QED
      BY <3>1, <3>2
  <2>3. AheadRan(J, r)' = A \cup {t.col} /\ BehindRan(J, r)' = {}
    BY <1>2, <1>3, <2>2 DEF A, r
  <2>4. OwnForward(J)' \cup OwnBackward(J)' = A \cup {t.col}
    BY <1>2, <2>1, <2>3 DEF OwnForward, OwnBackward, FUC, BUC
  <2>5. OwnSolved(J)' = 0 /\ OwnScaled(J)' = FALSE
    BY <1>2, <2>1, <2>3 DEF OwnSolved, OwnScaled, FUC, BUC
  <2> QED
    BY <2>4, <2>5 DEF OwnValue, Content, Ones
<1> QED
  BY <1>4, <1>7, <1>8, <1>9 DEF J, r

(* FUC(J, I) on another rank: the slot holds what the rank's other tasks   *)
(* contributed to J, or is new.                                            *)
LEMMA ForwardAwayValue ==
  ASSUME IInv, VInv, NEW t \in ready, t.op = "FUC", ~Diag(t), Away(t),
         executed' = executed \cup {t}
  PROVE  Computed(t, slots[t.rank][Goal(t)]).value = AwayValue(Goal(t), t.rank)'
<1> DEFINE J == Goal(t)
           r == t.rank
           slot == slots[r][J]
           A == AheadRan(J, r)
<1>1. t \in Task /\ t \notin executed /\ Started(t) /\ Contributes(t)
  BY DEF IInv, TypeOK, ReadyExact, Started, Contributes
<1>2. /\ J \in Sup /\ r # Home(J, J) /\ r \in Rank
      /\ t = FUC(J, t.col) /\ t.row = J /\ t.col \in Ahead(J, r)
      /\ t.col \in Before(J) /\ t.col \in Sup
  BY <1>1, OffTask, GoalShape DEF Away, Ahead
<1>3. A = {} <=> Peers(t) \cap executed = {}
  BY <1>1, PeersRan
<1> HIDE DEF J, r
<1>4. BehindRan(J, r) = {}
  <2>1. FUC(J, J) \notin executed
    BY <1>1, <1>2, RanStarted, PhaseOrder
  <2> QED
    BY <1>2, <2>1, RanOrder
<1>5. slot.value = Content(Ones(A), 0, FALSE)
  <2>1. CASE slot.there
    <3>1. slot.value = AwayValue(J, r)
      BY <1>2, <2>1 DEF VInv, ValuesExact
    <3> QED
      BY <1>4, <3>1 DEF AwayValue
  <2>2. CASE ~slot.there
    <3>1. A = {} /\ slot = NoSlot
      BY <1>1, <1>3, <2>2, FreshSlot DEF J, r
    <3> HIDE DEF A
    <3> QED
      BY <3>1, ZeroContent DEF NoSlot
  <2> QED
    BY <2>1, <2>2
<1>6. SlotOK(slot)
  BY <1>2 DEF IInv, TypeOK
<1>7. t.col \notin A
  BY <1>1, <1>2 DEF AheadRan
<1>8. Computed(t, slot).value = Plus(slot.value, t.col)
  BY <1>1, <1>6, ComputedValue
<1> HIDE DEF A
<1>9. Plus(Content(Ones(A), 0, FALSE), t.col) = Content(Ones(A \cup {t.col}), 0, FALSE)
  <2>1. PICK k, b : k = t.col /\ b = FALSE
    OBVIOUS
  <2>2. Plus(Content(Ones(A), 0, b), k) = Content(Ones(A \cup {k}), 0, b)
    BY <1>2, <1>7, <2>1, PlusOnes
  <2> QED
    BY <2>1, <2>2
<1>10. AwayValue(J, r)' = Content(Ones(A \cup {t.col}), 0, FALSE)
  <2>1. /\ AheadRan(J, r)' = AheadRan(J, r) \cup
             IF t.op = "FUC" /\ ~Diag(t) /\ t.row = J /\ t.rank = r THEN {t.col} ELSE {}
        /\ BehindRan(J, r)' = BehindRan(J, r)
    <3>1. AheadRan(J, r)' = AheadRan(J, r) \cup
            IF t.op = "FUC" /\ ~Diag(t) /\ t.row = J /\ t.rank = r THEN {t.col} ELSE {}
      BY <1>1, <1>2, RanSets
    <3>2. BehindRan(J, r)' = BehindRan(J, r)
      BY <1>1, <1>2, ForwardRanSets
    <3> QED
      BY <3>1, <3>2
  <2>2. AheadRan(J, r)' = A \cup {t.col} /\ BehindRan(J, r)' = {}
    BY <1>2, <1>4, <2>1 DEF A, r
  <2> QED
    BY <2>2 DEF AwayValue, Content, Ones
<1> QED
  BY <1>5, <1>8, <1>9, <1>10 DEF J, r

(* BUC(J, I) on the owner of I.                                            *)
LEMMA BackwardHomeValue ==
  ASSUME IInv, VInv, NEW t \in ready, t.op = "BUC", ~Diag(t), ~Away(t),
         executed' = executed \cup {t}
  PROVE  Computed(t, slots[t.rank][Goal(t)]).value = OwnValue(Goal(t))'
<1> DEFINE J == Goal(t)
           r == t.rank
           slot == slots[r][J]
           A == ({J} \cup Before(J)) \cup BehindRan(J, r)
<1>1. t \in Task /\ t \notin executed /\ Started(t)
  BY DEF IInv, TypeOK, ReadyExact, Started
<1>2. /\ J \in Sup /\ r = Home(J, J) /\ r \in Rank
      /\ t = BUC(t.row, J) /\ t.col = J /\ t.row \in Behind(J, r)
      /\ t.row \in Struct[J] /\ t.row \in Sup
  BY <1>1, OffTask, GoalShape DEF Away, Behind
<1> HIDE DEF J, r
<1>3. FUC(J, J) \in executed /\ BUC(J, J) \notin executed
  <2>1. BUC(J, J) \notin executed
    BY <1>1, <1>2, RanStarted, PhaseOrder
  <2> QED
    BY <1>1, <1>2, <2>1, PhaseOrder
<1>4. PICK b : /\ slot.value = Content(Ones(A), 1, b)
               /\ b = FALSE \/ b = LDL
  <2>1. slot.value = OwnValue(J)
    BY <1>2 DEF VInv, ValuesExact
  <2>2. OwnForward(J) \cup OwnBackward(J) = A
    BY <1>2, <1>3 DEF OwnForward, OwnBackward
  <2>3. OwnSolved(J) = 1 /\ (OwnScaled(J) = FALSE \/ OwnScaled(J) = LDL)
    BY <1>2, <1>3 DEF OwnSolved, OwnScaled
  <2> HIDE DEF A
  <2> QED
    BY <2>1, <2>2, <2>3 DEF OwnValue
<1>5. SlotOK(slot)
  BY <1>2 DEF IInv, TypeOK
<1>6. t.row \notin A
  BY <1>1, <1>2, SidesApart DEF BehindRan
<1>7. Computed(t, slot).value = Plus(Scaled(slot.value), t.row)
  BY <1>1, <1>5, ComputedValue
<1>8. OwnValue(J)' = Content(Ones(A \cup {t.row}), 1, LDL)
  <2>1. FUC(J, J) \in executed' /\ BUC(J, J) \notin executed'
    BY <1>1, <1>2, <1>3, RanSets
  <2>2. BehindRan(J, r)' = BehindRan(J, r) \cup
          IF t.op = "BUC" /\ ~Diag(t) /\ t.col = J /\ t.rank = r THEN {t.row} ELSE {}
    BY <1>1, <1>2, RanSets
  <2>3. BehindRan(J, r)' = BehindRan(J, r) \cup {t.row}
    BY <1>2, <2>2 DEF r
  <2>4. OwnForward(J)' \cup OwnBackward(J)' = A \cup {t.row}
    BY <1>2, <2>1, <2>3 DEF OwnForward, OwnBackward, FUC, BUC, Before
  <2>5. OwnSolved(J)' = 1
    BY <2>1 DEF OwnSolved, FUC, BUC
  <2>6. OwnScaled(J)' = LDL
    <3>1. BehindRan(J, Home(J, J))' # {}
      BY <1>2, <2>3
    <3> QED
      BY <3>1 DEF OwnScaled
  <2> HIDE DEF A
  <2> QED
    BY <2>4, <2>5, <2>6 DEF OwnValue, Content, Ones
<1> HIDE DEF A
<1>9. Scaled(slot.value) = Content(Ones(A), 1, LDL)
  BY <1>4, ScaledContent
<1>10. Plus(Content(Ones(A), 1, LDL), t.row) = Content(Ones(A \cup {t.row}), 1, LDL)
  BY <1>2, <1>6, PlusOnes
<1> QED
  BY <1>7, <1>8, <1>9, <1>10 DEF J, r

(* BUC(J, I) on another rank: the first one clears the slot.               *)
LEMMA BackwardAwayValue ==
  ASSUME IInv, VInv, NEW t \in ready, t.op = "BUC", ~Diag(t), Away(t),
         executed' = executed \cup {t}
  PROVE  Computed(t, slots[t.rank][Goal(t)]).value = AwayValue(Goal(t), t.rank)'
<1> DEFINE J == Goal(t)
           r == t.rank
           slot == slots[r][J]
           A == BehindRan(J, r)
<1>1. t \in Task /\ t \notin executed /\ Contributes(t)
  BY DEF IInv, TypeOK, ReadyExact, Contributes
<1>2. /\ J \in Sup /\ r # Home(J, J) /\ r \in Rank
      /\ t = BUC(t.row, J) /\ t.col = J /\ t.row \in Behind(J, r) /\ t.row \in Sup
  BY <1>1, OffTask, GoalShape DEF Away
<1>3. A = {} <=> Peers(t) \cap executed = {}
  BY <1>1, PeersRan
<1>4. First(t) <=> A = {}
  BY <1>1, <1>3, LastSends
<1> HIDE DEF J, r
<1>5. (IF First(t) THEN Zero ELSE slot.value) = Content(Ones(A), 0, FALSE)
  <2>1. CASE First(t)
    <3>1. A = {}
      BY <1>4, <2>1
    <3> HIDE DEF A
    <3> QED
      BY <2>1, <3>1, ZeroContent
  <2>2. CASE ~First(t)
    <3>1. slot.there
      BY <1>1, <1>3, <1>4, <2>2, FreshSlot DEF J, r
    <3>2. slot.value = AwayValue(J, r)
      BY <1>2, <3>1 DEF VInv, ValuesExact
    <3> QED
      BY <1>4, <2>2, <3>2 DEF AwayValue
  <2> QED
    BY <2>1, <2>2
<1>6. SlotOK(slot)
  BY <1>2 DEF IInv, TypeOK
<1>7. t.row \notin A
  BY <1>1, <1>2 DEF BehindRan
<1>8. Computed(t, slot).value = Plus(IF First(t) THEN Zero ELSE slot.value, t.row)
  BY <1>1, <1>6, ComputedValue
<1>9. AwayValue(J, r)' = Content(Ones(A \cup {t.row}), 0, FALSE)
  <2>1. BehindRan(J, r)' = BehindRan(J, r) \cup
          IF t.op = "BUC" /\ ~Diag(t) /\ t.col = J /\ t.rank = r THEN {t.row} ELSE {}
    BY <1>1, <1>2, RanSets
  <2>2. BehindRan(J, r)' = A \cup {t.row}
    BY <1>2, <2>1 DEF r
  <2> HIDE DEF A
  <2> QED
    BY <2>2 DEF AwayValue, Content, Ones
<1> HIDE DEF A
<1>10. Plus(Content(Ones(A), 0, FALSE), t.row) = Content(Ones(A \cup {t.row}), 0, FALSE)
  <2>1. PICK k, b : k = t.row /\ b = FALSE
    OBVIOUS
  <2>2. Plus(Content(Ones(A), 0, b), k) = Content(Ones(A \cup {k}), 0, b)
    BY <1>2, <1>7, <2>1, PlusOnes
  <2> QED
    BY <2>1, <2>2
<1> QED
  BY <1>5, <1>8, <1>9, <1>10 DEF J, r

-----------------------------------------------------------------------------
(* The values stay exact.                                                  *)

LEMMA ExpectedSame ==
  /\ \A t : Sent(t)' = Sent(t)
  /\ UNCHANGED executed => \A J, r : /\ OwnValue(J)' = OwnValue(J)
                                     /\ AwayValue(J, r)' = AwayValue(J, r)
<1>1. \A t : Sent(t)' = Sent(t)
  BY DEF Sent, Content, Ones, Y, X, Ahead, Behind, Before, Diag
<1>2. ASSUME UNCHANGED executed, NEW J, NEW r
      PROVE  /\ OwnValue(J)' = OwnValue(J)
             /\ AwayValue(J, r)' = AwayValue(J, r)
  <2>1. \A q : AheadRan(J, q)' = AheadRan(J, q) /\ BehindRan(J, q)' = BehindRan(J, q)
    BY <1>2 DEF AheadRan, BehindRan, Ahead, Behind, Before, FUC, BUC
  <2>2. OwnForward(J)' = OwnForward(J) /\ OwnBackward(J)' = OwnBackward(J)
    BY <1>2, <2>1 DEF OwnForward, OwnBackward, FUC, BUC, Before
  <2>3. OwnSolved(J)' = OwnSolved(J) /\ OwnScaled(J)' = OwnScaled(J)
    BY <1>2, <2>1 DEF OwnSolved, OwnScaled, FUC, BUC
  <2>4. OwnValue(J)' = OwnValue(J)
    BY <2>2, <2>3 DEF OwnValue, Content, Ones
  <2>5. AwayValue(J, r)' = AwayValue(J, r)
    BY <2>1 DEF AwayValue, Content, Ones
  <2> QED
    BY <2>4, <2>5
<1> QED
  BY <1>1, <1>2

LEMMA NewValue ==
  ASSUME IInv, VInv, NEW t \in ready, executed' = executed \cup {t}
  PROVE  Computed(t, slots[t.rank][Goal(t)]).value =
           IF Home(Goal(t), Goal(t)) = t.rank THEN OwnValue(Goal(t))'
           ELSE AwayValue(Goal(t), t.rank)'
<1>1. t \in Task /\ t.op \in {"FUC", "BUC"}
  BY TaskShape DEF IInv, TypeOK
<1>2. Diag(t) => ~Away(t)
  BY <1>1, AwayIsOff
<1>3. CASE t.op = "FUC" /\ Diag(t)
  BY <1>2, <1>3, ForwardDiagValue DEF Away
<1>4. CASE t.op = "BUC" /\ Diag(t)
  BY <1>2, <1>4, BackwardDiagValue DEF Away
<1>5. CASE t.op = "FUC" /\ ~Diag(t) /\ ~Away(t)
  BY <1>5, ForwardHomeValue DEF Away
<1>6. CASE t.op = "FUC" /\ ~Diag(t) /\ Away(t)
  BY <1>6, ForwardAwayValue DEF Away
<1>7. CASE t.op = "BUC" /\ ~Diag(t) /\ ~Away(t)
  BY <1>7, BackwardHomeValue DEF Away
<1>8. CASE t.op = "BUC" /\ ~Diag(t) /\ Away(t)
  BY <1>8, BackwardAwayValue DEF Away
<1> QED
  BY <1>1, <1>3, <1>4, <1>5, <1>6, <1>7, <1>8

LEMMA ExecuteValues ==
  ASSUME IInv, VInv, NEW r \in Rank, NEW t \in Task, Execute(r, t)
  PROVE  VInv'
<1> DEFINE J == Goal(t)
           C == Computed(t, slots[r][J])
<1>1. /\ t \in ready /\ t.rank = r /\ executed' = executed \cup {t}
      /\ slots' = [slots EXCEPT ![r][J] = Computed(t, @)]
      /\ data' = data /\ got' = got
  BY ExecuteFacts DEF Execute
<1>2. J \in Sup
  BY GoalShape
<1>3. \A q \in Rank, K \in Sup :
        slots'[q][K] = IF q = r /\ K = J THEN C ELSE slots[q][K]
  <2>1. slots = [q \in Rank |-> [K \in Sup |-> slots[q][K]]]
    BY DEF IInv, TypeOK
  <2> HIDE DEF J
  <2>2. slots' = [q \in Rank |-> [K \in Sup |->
                    IF q = r /\ K = J THEN C ELSE slots[q][K]]]
    BY <1>1, <1>2, <2>1
  <2> QED
    BY <2>2
<1>4. C.value = IF Home(J, J) = r THEN OwnValue(J)' ELSE AwayValue(J, r)'
  BY <1>1, NewValue
<1> HIDE DEF J, C
<1>5. ASSUME NEW q \in Rank, NEW K \in Sup
      PROVE  IF Home(K, K) = q THEN slots'[q][K].value = OwnValue(K)'
             ELSE slots'[q][K].there => slots'[q][K].value = AwayValue(K, q)'
  <2>1. CASE q = r /\ K = J
    BY <1>3, <1>4, <2>1
  <2>2. CASE ~(q = r /\ K = J)
    <3>1. slots'[q][K] = slots[q][K]
      BY <1>3, <2>2
    <3>2. /\ AwayValue(K, q)' = AwayValue(K, q)
          /\ q = Home(K, K) => OwnValue(K)' = OwnValue(K)
      BY <1>1, <2>2, ElsewhereSame DEF J
    <3> QED
      BY <3>1, <3>2 DEF VInv, ValuesExact
  <2> QED
    BY <2>1, <2>2
<1>6. ValuesExact'
  BY <1>5 DEF ValuesExact
<1>7. GotExact'
  BY <1>1, ExpectedSame DEF VInv, GotExact
<1> QED
  BY <1>6, <1>7 DEF VInv

LEMMA ReleaseValues ==
  ASSUME IInv, VInv, NEW m \in Rpcs, Release(m)
  PROVE  VInv'
<1> DEFINE r == m[1].rank
           J == Goal(m[1])
           slot == slots[r][J]
           R == Released(slot, DepCnt(m[1]))
<1>1. /\ m \in releases /\ executed' = executed /\ data' = data /\ got' = got
      /\ slots' = [slots EXCEPT ![r][J] = Released(@, DepCnt(m[1]))]
  BY DEF Release, loopVars, commVars
<1>2. /\ Contributes(m[1]) /\ m[1] \in Task /\ r \in Rank /\ J \in Sup
      /\ m[1] \in LentFor(r, J)
  BY <1>1, ReleasedWereLent, PeersShape
<1>3. Home(J, J) # r /\ slot.there
  <2>1. Home(J, J) # r
    BY <1>2 DEF Contributes, Away
  <2> QED
    BY <1>2, <2>1 DEF IInv, SlotsExact
<1>4. /\ slots = [q \in Rank |-> [K \in Sup |-> slots[q][K]]]
      /\ SlotOK(slot)
  BY <1>2 DEF IInv, TypeOK
<1>5. \A q \in Rank, K \in Sup :
        slots'[q][K] = IF q = r /\ K = J THEN R ELSE slots[q][K]
  <2> HIDE DEF r, J
  <2>1. slots' = [q \in Rank |-> [K \in Sup |->
                    IF q = r /\ K = J THEN R ELSE slots[q][K]]]
    BY <1>1, <1>2, <1>4
  <2> QED
    BY <2>1
<1> HIDE DEF r, J, slot
<1>6. R.there => R.value = slot.value
  BY <1>4 DEF Released, NoSlot, SlotOK
<1> HIDE DEF R
<1>7. /\ \A K, q : OwnValue(K)' = OwnValue(K) /\ AwayValue(K, q)' = AwayValue(K, q)
      /\ \A u : Sent(u)' = Sent(u)
  BY <1>1, ExpectedSame
<1>8. ASSUME NEW q \in Rank, NEW K \in Sup
      PROVE  IF Home(K, K) = q THEN slots'[q][K].value = OwnValue(K)'
             ELSE slots'[q][K].there => slots'[q][K].value = AwayValue(K, q)'
  <2>1. CASE q = r /\ K = J
    <3>1. slot.value = AwayValue(J, r)
      BY <1>2, <1>3 DEF VInv, ValuesExact, slot
    <3> QED
      BY <1>3, <1>5, <1>6, <1>7, <2>1, <3>1
  <2>2. CASE ~(q = r /\ K = J)
    BY <1>5, <1>7, <2>2 DEF VInv, ValuesExact
  <2> QED
    BY <2>1, <2>2
<1>9. ValuesExact'
  BY <1>8 DEF ValuesExact
<1>10. GotExact'
  BY <1>1, <1>7 DEF VInv, GotExact
<1> QED
  BY <1>9, <1>10 DEF VInv

(* The owner's slot between the phases and at the end.                     *)
LEMMA OwnPhases ==
  ASSUME IInv, NEW J \in Sup
  PROVE  /\ /\ FUC(J, J) \in executed /\ BUC(J, J) \notin executed
            /\ BehindRan(J, Home(J, J)) = {}
            => OwnValue(J) = Y(J)
         /\ BUC(J, J) \in executed => OwnValue(J) = X(J)
<1>1. ASSUME FUC(J, J) \in executed, BUC(J, J) \notin executed,
             BehindRan(J, Home(J, J)) = {}
      PROVE  OwnValue(J) = Y(J)
  <2>1. OwnForward(J) \cup OwnBackward(J) = {J} \cup Before(J)
    BY <1>1 DEF OwnForward, OwnBackward
  <2>2. OwnSolved(J) = 1 /\ OwnScaled(J) = FALSE
    BY <1>1 DEF OwnSolved, OwnScaled
  <2> QED
    BY <2>1, <2>2 DEF OwnValue, Content, Ones, Y, Before
<1>2. ASSUME BUC(J, J) \in executed
      PROVE  OwnValue(J) = X(J)
  <2>1. FUC(J, J) \in executed
    BY <1>2, RanOrder
  <2>2. OwnForward(J) \cup OwnBackward(J) = ({J} \cup Before(J)) \cup Struct[J]
    BY <1>2, <2>1 DEF OwnForward, OwnBackward
  <2>3. OwnSolved(J) = 2 /\ OwnScaled(J) = LDL
    BY <1>2, <2>1 DEF OwnSolved, OwnScaled
  <2> QED
    BY <2>2, <2>3 DEF OwnValue, Content, Ones, X, Before
<1> QED
  BY <1>1, <1>2

(* The content of a slot from its announcement to the end of the rget.     *)
LEMMA ExposedValue ==
  ASSUME FillClosed, IInv, VInv, NEW m \in Rpcs, Exposed(m)
  PROVE  slots[m[1].rank][Goal(m[1])].value = Sent(m[1])
<1> DEFINE u == m[1]
           r == u.rank
           J == Goal(u)
           slot == slots[r][J]
<1>1. /\ Announced(m) /\ data[m] # "landed" /\ u \in Task /\ u \in executed
      /\ r \in Rank /\ J \in Sup /\ slot.there
      /\ Diag(u) => r = Home(J, J)
      /\ ~Diag(u) => Peers(u) \subseteq executed /\ Contributes(u)
  BY ExposedShape, ExposedThere
<1>2. /\ Diag(u) => /\ u.op = "FUC" => u = FUC(J, J)
                    /\ u.op = "BUC" => u = BUC(J, J)
                    /\ u.row = J /\ u.col = J
      /\ u.op \in {"FUC", "BUC"}
      /\ u.op = "FUC" => u.row = J
      /\ u.op = "BUC" => u.col = J
  BY <1>1, DiagTask, TaskShape DEF Goal
<1> HIDE DEF r, J
<1>3. CASE Diag(u) /\ u.op = "FUC"
  <2>1. PICK e \in Edges : e.from = u /\ e.to.rank = m[2] /\ u.rank # m[2]
    BY RpcShape
  <2>2. e.to \in Task /\ ~Diag(e.to) /\ e.to.op = "FUC" /\ e.to.col = J
    BY <1>2, <1>3, <2>1, EdgeShape DEF FUC, TaskOf
  <2>3. e.to = FUC(e.to.row, J) /\ e.to.row \in Struct[J]
    BY <2>2, OffTask
  <2>4. Carries(m, e)
    BY <1>3, <2>1 DEF Carries
  <2>5. ~Started(e.to)
    BY <1>1, <2>1, <2>4, CarrierLanded
  <2>6. ASSUME NEW K \in Struct[J], BUC(K, J) \in executed PROVE FALSE
    <3>1. FUC(e.to.row, J) \in executed
      BY <1>1, <2>3, <2>6, RanStarted, BackwardAfterReads
    <3> QED
      BY <2>3, <2>5, <3>1, RanStarted
  <2>7. BUC(J, J) \notin executed
    BY <1>1, <2>3, <2>6, RanStarted, ForwardChain
  <2>8. BehindRan(J, r) = {}
    BY <2>6 DEF BehindRan, Behind
  <2>9. slot.value = OwnValue(J)
    BY <1>1, <1>3 DEF VInv, ValuesExact
  <2>10. OwnValue(J) = Y(J)
    BY <1>1, <1>2, <1>3, <2>7, <2>8, OwnPhases
  <2> QED
    BY <1>2, <1>3, <2>9, <2>10 DEF Sent, r, J
<1>4. CASE Diag(u) /\ u.op = "BUC"
  <2>1. slot.value = OwnValue(J)
    BY <1>1, <1>4 DEF VInv, ValuesExact
  <2>2. OwnValue(J) = X(J)
    BY <1>1, <1>2, <1>4, OwnPhases
  <2> QED
    BY <1>2, <1>4, <2>1, <2>2 DEF Sent, r, J
<1>5. CASE ~Diag(u)
  <2>1. slot.value = AwayValue(J, r)
    BY <1>1, <1>5 DEF VInv, ValuesExact, Contributes, Away, J, r
  <2>2. CASE u.op = "FUC"
    <3>1. AheadRan(J, r) = Ahead(J, r)
      BY <1>1, <1>5, <2>2, PeersRan DEF J, r
    <3>2. BehindRan(J, r) = {}
      <4> DEFINE e == Contribution(u)
      <4>1. /\ e \in Edges /\ e.from = u /\ e.to = Final(u)
            /\ Final(u).rank # u.rank /\ Final(u).rank = m[2]
        BY <1>1, <1>5, ContributionShape, RpcShape DEF Contributes
      <4> HIDE DEF e
      <4>2. Carries(m, e)
        BY <1>1, <1>5, <4>1, PeersShape DEF Carries
      <4>3. Final(u) = FUC(J, J)
        BY <2>2 DEF Final, FUC, J
      <4>4. ~Started(FUC(J, J))
        BY <1>1, <4>1, <4>2, <4>3, CarrierLanded
      <4>5. FUC(J, J) \notin executed
        BY <4>4, RanStarted
      <4> QED
        BY <1>1, <4>5, RanOrder
    <3>3. AwayValue(J, r) = Content(Ones(Ahead(J, r)), 0, FALSE)
      BY <3>1, <3>2 DEF AwayValue
    <3> QED
      BY <1>2, <1>5, <2>1, <2>2, <3>3 DEF Sent, J, r
  <2>3. CASE u.op = "BUC"
    <3>1. BehindRan(J, r) = Behind(J, r)
      BY <1>1, <1>5, <2>3, PeersRan DEF J, r
    <3>2. Behind(J, r) # {}
      BY <1>1, <1>2, <1>5, <2>3, OffTask DEF r
    <3>3. AwayValue(J, r) = Content(Ones(Behind(J, r)), 0, FALSE)
      BY <3>1, <3>2 DEF AwayValue
    <3> QED
      BY <1>2, <1>5, <2>1, <2>3, <3>3 DEF Sent, J, r
  <2> QED
    BY <1>2, <2>2, <2>3
<1> QED
  BY <1>2, <1>3, <1>4, <1>5

LEMMA LandValues ==
  ASSUME FillClosed, IInv, VInv, NEW m \in Rpcs, Land(m)
  PROVE  VInv'
<1>1. /\ data[m] = "fetching" /\ data' = [data EXCEPT ![m] = "landed"]
      /\ got' = [got EXCEPT ![m] = Source(m).value]
      /\ slots' = slots /\ executed' = executed
  BY DEF Land, Arrive, slotVars
<1>2. Source(m).value = Sent(m[1])
  BY <1>1, ExposedValue DEF Exposed, Source
<1>3. /\ \A K, q : OwnValue(K)' = OwnValue(K) /\ AwayValue(K, q)' = AwayValue(K, q)
      /\ \A u : Sent(u)' = Sent(u)
  BY <1>1, ExpectedSame
<1>4. ValuesExact'
  BY <1>1, <1>3 DEF VInv, ValuesExact
<1>5. \A n \in Rpcs : /\ data'[n] = IF n = m THEN "landed" ELSE data[n]
                      /\ got'[n] = IF n = m THEN Sent(m[1]) ELSE got[n]
  BY <1>1, <1>2 DEF IInv, TypeOK, VInv, GotExact
<1>6. got' = [n \in Rpcs |-> got'[n]]
  BY <1>1 DEF VInv, GotExact
<1>7. GotExact'
  BY <1>3, <1>5, <1>6 DEF VInv, GotExact
<1> QED
  BY <1>4, <1>7 DEF VInv

LEMMA OtherValues ==
  ASSUME VInv, UNCHANGED <<slots, executed, got>>,
         \A m \in Rpcs : data'[m] = "landed" => data[m] = "landed"
  PROVE  VInv'
<1>1. /\ \A K, q : OwnValue(K)' = OwnValue(K) /\ AwayValue(K, q)' = AwayValue(K, q)
      /\ \A u : Sent(u)' = Sent(u)
  BY ExpectedSame
<1>2. ValuesExact'
  BY <1>1 DEF VInv, ValuesExact
<1>3. GotExact'
  BY <1>1 DEF VInv, GotExact
<1> QED
  BY <1>2, <1>3 DEF VInv

LEMMA NextKeepsValues ==
  ASSUME FillClosed, IInv, VInv, [Next]_vars
  PROVE  VInv'
<1>1. ASSUME NEW r \in Rank, RankStep(r)
      PROVE  VInv'
  <2>1. CASE \E t \in Task : Execute(r, t)
    BY <2>1, ExecuteValues
  <2>2. CASE \E t \in Task : Fetch(r, t)
    <3>1. UNCHANGED <<slots, executed, got, data>>
      BY <2>2 DEF Fetch, Attach, solveVars, slotVars
    <3> QED
      BY <3>1, OtherValues
  <2>3. CASE /\ \/ Turn(r, {t \in Task : RemoteDeps(t) > 0})
                \/ LeaveLoop(r, IF Quiesce THEN "quiesce" ELSE "barrier")
                \/ Quiet(r)
             /\ UNCHANGED solveVars
    <3>1. UNCHANGED data
      BY <2>3 DEF Turn, Start, Idle, HandleDep, HandleAvail, LeaveProgress,
                  NothingToFetch, PassBarrier, LeaveLoop, Quiet, commVars
    <3>2. UNCHANGED <<slots, executed, got, data>>
      BY <2>3, <3>1 DEF solveVars, slotVars
    <3> QED
      BY <3>2, OtherValues
  <2> QED
    BY <1>1, <2>1, <2>2, <2>3 DEF RankStep
<1>2. ASSUME NEW r \in Rank, Reached(r)
      PROVE  VInv'
  <2>1. PICK m \in Rpcs : Deliver(m) \/ Land(m) \/ Release(m)
    BY <1>2 DEF Reached
  <2>2. CASE Deliver(m)
    <3>1. /\ UNCHANGED <<slots, executed, got>>
          /\ data' = [d \in DOMAIN data |-> IF d \in {m} THEN "fetching" ELSE data[d]]
      BY <2>2 DEF Deliver, Receive, solveVars, slotVars
    <3>2. \A n \in Rpcs : data'[n] = "landed" => data[n] = "landed"
      BY <3>1 DEF IInv, TypeOK
    <3> QED
      BY <3>1, <3>2, OtherValues
  <2>3. CASE Land(m)
    BY <2>3, LandValues
  <2>4. CASE Release(m)
    BY <2>4, ReleaseValues
  <2> QED
    BY <2>1, <2>2, <2>3, <2>4
<1>3. ASSUME UNCHANGED vars
      PROVE  VInv'
  <2>1. UNCHANGED <<slots, executed, got, data>>
    BY <1>3 DEF vars, solveVars, slotVars, loopVars, commVars
  <2> QED
    BY <2>1, OtherValues
<1> QED
  BY <1>1, <1>2, <1>3 DEF Next, Terminated

LEMMA InitValues ==
  ASSUME Init
  PROVE  VInv
<1>1. /\ executed = {} /\ slots = [r \in Rank |-> [J \in Sup |-> NoSlot]]
      /\ got = [m \in Rpcs |-> Zero] /\ data = [d \in Rpcs |-> "absent"]
  BY DEF Init, LoopInit
<1>2. ASSUME NEW J \in Sup
      PROVE  OwnValue(J) = Zero
  <2>1. \A r : AheadRan(J, r) = {} /\ BehindRan(J, r) = {}
    BY <1>1 DEF AheadRan, BehindRan
  <2>2. OwnForward(J) \cup OwnBackward(J) = {}
    BY <1>1, <2>1 DEF OwnForward, OwnBackward
  <2>3. OwnSolved(J) = 0 /\ OwnScaled(J) = FALSE
    BY <1>1, <2>1 DEF OwnSolved, OwnScaled
  <2> QED
    BY <2>2, <2>3, ZeroContent DEF OwnValue
<1>3. ASSUME NEW r \in Rank, NEW J \in Sup
      PROVE  slots[r][J].value = Zero /\ ~slots[r][J].there
  BY <1>1, <1>3 DEF NoSlot
<1>4. ValuesExact
  BY <1>2, <1>3 DEF ValuesExact
<1>5. GotExact
  BY <1>1 DEF GotExact
<1> QED
  BY <1>4, <1>5 DEF VInv

(* In every reachable state a slot holds what the tasks executed so far    *)
(* make of it, and what an rget brought is what the task announced.        *)
THEOREM SolveValuesExact == FillClosed => (Spec => []VInv)
<1> SUFFICES ASSUME FillClosed PROVE Spec => []VInv
  OBVIOUS
<1>1. Init => VInv
  BY InitValues
<1>2. IInv /\ VInv /\ [Next]_vars => VInv'
  BY NextKeepsValues
<1>3. Spec => []IInv
  BY SolveInvariant
<1> QED
  BY <1>1, <1>2, <1>3, PTL DEF Spec

-----------------------------------------------------------------------------
(* What SolutionExact and ReadsFinal say follows.                          *)

LEMMA AllRan ==
  ASSUME IInv, NEW r \in Rank, pc[r] = "end"
  PROVE  executed = Task
<1>1. \A q \in Rank : taskCnt[q] = 0 /\ taskCnt[q] = Cardinality(OnRank(q, Task \ executed))
  BY DEF IInv, LoopExact
<1>2. \A q \in Rank : OnRank(q, Task \ executed) = {}
  <2> SUFFICES ASSUME NEW q \in Rank PROVE OnRank(q, Task \ executed) = {}
    OBVIOUS
  <2>1. IsFiniteSet(OnRank(q, Task \ executed))
    BY TasksFinite, FS_Subset DEF OnRank
  <2> QED
    BY <1>1, <2>1, FS_EmptySet
<1>3. \A t \in Task : t.rank \in Rank
  BY TaskShape
<1> QED
  BY <1>2, <1>3 DEF OnRank, IInv, TypeOK

LEMMA NothingInTransit ==
  ASSUME IInv, executed = Task
  PROVE  net = {} /\ \A r \in Rank : inbox[r] = <<>>
<1>1. ASSUME NEW m \in net PROVE FALSE
  <2>1. m \in Rpcs /\ Announced(m) /\ data[m] = "absent"
    BY DEF IInv, TypeOK, Announced, AnnouncedOnce
  <2>2. PICK e \in Edges : e.from = m[1] /\ e.to.rank = m[2]
    BY <2>1, RpcShape
  <2>3. m[1] \in Task /\ m[1].rank # m[2]
    BY <2>1, RpcShape
  <2>4. Carries(m, e)
    BY <2>2, <2>3, PeersShape DEF Carries
  <2>5. Started(e.to)
    BY <2>2, EdgeShape DEF Started
  <2> QED
    BY <2>1, <2>2, <2>3, <2>4, <2>5, CarrierLanded
<1>2. ASSUME NEW r \in Rank, inbox[r] # <<>> PROVE FALSE
  <2>1. inbox[r] \in Seq(LpcOf(r))
    BY DEF IInv, TypeOK
  <2>2. PICK l : l = Head(inbox[r])
    OBVIOUS
  <2>3. l \in LpcOf(r)
    BY <1>2, <2>1, <2>2, HeadTailProperties
  <2>4. PICK t : t = l.task
    OBVIOUS
  <2>5. /\ t \in Task /\ t.rank = r /\ l.kind \in {"dep", "avail"}
        /\ l.count \in 1..MaxCount
    BY <2>3, <2>4, LpcShape DEF OnRank
  <2>6. /\ Posted(l.kind, t, inbox[r]) = l.count + Posted(l.kind, t, Tail(inbox[r]))
        /\ Tail(inbox[r]) \in Seq(LpcOf(r))
    BY <1>2, <2>1, <2>2, <2>4, <2>5, PostedTail
  <2>7. Posted(l.kind, t, Tail(inbox[r])) \in Nat /\ Posted(l.kind, t, inbox[r]) \in Nat
    BY <2>1, <2>5, <2>6, PostedSum
  <2>8. Posted(l.kind, t, inbox[r]) # 0
    BY <2>5, <2>6, <2>7, MaxCountType
  <2>9. inCnt[t] = 0 /\ availCnt[t] = 0
    <3>1. t \in DOMAIN inCnt
      BY <2>5 DEF IInv, TypeOK
    <3> QED
      BY <2>5, <3>1, CountersFollow DEF CountersExact, CountersSound
  <2>10. /\ Cardinality(Unsignalled(t)) \in Nat /\ Cardinality(Undelivered(t)) \in Nat
         /\ Cardinality(Awaited(t)) \in Nat
         /\ Posted("dep", t, inbox[r]) \in Nat /\ Posted("avail", t, inbox[r]) \in Nat
    BY <2>5, CountTypes, PostedTypes DEF IInv
  <2>11. Posted("avail", t, inbox[r]) = 0
    <3>1. 0 = Cardinality(Undelivered(t)) + Posted("avail", t, inbox[r])
      BY <2>5, <2>9 DEF IInv, AvailExact
    <3> QED
      BY <2>10, <3>1
  <2>12. Posted("dep", t, inbox[r]) = 0
    <3>1. 0 = Cardinality(Unsignalled(t)) + Cardinality(Undelivered(t))
                + Cardinality(Awaited(t)) + Posted("dep", t, inbox[r])
      BY <2>5, <2>9 DEF IInv, DepExact
    <3> QED
      BY <2>10, <3>1, AllGone
  <2> QED
    BY <2>5, <2>8, <2>11, <2>12
<1> QED
  BY <1>1, <1>2

LEMMA SolutionFollows ==
  ASSUME IInv, VInv
  PROVE  SolutionExact
<1> SUFFICES ASSUME NEW r \in Rank, pc[r] = "end"
             PROVE  /\ S!Solved /\ net = {} /\ inbox[r] = <<>>
                    /\ \A I \in Sup : Home(I, I) = r =>
                         slots[r][I].there /\ slots[r][I].value = X(I)
  BY DEF SolutionExact
<1>1. executed = Task
  BY AllRan
<1>2. S!Solved
  <2>1. Applied \subseteq S!Operation
    BY <1>1, TaskIsOperation DEF Applied
  <2>2. \A I \in Sup : \A J \in {I} \cup Struct[I] :
          S!Forward(J, I) \in Applied /\ S!Backward(J, I) \in Applied
    BY <1>1, BelowSends, DiagTasks, RanApplied
  <2>3. S!Operation \subseteq Applied
    BY <2>2 DEF S!Operation, S!Cells, Sup
  <2> QED
    BY <2>1, <2>3 DEF S!Solved, Applied
<1>3. net = {} /\ inbox[r] = <<>>
  BY <1>1, NothingInTransit
<1>4. ASSUME NEW I \in Sup, Home(I, I) = r
      PROVE  slots[r][I].there /\ slots[r][I].value = X(I)
  <2>1. FUC(I, I) \in executed /\ BUC(I, I) \in executed
    BY <1>1, DiagTasks
  <2>2. slots[r][I].there
    BY <1>4, <2>1 DEF IInv, SlotsExact
  <2>3. slots[r][I].value = OwnValue(I)
    BY <1>4 DEF VInv, ValuesExact
  <2> QED
    BY <2>1, <2>2, <2>3, OwnPhases
<1> QED
  BY <1>2, <1>3, <1>4

(* A rank that leaves Solve holds the solution of its supernodes, each     *)
(* contribution and the right-hand side in it exactly once, and leaves     *)
(* nothing in transit.                                                     *)
THEOREM SolveSolutionExact == FillClosed => (Spec => []SolutionExact)
<1>1. IInv /\ VInv => SolutionExact
  BY SolutionFollows
<1>2. Spec => []IInv
  BY SolveInvariant
<1>3. FillClosed => (Spec => []VInv)
  BY SolveValuesExact
<1> QED
  BY <1>1, <1>2, <1>3, PTL

(* A ready contribution reads the diagonal task of its operand.            *)
Reader(t) == IF t.op = "FUC" THEN FUC(t.col, t.col) ELSE BUC(t.row, t.row)

LEMMA ReaderFacts ==
  ASSUME NEW t \in Task, ~Diag(t)
  PROVE  /\ Operand(t) \in Sup /\ Diag(Reader(t)) /\ Reader(t) \in Task
         /\ Reader(t).rank = Home(Operand(t), Operand(t)) /\ Reader(t).op = t.op
         /\ Reader(t).row = Operand(t) /\ Reader(t).col = Operand(t)
         /\ \E e \in Edges : e.from = Reader(t) /\ e.to = t
         /\ \A e \in Edges : e.to = t => e.from = Reader(t)
<1>1. /\ t.op = "FUC" => t = FUC(t.row, t.col)
      /\ t.op = "BUC" => t = BUC(t.row, t.col)
      /\ t.row \in Struct[t.col] /\ t.op \in {"FUC", "BUC"}
      /\ t.row \in Sup /\ t.col \in Sup
  BY OffTask
<1>2. \E e \in Edges : e.from = Reader(t) /\ e.to = t
  BY <1>1, BelowSends DEF Reader
<1>3. /\ Operand(t) \in Sup /\ Diag(Reader(t)) /\ Reader(t) \in Task
      /\ Reader(t).rank = Home(Operand(t), Operand(t)) /\ Reader(t).op = t.op
      /\ Reader(t).row = Operand(t) /\ Reader(t).col = Operand(t)
  BY <1>1, DiagTasks DEF Reader, Operand, Diag, FUC, BUC, TaskOf
<1>4. ASSUME NEW e \in Edges, e.to = t
      PROVE  e.from = Reader(t)
  <2>1. /\ e.from \in Task /\ Diag(e.from) /\ e.from.op = t.op
        /\ e.from.col = Operand(t)
    BY <1>1, <1>4, EdgeShape DEF Operand
  <2>2. e.from.row = Operand(t)
    BY <2>1 DEF Diag
  <2> QED
    BY <1>3, <2>1, <2>2, SameTask
<1> QED
  BY <1>2, <1>3, <1>4

LEMMA ReadsFollow ==
  ASSUME FillClosed, IInv, VInv
  PROVE  ReadsFinal
<1> SUFFICES ASSUME NEW t \in ready, ~Diag(t), NEW I, I = Operand(t),
                    NEW expected, expected = IF t.op = "FUC" THEN Y(I) ELSE X(I)
             PROVE  IF Home(I, I) = t.rank
                    THEN slots[t.rank][I].there /\ slots[t.rank][I].value = expected
                    ELSE \E m \in LandedInputs(t) :
                           got[m] = expected /\ \A n \in Inputs(t) : n = m
  BY DEF ReadsFinal
<1>1. t \in Task /\ t \notin executed /\ inCnt[t] = 0 /\ Started(t)
  BY StartedZero DEF IInv, TypeOK, ReadyExact, Started
<1>2. PICK u : u = Reader(t)
  OBVIOUS
<1>3. /\ I \in Sup /\ Diag(u) /\ u \in Task /\ u.rank = Home(I, I) /\ u.op = t.op
      /\ u.row = I /\ u.col = I
      /\ \A e \in Edges : e.to = t => e.from = u
  BY <1>1, <1>2, ReaderFacts
<1>4. PICK e \in Edges : e.from = u /\ e.to = t
  BY <1>1, <1>2, ReaderFacts
<1>5. u \in executed /\ t.rank \in Rank /\ t.op \in {"FUC", "BUC"}
  BY <1>1, <1>4, SendersRan, TaskShape
<1>6. /\ t.op = "FUC" => u = FUC(I, I)
      /\ t.op = "BUC" => u = BUC(I, I)
  BY <1>3, TaskShape
<1>7. CASE Home(I, I) = t.rank
  <2>1. FUC(I, I) \in executed
    BY <1>3, <1>5, <1>6, RanOrder
  <2>2. slots[t.rank][I].there
    BY <1>3, <1>5, <1>7, <2>1 DEF IInv, SlotsExact
  <2>3. slots[t.rank][I].value = OwnValue(I)
    BY <1>3, <1>5, <1>7 DEF VInv, ValuesExact
  <2>4. CASE t.op = "FUC"
    <3>1. t = FUC(t.row, I) /\ t.row \in Struct[I]
      BY <1>1, <2>4, OffTask DEF Operand
    <3>2. ASSUME NEW K \in Struct[I], BUC(K, I) \in executed PROVE FALSE
      <4>1. FUC(t.row, I) \in executed
        BY <1>3, <3>1, <3>2, RanStarted, BackwardAfterReads
      <4> QED
        BY <1>1, <3>1, <4>1
    <3>3. BUC(I, I) \notin executed
      BY <1>3, <3>1, <3>2, RanStarted, ForwardChain
    <3>4. BehindRan(I, Home(I, I)) = {}
      BY <3>2 DEF BehindRan, Behind
    <3>5. OwnValue(I) = Y(I)
      BY <1>3, <2>1, <3>3, <3>4, OwnPhases
    <3> QED
      BY <1>7, <2>2, <2>3, <2>4, <3>5
  <2>5. CASE t.op = "BUC"
    <3>1. OwnValue(I) = X(I)
      BY <1>3, <1>5, <1>6, <2>5, OwnPhases
    <3> QED
      BY <1>7, <2>2, <2>3, <2>5, <3>1
  <2> QED
    BY <1>5, <2>4, <2>5
<1>8. CASE Home(I, I) # t.rank
  <2>1. PICK m \in Rpcs : data[m] = "landed" /\ Carries(m, e) /\ m \in Inputs(t)
    BY <1>1, <1>3, <1>4, <1>8, SendersRan
  <2>2. ASSUME NEW n \in Inputs(t)
        PROVE  n = <<u, t.rank>>
    <3>1. n \in Rpcs /\ n[2] = t.rank /\ t \in TargetsOn(n[1], n[2])
      BY DEF Inputs
    <3>2. PICK f \in Edges : f.from = n[1] /\ f.to = t
      BY <3>1 DEF TargetsOn
    <3>3. n = <<n[1], n[2]>>
      BY <3>1, RpcShape
    <3> QED
      BY <1>3, <3>1, <3>2, <3>3
  <2>3. m = <<u, t.rank>> /\ m[1] = u
    BY <2>1, <2>2
  <2>4. Sent(u) = expected
    BY <1>3, <1>5 DEF Sent
  <2>5. got[m] = expected /\ m \in LandedInputs(t)
    BY <2>1, <2>3, <2>4 DEF VInv, GotExact, LandedInputs
  <2> QED
    BY <1>8, <2>2, <2>3, <2>5
<1> QED
  BY <1>7, <1>8

(* A task multiplies its cell with a finished vector, whether it reads the *)
(* slot of its rank or the copy it was sent.                               *)
THEOREM SolveReadsFinal == FillClosed => (Spec => []ReadsFinal)
<1> SUFFICES ASSUME FillClosed PROVE Spec => []ReadsFinal
  OBVIOUS
<1>1. IInv /\ VInv => ReadsFinal
  BY ReadsFollow
<1>2. Spec => []IInv
  BY SolveInvariant
<1>3. Spec => []VInv
  BY SolveValuesExact
<1> QED
  BY <1>1, <1>2, <1>3, PTL
-----------------------------------------------------------------------------
(* The same order, read off the graph alone.  What ForwardFirst collects   *)
(* by rounds is closed under senders: a sender is lower than what it       *)
(* signals, and no two tasks are further apart than there are rounds.      *)

Senders(found) == found \cup {e.from : e \in {f \in Edges : f.to \in found}}

IsWithin(f, t, m) ==
  f = [n \in 0..m |-> IF n = 0 THEN {t} ELSE Senders(f[n - 1])]

LEMMA WithinExists ==
  ASSUME NEW t, NEW m \in Nat
  PROVE  \E f : IsWithin(f, t, m)
<1> DEFINE Bad == {k \in Nat : ~ \E f : IsWithin(f, t, k)}
<1> SUFFICES ASSUME Bad # {} PROVE FALSE
  OBVIOUS
<1>1. PICK k \in Bad : \A j \in Bad : k <= j
  BY LeastNatural
<1>2. k # 0
  <2> DEFINE f == [n \in 0..0 |-> {t}]
  <2>1. f = [n \in 0..0 |-> IF n = 0 THEN {t} ELSE Senders(f[n - 1])]
    OBVIOUS
  <2>2. IsWithin(f, t, 0)
    BY <2>1 DEF IsWithin
  <2> QED
    BY <2>2
<1>3. k - 1 \in Nat /\ \E f : IsWithin(f, t, k - 1)
  <2>1. k - 1 \in Nat /\ ~(k <= k - 1)
    BY <1>1, <1>2
  <2>2. k - 1 \notin Bad
    BY <1>1, <2>1
  <2> QED
    BY <2>1, <2>2
<1>4. PICK g : IsWithin(g, t, k - 1)
  BY <1>3
<1> DEFINE f == [n \in 0..k |-> IF n = k THEN Senders(g[k - 1]) ELSE g[n]]
<1>5. \A n \in 0..k : f[n] = IF n = 0 THEN {t} ELSE Senders(f[n - 1])
  <2> SUFFICES ASSUME NEW n \in 0..k
               PROVE  f[n] = IF n = 0 THEN {t} ELSE Senders(f[n - 1])
    OBVIOUS
  <2>1. CASE n = k
    BY <1>2, <1>3, <2>1
  <2>2. CASE n # k
    <3>1. n \in 0..(k - 1) /\ f[n] = g[n]
      BY <1>3, <2>2
    <3>2. g[n] = IF n = 0 THEN {t} ELSE Senders(g[n - 1])
      BY <1>4, <3>1 DEF IsWithin
    <3>3. n # 0 => f[n - 1] = g[n - 1]
      BY <1>3, <2>2
    <3> QED
      BY <3>1, <3>2, <3>3
  <2> QED
    BY <2>1, <2>2
<1>6. f = [n \in 0..k |-> IF n = 0 THEN {t} ELSE Senders(f[n - 1])]
  BY <1>5
<1>7. IsWithin(f, t, k)
  BY <1>6 DEF IsWithin
<1> HIDE DEF f
<1> QED
  BY <1>1, <1>7

LEMMA HeightRange ==
  ASSUME NEW t \in Task
  PROVE  Height(t) \in 2..(4 * NS + 2)
<1>1. NS \in Nat /\ t.row \in 1..NS /\ t.col \in 1..NS /\ t.op \in {"FUC", "BUC"}
  BY TaskShape, GraphAssumption DEF Sup
<1>2. t.row # t.col => t.row > t.col
  <2>1. t.row # t.col => <<t.col, t.row>> \in Below
    BY TaskShape DEF Diag
  <2> QED
    BY <2>1, PairTypes
<1>3. PICK r, c \in 1..NS : r = t.row /\ c = t.col
  BY <1>1
<1>4. CASE t.op = "FUC"
  BY <1>1, <1>2, <1>3, <1>4 DEF Height
<1>5. CASE t.op # "FUC"
  BY <1>1, <1>2, <1>3, <1>5 DEF Height
<1> QED
  BY <1>4, <1>5

LEMMA WithinFacts ==
  ASSUME NEW t \in Task, NEW f, IsWithin(f, t, 4 * NS)
  PROVE  /\ f[0] = {t}
         /\ \A n \in 1..(4 * NS) : f[n] = Senders(f[n - 1])
         /\ \A n \in 0..(4 * NS) : f[n] \subseteq Task
         /\ \A n \in 0..(4 * NS), k \in 0..(4 * NS) : k <= n => f[k] \subseteq f[n]
<1> DEFINE m == 4 * NS
<1>0. m \in Nat
  BY GraphAssumption
<1> HIDE DEF m
<1>1. f[0] = {t} /\ \A n \in 1..m : f[n] = Senders(f[n - 1])
  <2>1. \A n \in 0..m : f[n] = IF n = 0 THEN {t} ELSE Senders(f[n - 1])
    BY DEF IsWithin, m
  <2>2. 0 \in 0..m /\ \A n \in 1..m : n \in 0..m /\ n # 0
    BY <1>0
  <2> QED
    BY <2>1, <2>2
<1>2. \A e \in Edges : e.from \in Task
  BY EdgeShape
<1>3. \A n \in 0..m : f[n] \subseteq Task
  <2> DEFINE Bad == {n \in 0..m : ~(f[n] \subseteq Task)}
  <2> SUFFICES ASSUME Bad # {} PROVE FALSE
    OBVIOUS
  <2>1. Bad \subseteq Nat
    BY <1>0
  <2>2. PICK n \in Bad : \A j \in Bad : n <= j
    BY <2>1, LeastNatural
  <2>3. n # 0
    BY <1>1, <2>2
  <2>4. n \in 1..m /\ n - 1 \in 0..m /\ ~(n <= n - 1)
    BY <1>0, <2>2, <2>3
  <2>5. f[n - 1] \subseteq Task
    BY <2>2, <2>4
  <2>6. f[n] \subseteq Task
    BY <1>1, <1>2, <2>4, <2>5 DEF Senders
  <2> QED
    BY <2>2, <2>6
<1>4. \A n \in 0..m, k \in 0..m : k <= n => f[k] \subseteq f[n]
  <2> DEFINE Good(n) == \A k \in 0..m : k <= n => f[k] \subseteq f[n]
             Bad     == {n \in 0..m : ~Good(n)}
  <2> SUFFICES ASSUME Bad # {} PROVE FALSE
    OBVIOUS
  <2>1. Bad \subseteq Nat
    BY <1>0
  <2>2. PICK n \in Bad : \A j \in Bad : n <= j
    BY <2>1, LeastNatural
  <2>3. n # 0
    <3>1. \A k \in 0..m : k <= 0 => k = 0
      BY <1>0
    <3>2. Good(0)
      BY <3>1
    <3> QED
      BY <2>2, <3>2
  <2>4. n \in 1..m /\ n - 1 \in 0..m /\ ~(n <= n - 1)
    BY <1>0, <2>2, <2>3
  <2>5. Good(n - 1)
    BY <2>2, <2>4
  <2>6. f[n - 1] \subseteq f[n]
    BY <1>1, <2>4 DEF Senders
  <2>7. ASSUME NEW k \in 0..m, k <= n PROVE f[k] \subseteq f[n]
    <3>1. k = n \/ k <= n - 1
      BY <2>4, <2>7
    <3> QED
      BY <2>5, <2>6, <3>1
  <2> QED
    BY <2>2, <2>7
<1> QED
  BY <1>1, <1>3, <1>4 DEF m

LEMMA CausesClosed ==
  ASSUME NEW t \in Task
  PROVE  /\ t \in Causes(t, Edges)
         /\ \A e \in Edges : e.to \in Causes(t, Edges) => e.from \in Causes(t, Edges)
<1> DEFINE m == 4 * NS
<1>0. m \in Nat /\ \A u \in Task : Height(u) \in 2..(m + 2)
  BY GraphAssumption, HeightRange
<1>1. PICK f : IsWithin(f, t, m) /\ Causes(t, Edges) = f[m]
  <2>1. PICK f : f = CHOOSE g : IsWithin(g, t, m)
    OBVIOUS
  <2>2. IsWithin(f, t, m)
    BY <1>0, <2>1, WithinExists
  <2>3. Causes(t, Edges) = f[m]
    BY <2>1 DEF Causes, IsWithin, Senders
  <2> QED
    BY <2>2, <2>3
<1>2. /\ f[0] = {t}
      /\ \A n \in 1..m : f[n] = Senders(f[n - 1])
      /\ \A n \in 0..m : f[n] \subseteq Task
      /\ \A n \in 0..m, k \in 0..m : k <= n => f[k] \subseteq f[n]
  BY <1>1, WithinFacts
<1> HIDE DEF m
<1>3. \A e \in Edges : /\ e.from \in Task /\ e.to \in Task
                       /\ Height(e.from) < Height(e.to)
  BY EdgeShape, SolveAcyclic DEF EdgesClimb
<1> DEFINE Depth(u) == Height(t) - Height(u)
           InTime(n) == \A u \in f[n] : Depth(u) \in 0..m /\ u \in f[Depth(u)]
           Bad == {n \in 0..m : ~InTime(n)}
<1>4. ASSUME NEW e \in Edges, Depth(e.to) \in 0..m, e.to \in f[Depth(e.to)]
      PROVE  Depth(e.from) \in 0..m /\ e.from \in f[Depth(e.from)]
  <2>1. PICK a, b, h \in 2..(m + 2) : a = Height(e.from) /\ b = Height(e.to) /\ h = Height(t)
    BY <1>0, <1>3
  <2>2. a < b
    BY <1>3, <2>1
  <2>3. h - b \in 0..m /\ e.to \in f[h - b]
    BY <1>4, <2>1
  <2>4. /\ h - b + 1 \in 1..m /\ h - b + 1 - 1 = h - b /\ h - b + 1 <= h - a
        /\ h - a \in 0..m /\ h - b + 1 \in 0..m
    BY <1>0, <2>1, <2>2, <2>3
  <2>5. f[h - b + 1] = Senders(f[h - b])
    BY <1>2, <2>4
  <2>6. e.from \in f[h - b + 1]
    BY <2>3, <2>5 DEF Senders
  <2>7. e.from \in f[h - a]
    BY <1>2, <2>4, <2>6
  <2> QED
    BY <2>1, <2>4, <2>7
<1>5. Bad = {}
  <2> SUFFICES ASSUME Bad # {} PROVE FALSE
    OBVIOUS
  <2>1. Bad \subseteq Nat
    BY <1>0
  <2>2. PICK n \in Bad : \A j \in Bad : n <= j
    BY <2>1, LeastNatural
  <2>3. n # 0
    <3>1. Depth(t) = 0 /\ 0 \in 0..m
      BY <1>0
    <3>2. InTime(0)
      BY <1>2, <3>1
    <3> QED
      BY <2>2, <3>2
  <2>4. n \in 1..m /\ n - 1 \in 0..m /\ ~(n <= n - 1)
    BY <1>0, <2>2, <2>3
  <2>5. InTime(n - 1)
    BY <2>2, <2>4
  <2>6. f[n] = Senders(f[n - 1])
    BY <1>2, <2>4
  <2>7. ASSUME NEW u \in f[n] PROVE Depth(u) \in 0..m /\ u \in f[Depth(u)]
    <3>1. CASE u \in f[n - 1]
      BY <2>5, <3>1
    <3>2. CASE \E e \in Edges : e.to \in f[n - 1] /\ e.from = u
      <4>1. PICK e \in Edges : e.to \in f[n - 1] /\ e.from = u
        BY <3>2
      <4>2. Depth(e.to) \in 0..m /\ e.to \in f[Depth(e.to)]
        BY <2>5, <4>1
      <4>3. Depth(e.from) \in 0..m /\ e.from \in f[Depth(e.from)]
        BY <1>4, <4>2
      <4> QED
        BY <4>1, <4>3
    <3> QED
      BY <2>6, <3>1, <3>2 DEF Senders
  <2> QED
    BY <2>2, <2>7
<1>6. t \in f[m]
  <2>1. 0 \in 0..m /\ m \in 0..m /\ 0 <= m
    BY <1>0
  <2> QED
    BY <1>2, <2>1
<1>7. ASSUME NEW e \in Edges, e.to \in f[m] PROVE e.from \in f[m]
  <2>1. m \in 0..m /\ m \notin Bad
    BY <1>0, <1>5
  <2>2. Depth(e.to) \in 0..m /\ e.to \in f[Depth(e.to)]
    BY <1>7, <2>1
  <2>3. Depth(e.from) \in 0..m /\ e.from \in f[Depth(e.from)]
    BY <1>4, <2>2
  <2>4. PICK d \in 0..m : d = Depth(e.from)
    BY <2>3
  <2>5. e.from \in f[d] /\ d <= m
    BY <1>0, <2>3, <2>4
  <2> QED
    BY <1>2, <2>1, <2>4, <2>5
<1> QED
  BY <1>1, <1>6, <1>7 DEF m

(* A set of tasks that has every sender of its members.                    *)
SendersIn(C) == \A e \in Edges : e.to \in C => e.from \in C

LEMMA CausalChain ==
  ASSUME NEW C, SendersIn(C), NEW I \in Sup, NEW J \in Struct[I]
  PROVE  /\ FUC(J, I) \in C => FUC(I, I) \in C
         /\ FUC(J, J) \in C => FUC(J, I) \in C /\ FUC(I, I) \in C
         /\ BUC(J, I) \in C => BUC(J, J) \in C
         /\ BUC(I, I) \in C => BUC(J, I) \in C /\ BUC(J, J) \in C
<1>1. \A u, v : (\E e \in Edges : e.from = u /\ e.to = v) /\ v \in C => u \in C
  BY DEF SendersIn
<1>2. /\ \E e \in Edges : e.from = FUC(I, I) /\ e.to = FUC(J, I)
      /\ \E e \in Edges : e.from = FUC(J, I) /\ e.to = FUC(J, J)
      /\ \E e \in Edges : e.from = BUC(J, I) /\ e.to = BUC(I, I)
      /\ \E e \in Edges : e.from = BUC(J, J) /\ e.to = BUC(J, I)
  BY BelowSends
<1>3. FUC(J, I) \in C => FUC(I, I) \in C
  BY <1>1, <1>2
<1>4. FUC(J, J) \in C => FUC(J, I) \in C
  BY <1>1, <1>2
<1>5. BUC(J, I) \in C => BUC(J, J) \in C
  BY <1>1, <1>2
<1>6. BUC(I, I) \in C => BUC(J, I) \in C
  BY <1>1, <1>2
<1> QED
  BY <1>3, <1>4, <1>5, <1>6

LEMMA CausalTurn ==
  ASSUME NEW C, SendersIn(C), NEW I \in Sup, BUC(I, I) \in C
  PROVE  FUC(I, I) \in C
<1> DEFINE Wrong == {K \in Sup : BUC(K, K) \in C /\ FUC(K, K) \notin C}
           D == {NS - K : K \in Wrong}
<1> SUFFICES ASSUME I \in Wrong PROVE FALSE
  OBVIOUS
<1>1. \A K \in Sup : K \in Nat /\ K <= NS /\ NS - K \in Nat /\ NS \in Nat
  BY GraphAssumption DEF Sup
<1>2. D \subseteq Nat /\ D # {}
  BY <1>1
<1>3. PICK n \in D : \A k \in D : n <= k
  BY <1>2, LeastNatural
<1>4. PICK J \in Wrong : n = NS - J
  OBVIOUS
<1>5. \A K \in Wrong : NS - J <= NS - K
  BY <1>3, <1>4
<1>6. J \in Sup /\ BUC(J, J) \in C /\ FUC(J, J) \notin C
  BY <1>4
<1>7. ~Root(J)
  <2>1. Root(J) => \E e \in Edges : e.from = FUC(J, J) /\ e.to = BUC(J, J)
    BY <1>6, DiagTasks
  <2> QED
    BY <1>6, <2>1 DEF SendersIn
<1>8. PICK K \in Struct[J] : TRUE
  BY <1>7 DEF Root
<1>9. K \in Sup /\ K > J
  BY <1>6, <1>8, BelowSends
<1>10. BUC(K, K) \in C
  BY <1>6, <1>8, CausalChain
<1>11. K \notin Wrong
  BY <1>1, <1>5, <1>6, <1>9
<1>12. FUC(K, K) \in C
  BY <1>9, <1>10, <1>11
<1>13. FUC(J, J) \in C
  BY <1>6, <1>8, <1>12, CausalChain
<1> QED
  BY <1>6, <1>13

LEMMA CausalReads ==
  ASSUME FillClosed, NEW C, SendersIn(C), NEW I \in Sup, NEW J \in Struct[I],
         BUC(J, I) \in C
  PROVE  FUC(I, I) \in C /\ \A K \in Struct[I] : FUC(K, I) \in C
<1>1. J \in Sup /\ J \in Nat
  BY BelowSends
<1>2. BUC(J, J) \in C
  BY CausalChain
<1>3. FUC(J, J) \in C
  BY <1>1, <1>2, CausalTurn
<1>4. FUC(I, I) \in C
  BY <1>3, CausalChain
<1>5. ASSUME NEW K \in Struct[I] PROVE FUC(K, I) \in C
  <2>1. K \in Sup /\ K \in Nat
    BY BelowSends
  <2>2. FUC(K, K) \in C
    <3>1. CASE K = J
      BY <1>3, <3>1
    <3>2. CASE K > J
      <4>1. K \in Struct[J]
        BY <3>2 DEF FillClosed
      <4>2. BUC(K, K) \in C
        BY <1>1, <1>2, <4>1, CausalChain
      <4> QED
        BY <2>1, <4>2, CausalTurn
    <3>3. CASE J > K
      <4>1. J \in Struct[K]
        BY <3>3 DEF FillClosed
      <4> QED
        BY <1>3, <2>1, <4>1, CausalChain
    <3> QED
      BY <1>1, <2>1, <3>1, <3>2, <3>3
  <2> QED
    BY <2>2, CausalChain
<1> QED
  BY <1>4, <1>5

(* No edge of the solve's graph joins the two phases except at the roots;  *)
(* still, on a structure closed under fill, everything that subtracts from *)
(* the solution of a supernode comes after its forward phase and after     *)
(* every forward task that reads it, along the paths of the graph alone.   *)
THEOREM SolveForwardFirst == FillClosed => ForwardFirst
<1> SUFFICES ASSUME FillClosed, NEW x \in Below
             PROVE  /\ FUC(x[1], x[1]) \in Causes(BUC(x[2], x[1]), Edges)
                    /\ \A K \in Struct[x[1]] :
                         FUC(K, x[1]) \in Causes(BUC(x[2], x[1]), Edges)
  BY DEF ForwardFirst
<1>1. PICK I, J : I = x[1] /\ J = x[2] /\ I \in Sup /\ J \in Struct[I]
  BY PairTypes DEF Below
<1>2. BUC(J, I) \in Task
  BY <1>1, BelowSends
<1> DEFINE C == Causes(BUC(J, I), Edges)
<1>3. BUC(J, I) \in C /\ SendersIn(C)
  BY <1>2, CausesClosed DEF SendersIn
<1>4. FUC(I, I) \in C /\ \A K \in Struct[I] : FUC(K, I) \in C
  <2> HIDE DEF C
  <2> QED
    BY <1>1, <1>3, CausalReads
<1> QED
  BY <1>1, <1>4

-----------------------------------------------------------------------------
(* The counts in the messages.                                             *)

LEMMA RightSumIs ==
  ASSUME NEW I, NEW away, NEW f, NEW w, w = [r \in away |-> RightDeps(I, r)],
         IsFiniteSet(away), IsSetSum(f, w, away)
  PROVE  MapThenSumSet(LAMBDA r : RightDeps(I, r), away) = f[away]
<1> DEFINE Is(g) == g = [A \in SUBSET away |->
                           IF A = {} THEN 0
                           ELSE LET x == CHOOSE x \in A : TRUE
                                IN RightDeps(I, x) + g[A \ {x}]]
<1>1. ASSUME NEW g PROVE Is(g) <=> IsSetSum(g, w, away)
  <2>1. ASSUME NEW A \in SUBSET away
        PROVE  (IF A = {} THEN 0
                ELSE LET x == CHOOSE x \in A : TRUE
                     IN RightDeps(I, x) + g[A \ {x}]) = SumStep(g, w, A)
    <3>1. A # {} => (CHOOSE x \in A : TRUE) \in away
      OBVIOUS
    <3> QED
      BY <3>1 DEF SumStep
  <2> QED
    BY <2>1 DEF IsSetSum
<1>2. MapThenSumSet(LAMBDA r : RightDeps(I, r), away) = (CHOOSE g : Is(g))[away]
  BY DEF MapThenSumSet, MapThenFoldSet
<1> HIDE DEF Is
<1>3. Is(CHOOSE g : Is(g))
  BY <1>1
<1>4. (CHOOSE g : Is(g)) = f
  BY <1>1, <1>3, SumUnique
<1> QED
  BY <1>2, <1>4

LEMMA UpSumIs ==
  ASSUME NEW I, NEW away, NEW f, NEW w, w = [r \in away |-> UpDeps(I, r)],
         IsFiniteSet(away), IsSetSum(f, w, away)
  PROVE  MapThenSumSet(LAMBDA r : UpDeps(I, r), away) = f[away]
<1> DEFINE Is(g) == g = [A \in SUBSET away |->
                           IF A = {} THEN 0
                           ELSE LET x == CHOOSE x \in A : TRUE
                                IN UpDeps(I, x) + g[A \ {x}]]
<1>1. ASSUME NEW g PROVE Is(g) <=> IsSetSum(g, w, away)
  <2>1. ASSUME NEW A \in SUBSET away
        PROVE  (IF A = {} THEN 0
                ELSE LET x == CHOOSE x \in A : TRUE
                     IN UpDeps(I, x) + g[A \ {x}]) = SumStep(g, w, A)
    <3>1. A # {} => (CHOOSE x \in A : TRUE) \in away
      OBVIOUS
    <3> QED
      BY <3>1 DEF SumStep
  <2> QED
    BY <2>1 DEF IsSetSum
<1>2. MapThenSumSet(LAMBDA r : UpDeps(I, r), away) = (CHOOSE g : Is(g))[away]
  BY DEF MapThenSumSet, MapThenFoldSet
<1> HIDE DEF Is
<1>3. Is(CHOOSE g : Is(g))
  BY <1>1
<1>4. (CHOOSE g : Is(g)) = f
  BY <1>1, <1>3, SumUnique
<1> QED
  BY <1>2, <1>4

(* The signals of a contribution to I from elsewhere, in either phase.     *)
LEMMA RemoteRight ==
  ASSUME NEW I \in Sup
  PROVE  RemoteInto(FUC(I, I))
           = {e \in FucSend : e.from.row = I /\ e.from.rank \in Rank \ {Home(I, I)}}
<1> DEFINE t == FUC(I, I)
<1>1. /\ t \in Task /\ t.op = "FUC" /\ t.row = I /\ t.col = I /\ t.rank = Home(I, I)
      /\ Diag(t)
  BY DiagTasks DEF FUC, TaskOf, Diag
<1> HIDE DEF t
<1>2. ASSUME NEW e \in RemoteInto(t)
      PROVE  e \in FucSend /\ e.from.row = I /\ e.from.rank \in Rank \ {Home(I, I)}
  <2>1. e \in Edges /\ e.to = t /\ e.from.rank # t.rank
    BY DEF RemoteInto
  <2>2. ~Diag(e.from)
    BY <1>1, <2>1, EdgeShape
  <2>3. e = Contribution(e.from) /\ e.from \in Task /\ e.from.rank \in Rank
    BY <2>1, <2>2, EdgeShape, TaskShape
  <2>4. e.to.op = e.from.op /\ e.to.row = Goal(e.from)
    BY <2>3 DEF Contribution, Final, Edge, TaskOf
  <2>5. e.from.op = "FUC" /\ e.from.row = I
    BY <1>1, <2>1, <2>4 DEF Goal
  <2>6. e.why = "FUC"
    BY <2>3, <2>5 DEF Contribution, Edge
  <2>7. e \notin FucDSend /\ e \notin BucDSend /\ e \notin BucSend
    BY <2>6 DEF FucDSend, BucDSend, BucSend, Edge
  <2> QED
    BY <1>1, <2>1, <2>3, <2>5, <2>7 DEF Edges
<1>3. ASSUME NEW e \in FucSend, e.from.row = I, e.from.rank \in Rank \ {Home(I, I)}
      PROVE  e \in RemoteInto(t)
  <2>1. CASE \E x \in Below : e = Edge(FUC(x[2], x[1]), FUC(x[2], x[2]), "FUC", x)
    <3>1. PICK x \in Below : e = Edge(FUC(x[2], x[1]), FUC(x[2], x[2]), "FUC", x)
      BY <2>1
    <3>2. x[2] = I /\ e.to = FUC(x[2], x[2])
      BY <1>3, <3>1 DEF Edge, FUC, TaskOf
    <3>3. e.to = t
      BY <3>2 DEF t
    <3> QED
      BY <1>1, <1>3, <3>3 DEF RemoteInto, Edges
  <2>2. CASE \E K \in Sup : e = Edge(FUC(K, K), BUC(K, K), "FUC", <<K, K>>)
    BY <1>3, <2>2 DEF Edge, FUC, TaskOf
  <2> QED
    BY <2>1, <2>2 DEF FucSend
<1> QED
  BY <1>2, <1>3 DEF t

LEMMA RemoteUp ==
  ASSUME NEW I \in Sup
  PROVE  RemoteInto(BUC(I, I))
           = {e \in BucDSend : e.from.col = I /\ e.from.rank \in Rank \ {Home(I, I)}}
<1> DEFINE t == BUC(I, I)
<1>1. /\ t \in Task /\ t.op = "BUC" /\ t.row = I /\ t.col = I /\ t.rank = Home(I, I)
      /\ Diag(t)
  BY DiagTasks DEF BUC, TaskOf, Diag
<1> HIDE DEF t
<1>2. ASSUME NEW e \in RemoteInto(t)
      PROVE  e \in BucDSend /\ e.from.col = I /\ e.from.rank \in Rank \ {Home(I, I)}
  <2>1. e \in Edges /\ e.to = t /\ e.from.rank # t.rank
    BY DEF RemoteInto
  <2>2. ~Diag(e.from)
    BY <1>1, <2>1, EdgeShape
  <2>3. e = Contribution(e.from) /\ e.from \in Task /\ e.from.rank \in Rank
    BY <2>1, <2>2, EdgeShape, TaskShape
  <2>4. e.to.op = e.from.op /\ e.to.row = Goal(e.from)
    BY <2>3 DEF Contribution, Final, Edge, TaskOf
  <2>5. e.from.op = "BUC" /\ e.from.col = I
    BY <1>1, <2>1, <2>4 DEF Goal
  <2>6. e.why = "BUC_D"
    BY <2>3, <2>5 DEF Contribution, Edge
  <2>7. e \notin FucDSend /\ e \notin FucSend /\ e \notin BucSend
    BY <2>6 DEF FucDSend, FucSend, BucSend, Edge
  <2> QED
    BY <1>1, <2>1, <2>3, <2>5, <2>7 DEF Edges
<1>3. ASSUME NEW e \in BucDSend, e.from.col = I, e.from.rank \in Rank \ {Home(I, I)}
      PROVE  e \in RemoteInto(t)
  <2>1. PICK x \in Below : e = Edge(BUC(x[2], x[1]), BUC(x[1], x[1]), "BUC_D", x)
    BY DEF BucDSend
  <2>2. x[1] = I /\ e.to = BUC(x[1], x[1])
    BY <1>3, <2>1 DEF Edge, BUC, TaskOf
  <2>3. e.to = t
    BY <2>2 DEF t
  <2> QED
    BY <1>1, <1>3, <2>3 DEF RemoteInto, Edges
<1> QED
  BY <1>2, <1>3 DEF t

(* One message of a rank stands for all its contributions to a supernode;  *)
(* what it adds to the counter of the diagonal task is counted on the      *)
(* sender, what the task waits for on the receiver.  Over the ranks the    *)
(* counts of the senders are what the receiver expects, in both phases.    *)
THEOREM SolveCountsAddUp == IsFiniteSet(Rank) => CountedSendsAddUp
<1> SUFFICES ASSUME IsFiniteSet(Rank), NEW I \in Sup,
                    NEW away, away = Rank \ {Home(I, I)}
             PROVE  /\ MapThenSumSet(LAMBDA r : RightDeps(I, r), away)
                         = Incoming(FUC(I, I), Deps)
                    /\ MapThenSumSet(LAMBDA r : UpDeps(I, r), away)
                         = Incoming(BUC(I, I), Deps)
  BY DEF CountedSendsAddUp
<1>1. IsFiniteSet(away)
  BY FS_Subset
<1>2. IsFiniteSet(FucSend) /\ IsFiniteSet(BucDSend)
  BY EdgesFinite
<1>3. FUC(I, I) \in Task /\ BUC(I, I) \in Task
  BY DiagTasks
<1>4. MapThenSumSet(LAMBDA r : RightDeps(I, r), away) = Incoming(FUC(I, I), Deps)
  <2> DEFINE E == {e \in FucSend : e.from.row = I}
             h == [e \in E |-> e.from.rank]
             w == [r \in away |-> RightDeps(I, r)]
             f == [A \in SUBSET away |-> Cardinality({e \in E : h[e] \in A})]
  <2>1. IsFiniteSet(E)
    BY <1>2, FS_Subset
  <2>2. \A r \in away : w[r] = Cardinality({e \in E : h[e] = r})
    <3> SUFFICES ASSUME NEW r \in away
                 PROVE  w[r] = Cardinality({e \in E : h[e] = r})
      OBVIOUS
    <3>1. {e \in E : h[e] = r} = {e \in FucSend : e.from.row = I /\ e.from.rank = r}
      OBVIOUS
    <3> QED
      BY <3>1 DEF RightDeps
  <2>3. f[away] = Cardinality(RemoteInto(FUC(I, I)))
    <3>1. {e \in E : h[e] \in away} = RemoteInto(FUC(I, I))
      BY RemoteRight
    <3>2. f[away] = Cardinality({e \in E : h[e] \in away})
      OBVIOUS
    <3> QED
      BY <3>1, <3>2
  <2>4. PICK w0 : w0 = w
    OBVIOUS
  <2>5. IsSetSum(f, w0, away)
    <3> HIDE DEF E, h, w
    <3> QED
      BY <1>1, <2>1, <2>2, <2>4, SortedSum
  <2>6. MapThenSumSet(LAMBDA r : RightDeps(I, r), away) = f[away]
    <3> HIDE DEF f
    <3> QED
      BY <1>1, <2>4, <2>5, RightSumIs
  <2> QED
    BY <1>3, <2>3, <2>6, IntoCounts DEF RemoteDeps
<1>5. MapThenSumSet(LAMBDA r : UpDeps(I, r), away) = Incoming(BUC(I, I), Deps)
  <2> DEFINE E == {e \in BucDSend : e.from.col = I}
             h == [e \in E |-> e.from.rank]
             w == [r \in away |-> UpDeps(I, r)]
             f == [A \in SUBSET away |-> Cardinality({e \in E : h[e] \in A})]
  <2>1. IsFiniteSet(E)
    BY <1>2, FS_Subset
  <2>2. \A r \in away : w[r] = Cardinality({e \in E : h[e] = r})
    <3> SUFFICES ASSUME NEW r \in away
                 PROVE  w[r] = Cardinality({e \in E : h[e] = r})
      OBVIOUS
    <3>1. {e \in E : h[e] = r} = {e \in BucDSend : e.from.col = I /\ e.from.rank = r}
      OBVIOUS
    <3> QED
      BY <3>1 DEF UpDeps
  <2>3. f[away] = Cardinality(RemoteInto(BUC(I, I)))
    <3>1. {e \in E : h[e] \in away} = RemoteInto(BUC(I, I))
      BY RemoteUp
    <3>2. f[away] = Cardinality({e \in E : h[e] \in away})
      OBVIOUS
    <3> QED
      BY <3>1, <3>2
  <2>4. PICK w0 : w0 = w
    OBVIOUS
  <2>5. IsSetSum(f, w0, away)
    <3> HIDE DEF E, h, w
    <3> QED
      BY <1>1, <2>1, <2>2, <2>4, SortedSum
  <2>6. MapThenSumSet(LAMBDA r : UpDeps(I, r), away) = f[away]
    <3> HIDE DEF f
    <3> QED
      BY <1>1, <2>4, <2>5, UpSumIs
  <2> QED
    BY <1>3, <2>3, <2>6, IntoCounts DEF RemoteDeps
<1> QED
  BY <1>4, <1>5
=============================================================================
