------------------------- MODULE Factorize2D_proofs -------------------------
(***************************************************************************)
(* The 2D factorization is correct for every number of supernodes, every   *)
(* structure, every distribution of the cells, any number of ranks and     *)
(* both decompositions.  First the task graph: it has no cycle, and the    *)
(* two ends of every signal agree.  Then the execution: an inductive       *)
(* invariant that says of every counter which signals it still stands for, *)
(* and what follows from it.                                               *)
(***************************************************************************)
EXTENDS Factorize2D, Counting

(* A triple is made of a supernode and two supernodes below it.            *)
LEMMA TripleTypes ==
  ASSUME NEW x \in Triples
  PROVE  /\ x[1] \in Sup /\ x[2] \in Sup /\ x[3] \in Sup
         /\ x[2] > x[1] /\ x[3] > x[1]
         /\ x[2] \in Struct[x[1]] /\ x[3] \in Struct[x[1]]
         /\ x = <<x[1], x[2], x[3]>>
  BY GraphAssumption DEF Triples, Sup

LEMMA PairTypes ==
  ASSUME NEW x \in Below
  PROVE  /\ x[1] \in Sup /\ x[2] \in Sup /\ x[2] > x[1]
         /\ x[2] \in Struct[x[1]] /\ x = <<x[1], x[2]>>
  BY GraphAssumption DEF Below, Sup

-----------------------------------------------------------------------------
(* No circular wait: every signal climbs, so the graph has no cycle,       *)
(* whatever the structure and the distribution.                            *)
THEOREM GraphAcyclic == EdgesClimb
<1> USE DEF Edge, TaskOf, FACTOR, TRSM, UPDATE, DLT, Height, Sup
<1>1. ASSUME NEW e \in TrsmSend PROVE Height(e.from) < Height(e.to)
  BY PairTypes DEF TrsmSend
<1>2. ASSUME NEW e \in UpdateSendOD PROVE Height(e.from) < Height(e.to)
  BY TripleTypes DEF UpdateSendOD, LowerTriples
<1>3. ASSUME NEW e \in UpdateSendODtoDLT PROVE Height(e.from) < Height(e.to)
  BY TripleTypes DEF UpdateSendODtoDLT, LowerTriples
<1>4. ASSUME NEW e \in UpdateSend PROVE Height(e.from) < Height(e.to)
  BY TripleTypes DEF UpdateSend, UpperTriples
<1>5. ASSUME NEW e \in UpdateDiagSend PROVE Height(e.from) < Height(e.to)
  BY TripleTypes DEF UpdateDiagSend, UpperTriples
<1>6. ASSUME NEW e \in AggregateSend PROVE Height(e.from) < Height(e.to)
  BY TripleTypes DEF AggregateSend, AggregateTarget, LowerTriples
<1>7. ASSUME NEW e \in DltAtRecvOD PROVE Height(e.from) < Height(e.to)
  BY TripleTypes DEF DltAtRecvOD, LowerTriples
<1>8. ASSUME NEW e \in DltAtDiagRecv PROVE Height(e.from) < Height(e.to)
  BY TripleTypes DEF DltAtDiagRecv, UpperTriples
<1> QED
  BY <1>1, <1>2, <1>3, <1>4, <1>5, <1>6, <1>7, <1>8 DEF EdgesClimb, Edges

(* Only factored diagonal cells and solved panel cells cross ranks.        *)
THEOREM OnlyPanels == OnlyPanelsTravel
<1> USE DEF Edge, TaskOf, FACTOR, TRSM, UPDATE, DLT
<1>1. \A e \in TrsmSend \cup UpdateDiagSend : e.from.op = "FACTOR"
  BY DEF TrsmSend, UpdateDiagSend
<1>2. \A e \in UpdateSendOD \cup UpdateSendODtoDLT \cup UpdateSend :
        e.from.op = "TRSM"
  BY DEF UpdateSendOD, UpdateSendODtoDLT, UpdateSend
<1>3. \A e \in AggregateSend : e.from.rank = e.to.rank
  BY DEF AggregateSend, AggregateTarget
<1>4. \A e \in DltAtRecvOD \cup DltAtDiagRecv : e.from.rank = e.to.rank
  BY DEF DltAtRecvOD, DltAtDiagRecv
<1> QED
  BY <1>1, <1>2, <1>3, <1>4 DEF OnlyPanelsTravel, Edges

(* With a structure closed under fill, both ends of a signal are tasks.    *)
THEOREM SignalsLandOnTasks == FillClosed => EdgesJoinTasks
<1> SUFFICES ASSUME FillClosed PROVE EdgesJoinTasks
  OBVIOUS
<1>1. \A I \in Sup : FACTOR(I) \in Task
  BY DEF Task
<1>2. \A x \in Below : TRSM(x[2], x[1]) \in Task
  BY DEF Task
<1>3. \A x \in LowerTriples : UPDATE(x[3], x[2], x[1]) \in Task
  BY DEF Task
<1>4. LDL => \A x \in LowerTriples :
                DLT(x[2], x[1], Home(x[3], x[2])) \in Task
  BY DEF Task
<1>5. \A x \in Triples : TRSM(x[2], x[1]) \in Task
  <2> SUFFICES ASSUME NEW x \in Triples PROVE TRSM(x[2], x[1]) \in Task
    OBVIOUS
  <2>1. <<x[1], x[2]>> \in Below
    BY TripleTypes DEF Below
  <2> QED
    BY <1>2, <2>1
(* The mirror of an upper triple is a lower one.                           *)
<1>6. ASSUME NEW x \in UpperTriples
      PROVE  /\ UPDATE(x[2], x[3], x[1]) \in Task
             /\ LDL => DLT(x[3], x[1], Home(x[2], x[3])) \in Task
  <2>1. <<x[1], x[3], x[2]>> \in LowerTriples
    BY TripleTypes DEF LowerTriples, UpperTriples, Triples, Sup
  <2> QED
    BY <1>3, <1>4, <2>1
<1>7. \A x \in LowerTriples : AggregateTarget(x[3], x[2]) \in Task
  <2> SUFFICES ASSUME NEW x \in LowerTriples
               PROVE  AggregateTarget(x[3], x[2]) \in Task
    OBVIOUS
  <2>1. CASE x[3] = x[2]
    BY <1>1, <2>1, TripleTypes DEF LowerTriples, AggregateTarget
  <2>2. CASE x[3] # x[2]
    <3>1. <<x[2], x[3]>> \in Below
      BY <2>2, TripleTypes DEF LowerTriples, FillClosed, Below, Sup
    <3> QED
      BY <1>2, <2>2, <3>1 DEF AggregateTarget
  <2> QED
    BY <2>1, <2>2
<1> USE DEF Edge
<1>8. \A e \in TrsmSend : e.from \in Task /\ e.to \in Task
  BY <1>1, <1>2, PairTypes DEF TrsmSend
<1>9. \A e \in UpdateSendOD \cup AggregateSend :
        e.from \in Task /\ e.to \in Task
  BY <1>3, <1>5, <1>7 DEF UpdateSendOD, AggregateSend, LowerTriples
<1>10. \A e \in UpdateSend : e.from \in Task /\ e.to \in Task
  BY <1>5, <1>6 DEF UpdateSend, UpperTriples
<1>11. LDL => \A e \in UpdateSendODtoDLT \cup DltAtRecvOD :
                e.from \in Task /\ e.to \in Task
  BY <1>3, <1>4, <1>5 DEF UpdateSendODtoDLT, DltAtRecvOD, LowerTriples
<1>12. LDL => \A e \in UpdateDiagSend \cup DltAtDiagRecv :
                e.from \in Task /\ e.to \in Task
  BY <1>1, <1>6, TripleTypes DEF UpdateDiagSend, DltAtDiagRecv, UpperTriples
<1> QED
  BY <1>8, <1>9, <1>10, <1>11, <1>12 DEF EdgesJoinTasks, Edges

-----------------------------------------------------------------------------
(* The dependency that answers a signal.                                   *)
Expected(e) == Dep(e.to, e.from.rank # e.to.rank, e.why, e.at)
Answers(E)  == {Expected(e) : e \in E}

(* Both sides of the exchange count the same signals, remote and local:    *)
(* no counter is left above zero, none goes below.                         *)
THEOREM CountsAgree == SignalsMatchDeps
<1>1. ASSUME NEW x \in Below
      PROVE  Dep(TRSM(x[2], x[1]), Home(x[2], x[1]) # Home(x[1], x[1]),
                 "TRSM", x)
               = Expected(Edge(FACTOR(x[1]), TRSM(x[2], x[1]), "TRSM", x))
  BY DEF Expected, Dep, Edge, TaskOf, FACTOR, TRSM, UPDATE, DLT
<1>2. ASSUME NEW x \in LowerTriples
      PROVE  Dep(UPDATE(x[3], x[2], x[1]), Home(x[2], x[1]) # Home(x[3], x[2]),
                 "OD", x)
               = Expected(Edge(TRSM(x[2], x[1]), UPDATE(x[3], x[2], x[1]), "OD", x))
  BY DEF Expected, Dep, Edge, TaskOf, FACTOR, TRSM, UPDATE, DLT
<1>3. ASSUME NEW x \in UpperTriples
      PROVE  Dep(UPDATE(x[2], x[3], x[1]), Home(x[2], x[1]) # Home(x[2], x[3]),
                 "SEND", x)
               = Expected(Edge(TRSM(x[2], x[1]), UPDATE(x[2], x[3], x[1]), "SEND", x))
  BY DEF Expected, Dep, Edge, TaskOf, FACTOR, TRSM, UPDATE, DLT
<1>4. ASSUME NEW x \in LowerTriples
      PROVE  Dep(AggregateTarget(x[3], x[2]), FALSE, "AGG", x)
               = Expected(Edge(UPDATE(x[3], x[2], x[1]),
                               AggregateTarget(x[3], x[2]), "AGG", x))
  BY DEF AggregateTarget, Expected, Dep, Edge, TaskOf, FACTOR, TRSM, UPDATE, DLT
<1>5. ASSUME NEW x \in LowerTriples
      PROVE  Dep(DLT(x[2], x[1], Home(x[3], x[2])),
                 Home(x[2], x[1]) # Home(x[3], x[2]), "OD", x)
               = Expected(Edge(TRSM(x[2], x[1]),
                               DLT(x[2], x[1], Home(x[3], x[2])), "OD", x))
  BY DEF Expected, Dep, Edge, TaskOf, FACTOR, TRSM, UPDATE, DLT
<1>6. ASSUME NEW x \in LowerTriples
      PROVE  Dep(UPDATE(x[3], x[2], x[1]), FALSE, "DLT_OD", x)
               = Expected(Edge(DLT(x[2], x[1], Home(x[3], x[2])),
                               UPDATE(x[3], x[2], x[1]), "DLT_OD", x))
  BY DEF Expected, Dep, Edge, TaskOf, FACTOR, TRSM, UPDATE, DLT
<1>7. ASSUME NEW x \in UpperTriples
      PROVE  Dep(DLT(x[3], x[1], Home(x[2], x[3])),
                 Home(x[1], x[1]) # Home(x[2], x[3]), "DIAG", x)
               = Expected(Edge(FACTOR(x[1]),
                               DLT(x[3], x[1], Home(x[2], x[3])), "DIAG", x))
  BY DEF Expected, Dep, Edge, TaskOf, FACTOR, TRSM, UPDATE, DLT
<1>8. ASSUME NEW x \in UpperTriples
      PROVE  Dep(UPDATE(x[2], x[3], x[1]), FALSE, "DLT_DIAG", x)
               = Expected(Edge(DLT(x[3], x[1], Home(x[2], x[3])),
                               UPDATE(x[2], x[3], x[1]), "DLT_DIAG", x))
  BY DEF Expected, Dep, Edge, TaskOf, FACTOR, TRSM, UPDATE, DLT
<1>9. TrsmRecv = Answers(TrsmSend)
  BY <1>1 DEF TrsmRecv, TrsmSend, Answers
<1>10. UpdateRecvOD = Answers(UpdateSendOD)
  BY <1>2 DEF UpdateRecvOD, UpdateSendOD, Answers
<1>11. UpdateRecv = Answers(UpdateSend)
  BY <1>3 DEF UpdateRecv, UpdateSend, Answers
<1>12. AggregateRecv = Answers(AggregateSend)
  BY <1>4 DEF AggregateRecv, AggregateSend, Answers
<1>13. UpdateRecvODofDLT = Answers(UpdateSendODtoDLT) \cup Answers(DltAtRecvOD)
  <2>1. Answers(UpdateSendODtoDLT) =
          {Dep(DLT(x[2], x[1], Home(x[3], x[2])),
               Home(x[2], x[1]) # Home(x[3], x[2]), "OD", x) : x \in LowerTriples}
    BY <1>5 DEF UpdateSendODtoDLT, Answers
  <2>2. Answers(DltAtRecvOD) =
          {Dep(UPDATE(x[3], x[2], x[1]), FALSE, "DLT_OD", x) : x \in LowerTriples}
    BY <1>6 DEF DltAtRecvOD, Answers
  <2> QED
    BY <2>1, <2>2 DEF UpdateRecvODofDLT
<1>14. UpdateDiagRecv = Answers(UpdateDiagSend) \cup Answers(DltAtDiagRecv)
  <2>1. Answers(UpdateDiagSend) =
          {Dep(DLT(x[3], x[1], Home(x[2], x[3])),
               Home(x[1], x[1]) # Home(x[2], x[3]), "DIAG", x) : x \in UpperTriples}
    BY <1>7 DEF UpdateDiagSend, Answers
  <2>2. Answers(DltAtDiagRecv) =
          {Dep(UPDATE(x[2], x[3], x[1]), FALSE, "DLT_DIAG", x) : x \in UpperTriples}
    BY <1>8 DEF DltAtDiagRecv, Answers
  <2> QED
    BY <2>1, <2>2 DEF UpdateDiagRecv
<1>15. Deps = Answers(Edges)
  <2>1. CASE LDL
    BY <1>9, <1>10, <1>11, <1>12, <1>13, <1>14, <2>1
       DEF Deps, Edges, Answers
  <2>2. CASE ~LDL
    BY <1>9, <1>10, <1>11, <1>12, <2>2 DEF Deps, Edges, Answers
  <2> QED
    BY <2>1, <2>2
<1> QED
  BY <1>15 DEF SignalsMatchDeps, Answers, Expected
-----------------------------------------------------------------------------
(* The sets the counters count in are finite.                              *)

LEMMA SupFinite ==
  /\ IsFiniteSet(Sup) /\ IsFiniteSet(Sup \X Sup)
  /\ IsFiniteSet((Sup \X Sup) \X Sup)
  /\ IsFiniteSet(Pair)
<1>1. IsFiniteSet(Sup)
  BY GraphAssumption, FS_Interval DEF Sup
<1>2. IsFiniteSet(Sup \X Sup)
  BY <1>1, FS_Product
<1>3. IsFiniteSet((Sup \X Sup) \X Sup)
  BY <1>1, <1>2, FS_Product
<1>4. Pair \in SUBSET (Sup \X Sup)
  BY DEF Pair
<1> QED
  BY <1>1, <1>2, <1>3, <1>4, FS_Subset

(* The ranks that own a cell.                                              *)
Owners == {Owner[c] : c \in Pair}

LEMMA OwnersFinite == IsFiniteSet(Owners)
<1>1. Owner \in Surjection(Pair, Owners)
  BY GraphAssumption DEF Owners, Surjection
<1> QED
  BY <1>1, SupFinite, FS_Surjection

-----------------------------------------------------------------------------
(* The shape of tasks and signals.                                         *)

Ops == {"FACTOR", "TRSM", "UPDATE", "DLT"}

LEMMA TaskShape ==
  ASSUME NEW t \in Task
  PROVE  /\ t = TaskOf(t.op, t.row, t.col, t.src, t.rank)
         /\ t.op \in Ops /\ t.row \in Sup /\ t.col \in Sup /\ t.src \in Sup
         /\ t.rank \in Owners /\ t.rank \in Rank
         /\ t.op # "DLT" => t.rank = Home(t.row, t.col)
         /\ t.op = "FACTOR" => t = FACTOR(t.row)
         /\ t.op = "TRSM" => t = TRSM(t.row, t.src) /\ <<t.src, t.row>> \in Below
         /\ t.op = "UPDATE" =>
              /\ t = UPDATE(t.row, t.col, t.src)
              /\ <<t.src, t.col, t.row>> \in LowerTriples
         /\ t.op = "DLT" => t = DLT(t.col, t.src, t.rank)
<1> USE DEF TaskOf, FACTOR, TRSM, UPDATE, DLT, Ops
<1>0. \A K, J \in Sup : K >= J => Home(K, J) \in Owners /\ Home(K, J) \in Rank
  BY GraphAssumption DEF Home, Owners, Pair
<1>1. CASE \E I \in Sup : t = FACTOR(I)
  BY <1>0, <1>1 DEF Sup
<1>2. CASE \E x \in Below : t = TRSM(x[2], x[1])
  <2>1. PICK x \in Below : t = TRSM(x[2], x[1])
    BY <1>2
  <2>2. /\ x[1] \in Sup /\ x[2] \in Sup /\ x[2] > x[1] /\ x = <<x[1], x[2]>>
    BY PairTypes
  <2> QED
    BY <1>0, <2>1, <2>2 DEF Sup
<1>3. CASE \E x \in LowerTriples : t = UPDATE(x[3], x[2], x[1])
  <2>1. PICK x \in LowerTriples : t = UPDATE(x[3], x[2], x[1])
    BY <1>3
  <2>2. /\ x[1] \in Sup /\ x[2] \in Sup /\ x[3] \in Sup /\ x[3] >= x[2]
        /\ x = <<x[1], x[2], x[3]>>
    BY TripleTypes DEF LowerTriples
  <2> QED
    BY <1>0, <2>1, <2>2
<1>4. CASE \E x \in LowerTriples : t = DLT(x[2], x[1], Home(x[3], x[2]))
  <2>1. PICK x \in LowerTriples : t = DLT(x[2], x[1], Home(x[3], x[2]))
    BY <1>4
  <2>2. x[1] \in Sup /\ x[2] \in Sup /\ x[3] \in Sup /\ x[3] >= x[2]
    BY TripleTypes DEF LowerTriples
  <2> QED
    BY <1>0, <2>1, <2>2
<1> QED
  BY <1>1, <1>2, <1>3, <1>4 DEF Task

LEMMA TasksFinite == IsFiniteSet(Task)
<1> DEFINE T == (Ops \X Owners) \X ((Sup \X Sup) \X Sup)
           f == [t \in Task |-> <<<<t.op, t.rank>>, <<<<t.row, t.col>>, t.src>>>>]
<1>1. IsFiniteSet(T)
  <2>1. IsFiniteSet(Ops)
    <3>1. Ops = {"FACTOR"} \cup ({"TRSM"} \cup ({"UPDATE"} \cup {"DLT"}))
      BY DEF Ops
    <3> QED
      BY <3>1, FS_Singleton, FS_Union
  <2> QED
    BY <2>1, OwnersFinite, SupFinite, FS_Product
<1>2. f \in [Task -> T]
  BY TaskShape
<1>3. \A x, y \in Task : f[x] = f[y] => x = y
  BY TaskShape DEF TaskOf
<1> QED
  <2> HIDE DEF f, T
  <2> QED
    BY <1>1, <1>2, <1>3, IntoFinite

(* Whom a signal comes from is known from why and where it was made.       *)
Sender(why, x) ==
  CASE why = "TRSM" -> FACTOR(x[1])
    [] why = "OD"   -> TRSM(x[2], x[1])
    [] why = "SEND" -> TRSM(x[2], x[1])
    [] why = "AGG"  -> UPDATE(x[3], x[2], x[1])
    [] why = "DIAG" -> FACTOR(x[1])
    [] why = "DLT_OD"   -> DLT(x[2], x[1], Home(x[3], x[2]))
    [] why = "DLT_DIAG" -> DLT(x[3], x[1], Home(x[2], x[3]))

Reasons == {"TRSM", "OD", "SEND", "AGG", "DIAG", "DLT_OD", "DLT_DIAG"}

LEMMA EdgeShape ==
  ASSUME NEW e \in Edges
  PROVE  /\ e = Edge(e.from, e.to, e.why, e.at)
         /\ e.why \in Reasons /\ e.at \in Below \cup Triples
         /\ e.from = Sender(e.why, e.at)
<1> USE DEF Edge, Sender, Reasons
<1>1. CASE e \in TrsmSend
  BY <1>1 DEF TrsmSend
<1>2. CASE e \in UpdateSendOD
  BY <1>2 DEF UpdateSendOD, LowerTriples
<1>3. CASE e \in UpdateSend
  BY <1>3 DEF UpdateSend, UpperTriples
<1>4. CASE e \in AggregateSend
  BY <1>4 DEF AggregateSend, LowerTriples
<1>5. CASE e \in UpdateSendODtoDLT
  BY <1>5 DEF UpdateSendODtoDLT, LowerTriples
<1>6. CASE e \in UpdateDiagSend
  BY <1>6 DEF UpdateDiagSend, UpperTriples
<1>7. CASE e \in DltAtRecvOD
  BY <1>7 DEF DltAtRecvOD, LowerTriples
<1>8. CASE e \in DltAtDiagRecv
  BY <1>8 DEF DltAtDiagRecv, UpperTriples
<1> QED
  BY <1>1, <1>2, <1>3, <1>4, <1>5, <1>6, <1>7, <1>8 DEF Edges

LEMMA EdgesFinite ==
  ASSUME FillClosed
  PROVE  IsFiniteSet(Edges)
<1> DEFINE P == (Sup \X Sup) \cup (Sup \X Sup \X Sup)
           T == (Reasons \X P) \X Task
           f == [e \in Edges |-> <<<<e.why, e.at>>, e.to>>]
<1>1. IsFiniteSet(T)
  <2>1. IsFiniteSet(Reasons)
    <3>1. Reasons = {"TRSM"} \cup ({"OD"} \cup ({"SEND"} \cup ({"AGG"}
                      \cup ({"DIAG"} \cup ({"DLT_OD"} \cup {"DLT_DIAG"})))))
      BY DEF Reasons
    <3> QED
      BY <3>1, FS_Singleton, FS_Union
  <2>2. IsFiniteSet(Sup \X Sup \X Sup)
    <3> DEFINE g == [x \in Sup \X Sup \X Sup |-> <<<<x[1], x[2]>>, x[3]>>]
    <3>1. g \in [Sup \X Sup \X Sup -> (Sup \X Sup) \X Sup]
      OBVIOUS
    <3>2. \A x, y \in Sup \X Sup \X Sup : g[x] = g[y] => x = y
      OBVIOUS
    <3> QED
      <4> HIDE DEF g
      <4> QED
        BY <3>1, <3>2, SupFinite, IntoFinite
  <2>3. IsFiniteSet(P)
    BY <2>2, SupFinite, FS_Union
  <2> QED
    BY <2>1, <2>3, TasksFinite, FS_Product
<1>2. f \in [Edges -> T]
  BY EdgeShape, SignalsLandOnTasks DEF EdgesJoinTasks, Below, Triples
<1>3. \A x, y \in Edges : f[x] = f[y] => x = y
  BY EdgeShape DEF Edge
<1> QED
  <2> HIDE DEF f, T
  <2> QED
    BY <1>1, <1>2, <1>3, IntoFinite

-----------------------------------------------------------------------------
(* What a task is told to expect is the number of signals to it.           *)

LocalInto(t) == {e \in Edges : e.to = t /\ e.from.rank = t.rank}

LEMMA IntoCounts ==
  ASSUME FillClosed, NEW t \in Task
  PROVE  /\ LocalDeps(t) = Cardinality(LocalInto(t))
         /\ RemoteDeps(t) = Cardinality(RemoteInto(t))
         /\ IsFiniteSet(LocalInto(t)) /\ IsFiniteSet(RemoteInto(t))
<1> DEFINE L == {d \in Deps : d.task = t /\ ~d.remote}
           M == {d \in Deps : d.task = t /\ d.remote}
           f == [e \in LocalInto(t) |-> Expected(e)]
           g == [e \in RemoteInto(t) |-> Expected(e)]
<1>1. Deps = {Expected(e) : e \in Edges}
  BY CountsAgree DEF SignalsMatchDeps, Expected
<1>2. IsFiniteSet(LocalInto(t)) /\ IsFiniteSet(RemoteInto(t))
  BY EdgesFinite, FS_Subset DEF LocalInto, RemoteInto
<1>3. \A x, y \in Edges : Expected(x) = Expected(y) => x = y
  BY EdgeShape DEF Expected, Dep, Edge
<1>a. \A e \in Edges : /\ Expected(e) \in Deps
                       /\ Expected(e).task = e.to
                       /\ Expected(e).remote = (e.from.rank # e.to.rank)
  BY <1>1 DEF Expected, Dep
<1>b. \A d \in Deps : \E e \in Edges : Expected(e) = d
  BY <1>1
<1> HIDE <1>1
<1>4. /\ f \in [LocalInto(t) -> L]
      /\ \A y \in L : \E x \in LocalInto(t) : f[x] = y
      /\ \A x, y \in LocalInto(t) : f[x] = f[y] => x = y
  <2>1. f \in [LocalInto(t) -> L]
    BY <1>a DEF LocalInto
  <2>2. \A y \in L : \E x \in LocalInto(t) : Expected(x) = y
    BY <1>a, <1>b DEF LocalInto
  <2>3. \A x, y \in LocalInto(t) : Expected(x) = Expected(y) => x = y
    BY <1>3 DEF LocalInto
  <2> QED
    BY <2>1, <2>2, <2>3
<1>5. /\ g \in [RemoteInto(t) -> M]
      /\ \A y \in M : \E x \in RemoteInto(t) : g[x] = y
      /\ \A x, y \in RemoteInto(t) : g[x] = g[y] => x = y
  <2>1. g \in [RemoteInto(t) -> M]
    BY <1>a DEF RemoteInto
  <2>2. \A y \in M : \E x \in RemoteInto(t) : Expected(x) = y
    BY <1>a, <1>b DEF RemoteInto
  <2>3. \A x, y \in RemoteInto(t) : Expected(x) = Expected(y) => x = y
    BY <1>3 DEF RemoteInto
  <2> QED
    BY <2>1, <2>2, <2>3
<1>6. Cardinality(L) = Cardinality(LocalInto(t))
  <2> HIDE DEF f, L
  <2> QED
    BY <1>2, <1>4, SameCount
<1>7. Cardinality(M) = Cardinality(RemoteInto(t))
  <2> HIDE DEF g, M
  <2> QED
    BY <1>2, <1>5, SameCount
<1> QED
  BY <1>2, <1>6, <1>7 DEF LocalDeps, RemoteDeps, Incoming

(* The data of an edge, and the rpc that announces it.                     *)
LEMMA DataShape ==
  ASSUME FillClosed
  PROVE  /\ \A e \in Edges : e.from.rank # e.to.rank =>
              /\ DataOf(e) \in Data
              /\ DataOf(e)[1] = e.from /\ DataOf(e)[2] = e.to.rank
         /\ \A d \in Data : /\ <<d[1], d[2]>> \in Rpcs
                            /\ d[1] \in Task /\ d[2] \in Rank /\ d[1].rank # d[2]
                            /\ \E e \in Edges : /\ e.from.rank # e.to.rank
                                                /\ d = DataOf(e)
         /\ \A m \in Rpcs : /\ m = <<m[1], m[2]>>
                            /\ m[1] \in Task /\ m[2] \in Rank /\ m[1].rank # m[2]
                            /\ \E d \in Data : m = <<d[1], d[2]>>
<1>1. \A e \in Edges : e.from \in Task /\ e.to \in Task
  BY SignalsLandOnTasks DEF EdgesJoinTasks
<1>2. \A e \in Edges : e.from.rank # e.to.rank =>
              /\ DataOf(e) \in Data
              /\ DataOf(e)[1] = e.from /\ DataOf(e)[2] = e.to.rank
  BY DEF Data, DataOf
<1>3. \A d \in Data : \E e \in Edges : e.from.rank # e.to.rank /\ d = DataOf(e)
  BY DEF Data
<1>4. \A d \in Data : /\ <<d[1], d[2]>> \in Rpcs
                      /\ d[1] \in Task /\ d[2] \in Rank /\ d[1].rank # d[2]
  <2> SUFFICES ASSUME NEW d \in Data
               PROVE  /\ <<d[1], d[2]>> \in Rpcs
                      /\ d[1] \in Task /\ d[2] \in Rank /\ d[1].rank # d[2]
    OBVIOUS
  <2>1. PICK e \in Edges : e.from.rank # e.to.rank /\ d = DataOf(e)
    BY <1>3
  <2>2. d[1] = e.from /\ d[2] = e.to.rank
    BY <1>2, <2>1
  <2>3. e.to.rank \in Rank
    BY <1>1, TaskShape
  <2> QED
    BY <1>1, <2>1, <2>2, <2>3 DEF Rpcs
<1>5. \A m \in Rpcs : \E d \in Data : m = <<d[1], d[2]>>
  BY DEF Rpcs
<1> QED
  BY <1>2, <1>3, <1>4, <1>5

-----------------------------------------------------------------------------
(* The lpcs of rank r.                                                     *)
LpcOf(r) == {DepLpc(t, 1) : t \in OnRank(r, Task)}
              \cup {AvailLpc(t, 1) : t \in OnRank(r, Task)}

LEMMA LpcShape ==
  /\ \A t, u : DepLpc(t, 1) = DepLpc(u, 1) => t = u
  /\ \A t, u : AvailLpc(t, 1) = AvailLpc(u, 1) => t = u
  /\ \A t, u : DepLpc(t, 1) # AvailLpc(u, 1)
  /\ \A t : /\ DepLpc(t, 1).task = t /\ DepLpc(t, 1).count = 1
            /\ AvailLpc(t, 1).task = t /\ AvailLpc(t, 1).count = 1
            /\ DepLpc(t, 1).kind = "dep" /\ AvailLpc(t, 1).kind = "avail"
BY DEF DepLpc, AvailLpc

(* The callbacks of a message post one signal for each task attached.      *)
LEMMA TimesCallbacks ==
  ASSUME NEW r, NEW q \in Seq(OnRank(r, Task)), NEW t
  PROVE  /\ [i \in DOMAIN q |-> DepLpc(q[i], 1)] \in Seq(LpcOf(r))
         /\ Times(DepLpc(t, 1), [i \in DOMAIN q |-> DepLpc(q[i], 1)]) = Times(t, q)
         /\ Times(AvailLpc(t, 1), [i \in DOMAIN q |-> DepLpc(q[i], 1)]) = 0
<1> DEFINE u == [i \in DOMAIN q |-> DepLpc(q[i], 1)]
<1>1. /\ Len(q) \in Nat /\ DOMAIN q = 1..Len(q)
      /\ \A i \in 1..Len(q) : q[i] \in OnRank(r, Task)
  BY LenProperties, ElementOfSeq
<1>2. u \in [1..Len(q) -> LpcOf(r)]
  BY <1>1 DEF LpcOf
<1>3. u \in Seq(LpcOf(r)) /\ Len(u) = Len(q)
  BY <1>1, <1>2, SeqDef, LenProperties
<1>4. Places(DepLpc(t, 1), u) = Places(t, q)
  BY <1>1, <1>3, LpcShape DEF Places
<1>5. \A i \in 1..Len(u) : u[i] # AvailLpc(t, 1)
  BY <1>1, <1>3, LpcShape
<1> QED
  <2> HIDE DEF u
  <2>1. Times(AvailLpc(t, 1), u) = 0
    BY <1>3, <1>5, TimesZero
  <2> QED
    BY <1>3, <1>4, <2>1 DEF Times, u

(* One lpc is posted per signal of E.                                      *)
DepLpcs(E)   == LpcPerEdge(DepLpc, E)
AvailLpcs(E) == LpcPerEdge(AvailLpc, E)

SignalsTo(t, E) == {e \in E : e.to = t}

LEMMA TimesSignals ==
  ASSUME NEW r, NEW E, IsFiniteSet(E), \A e \in E : e.to \in OnRank(r, Task),
         NEW t
  PROVE  /\ DepLpcs(E) \in Seq(LpcOf(r))
         /\ AvailLpcs(E) \in Seq(LpcOf(r))
         /\ Times(DepLpc(t, 1), DepLpcs(E))
              = Cardinality(SignalsTo(t, E))
         /\ Times(AvailLpc(t, 1), AvailLpcs(E))
              = Cardinality(SignalsTo(t, E))
         /\ Times(DepLpc(t, 1), AvailLpcs(E)) = 0
         /\ Times(AvailLpc(t, 1), DepLpcs(E)) = 0
<1> DEFINE n == Cardinality(E)
           s == SetToSeq(E)
           T == SignalsTo(t, E)
           I == {i \in 1..n : s[i].to = t}
           f == [i \in I |-> s[i]]
<1>1. n \in Nat /\ \E g : g \in Bijection(1..n, E)
  BY FS_CardinalityType DEF ExistsBijection
<1>2. s \in [1..n -> E] /\ IsInjective(s)
  <2>1. \E g : g \in [1..n -> E] /\ IsInjective(g)
    BY <1>1 DEF Bijection, Injection
  <2> QED
    BY <2>1 DEF SetToSeq
<1>3. \A e \in E : \E i \in 1..n : s[i] = e
  <2>1. s \in Injection(1..n, E)
    BY <1>2 DEF Injection
  <2>2. IsFiniteSet(1..n) /\ Cardinality(1..n) = n
    BY <1>1, FS_Interval
  <2>3. s \in Surjection(1..n, E)
    BY <2>1, <2>2, FS_Injection
  <2> QED
    BY <2>3 DEF Surjection
<1>4. IsFiniteSet(I)
  <2>1. IsFiniteSet(1..n) /\ I \in SUBSET (1..n)
    BY <1>1, FS_Interval
  <2> QED
    BY <2>1, FS_Subset
<1> HIDE DEF s, n
<1>5. Cardinality(T) = Cardinality(I)
  <2>1. f \in [I -> T] /\ \A i, j \in I : f[i] = f[j] => i = j
    BY <1>2 DEF IsInjective, SignalsTo
  <2>2. \A e \in T : \E i \in I : f[i] = e
    BY <1>2, <1>3 DEF SignalsTo
  <2> HIDE DEF f, I, T
  <2> QED
    BY <1>4, <2>1, <2>2, SameCount
<1>6. /\ DepLpcs(E) = [i \in 1..n |-> DepLpc(s[i].to, 1)]
      /\ AvailLpcs(E) = [i \in 1..n |-> AvailLpc(s[i].to, 1)]
  BY <1>2 DEF DepLpcs, AvailLpcs, LpcPerEdge, s
<1>7. \A i \in 1..n : s[i].to \in OnRank(r, Task)
  BY <1>2
<1> DEFINE u == [i \in 1..n |-> DepLpc(s[i].to, 1)]
           v == [i \in 1..n |-> AvailLpc(s[i].to, 1)]
<1>8. u \in Seq(LpcOf(r)) /\ v \in Seq(LpcOf(r)) /\ Len(u) = n /\ Len(v) = n
  <2>1. u \in [1..n -> LpcOf(r)] /\ v \in [1..n -> LpcOf(r)]
    BY <1>7 DEF LpcOf
  <2> QED
    BY <1>1, <2>1, SeqDef, LenProperties DEF n
<1>9. Places(DepLpc(t, 1), u) = I /\ Places(AvailLpc(t, 1), v) = I
  <2>1. \A i \in 1..n : u[i] = DepLpc(t, 1) <=> s[i].to = t
    BY LpcShape
  <2>2. \A i \in 1..n : v[i] = AvailLpc(t, 1) <=> s[i].to = t
    BY LpcShape
  <2> HIDE DEF u, v
  <2> QED
    BY <1>8, <2>1, <2>2 DEF Places
<1>10. /\ \A i \in 1..Len(u) : u[i] # AvailLpc(t, 1)
       /\ \A i \in 1..Len(v) : v[i] # DepLpc(t, 1)
  BY <1>8, LpcShape
<1>11. Times(AvailLpc(t, 1), u) = 0 /\ Times(DepLpc(t, 1), v) = 0
  <2> HIDE DEF u, v
  <2> QED
    BY <1>8, <1>10, TimesZero
<1> QED
  BY <1>5, <1>6, <1>8, <1>9, <1>11 DEF Times

-----------------------------------------------------------------------------
(* The inductive invariant.                                                *)

Steps == {"before", "loop", "progress", "comm", "barrier", "end"}

TypeOK ==
  /\ pc \in [Rank -> Steps] /\ taskCnt \in [Rank -> Int]
  /\ ready \subseteq Task /\ avail \subseteq Task /\ executed \subseteq Task
  /\ inCnt \in [Task -> Int] /\ availCnt \in [Task -> Int]
  /\ net \subseteq Rpcs
  /\ data \in [Data -> {"absent", "fetching", "landed"}]
  /\ DOMAIN thens = Data /\ thens = [d \in Data |-> thens[d]]
  /\ \A d \in Data : thens[d] \in Seq(OnRank(d[2], Task))
  /\ DOMAIN inbox = Rank /\ inbox = [r \in Rank |-> inbox[r]]
  /\ \A r \in Rank : inbox[r] \in Seq(LpcOf(r))
  /\ pivots \in [Below -> Int]

(* The task has called attach on all its messages: it has left avail_tasks. *)
Attached(t) ==
  /\ RemoteInto(t) # {} /\ pc[t.rank] # "before"
  /\ availCnt[t] = 0 /\ t \notin avail

(* The signals to t that are not yet lpcs: those of its own rank whose     *)
(* sender has not run, those of other ranks whose callback has not.        *)
Unsignalled(t) == {e \in LocalInto(t) : e.from \notin executed}
Awaited(t) ==
  {e \in RemoteInto(t) : ~(Attached(t) /\ data[DataOf(e)] = "landed")}

Unannounced(t) == {e \in RemoteInto(t) : data[DataOf(e)] = "absent"}

(* The inputs of t that come with d.                                       *)
UsesOf(t, d) == {e \in RemoteInto(t) : DataOf(e) = d}

DepExact ==
  \A t \in Task :
    inCnt[t] = Cardinality(Unsignalled(t)) + Cardinality(Awaited(t))
                 + Times(DepLpc(t, 1), inbox[t.rank])

AvailExact ==
  \A t \in Task :
    /\ availCnt[t] = Cardinality(Unannounced(t))
                       + Times(AvailLpc(t, 1), inbox[t.rank])
    /\ RemoteInto(t) = {} => availCnt[t] = 0
    /\ t \in avail => /\ pc[t.rank] # "before" /\ availCnt[t] = 0
                      /\ RemoteInto(t) # {}

(* A message being fetched holds one callback for each use by a task that  *)
(* attached to it, any other message none.                                 *)
CallbacksExact ==
  \A d \in Data :
    /\ data[d] # "fetching" => thens[d] = <<>>
    /\ data[d] = "fetching" =>
         \A t \in Task : Times(t, thens[d]) =
           IF Attached(t) THEN Cardinality(UsesOf(t, d)) ELSE 0

(* What an executed task announced is on its way or has been received.     *)
AnnouncedOnce ==
  \A d \in Data :
    /\ (d[1] \in executed) <=> (data[d] # "absent" \/ <<d[1], d[2]>> \in net)
    /\ <<d[1], d[2]>> \in net => data[d] = "absent"

ReadyExact ==
  /\ ready \cap executed = {}
  /\ \A t \in Task : (t \in ready \cup executed)
                       <=> (inCnt[t] = 0 /\ pc[t.rank] # "before")

LoopExact ==
  \A r \in Rank :
    /\ taskCnt[r] = Cardinality(OnRank(r, Task \ executed))
    /\ pc[r] \in {"barrier", "end"} => taskCnt[r] = 0
    /\ pc[r] = "end" => \A q \in Rank : pc[q] \in {"barrier", "end"}

(* The updates on the rank of the pivot cell x that use it.                *)
Facing(x) ==
  {u \in Task : /\ u.op = "UPDATE" /\ u.col = x[2] /\ u.src = x[1]
                /\ u.rank = Home(x[2], x[1])}

Unserved(x) == Facing(x) \ executed

(* D times a pivot is kept as long as an update needs it.                  *)
PivotsExact ==
  LDL =>
    /\ \A x \in Below :
         IF TRSM(x[2], x[1]) \in executed
         THEN pivots[x] >= Cardinality(Unserved(x))
         ELSE pivots[x] = 0
    /\ \A t \in Task :
         /\ t.op = "UPDATE" /\ t \notin executed
         /\ DLT(t.col, t.src, t.rank) \in executed
         => PivotBuf(t) \in wbuf

IInv ==
  /\ TypeOK /\ DepExact /\ AvailExact /\ CallbacksExact /\ AnnouncedOnce
  /\ ReadyExact /\ LoopExact /\ PivotsExact

-----------------------------------------------------------------------------
(* The counts are finite.                                                  *)
LEMMA CountTypes ==
  ASSUME FillClosed, NEW t \in Task
  PROVE  /\ IsFiniteSet(Unsignalled(t)) /\ Cardinality(Unsignalled(t)) \in Nat
         /\ IsFiniteSet(Awaited(t)) /\ Cardinality(Awaited(t)) \in Nat
         /\ IsFiniteSet(Unannounced(t)) /\ Cardinality(Unannounced(t)) \in Nat
         /\ \A d : IsFiniteSet(UsesOf(t, d)) /\ Cardinality(UsesOf(t, d)) \in Nat
<1>1. \A S \in SUBSET Edges : IsFiniteSet(S) /\ Cardinality(S) \in Nat
  BY EdgesFinite, FS_Subset, FS_CardinalityType
<1>2. /\ Unsignalled(t) \in SUBSET Edges /\ Awaited(t) \in SUBSET Edges
      /\ Unannounced(t) \in SUBSET Edges /\ \A d : UsesOf(t, d) \in SUBSET Edges
  BY DEF Unsignalled, Awaited, Unannounced, UsesOf, LocalInto, RemoteInto
<1> QED
  BY <1>1, <1>2

LEMMA PostedTypes ==
  ASSUME TypeOK, NEW t \in Task
  PROVE  /\ t.rank \in Rank /\ inbox[t.rank] \in Seq(LpcOf(t.rank))
         /\ \A l : Times(l, inbox[t.rank]) \in Nat
BY TaskShape, TimesType DEF TypeOK

(* A task is ready or executed when all its predecessors have run.         *)
LEMMA SendersRan ==
  ASSUME FillClosed, IInv, NEW e \in Edges, e.to \in ready \cup executed
  PROVE  /\ e.from \in executed
         /\ e.from.rank # e.to.rank => data[DataOf(e)] = "landed"
<1> DEFINE t == e.to
<1>1. t \in Task /\ inCnt[t] = 0
  BY DEF IInv, TypeOK, ReadyExact
<1>2. Unsignalled(t) = {} /\ Awaited(t) = {}
  <2>a. /\ Cardinality(Unsignalled(t)) \in Nat /\ Cardinality(Awaited(t)) \in Nat
        /\ Times(DepLpc(t, 1), inbox[t.rank]) \in Nat
    BY <1>1, CountTypes, PostedTypes DEF IInv
  <2>b. 0 = Cardinality(Unsignalled(t)) + Cardinality(Awaited(t))
              + Times(DepLpc(t, 1), inbox[t.rank])
    BY <1>1 DEF IInv, DepExact
  <2>1. Cardinality(Unsignalled(t)) = 0 /\ Cardinality(Awaited(t)) = 0
    BY <2>a, <2>b
  <2> QED
    BY <1>1, <2>1, CountTypes, FS_EmptySet
<1>3. CASE e.from.rank = e.to.rank
  BY <1>2, <1>3 DEF Unsignalled, LocalInto
<1>4. CASE e.from.rank # e.to.rank
  <2>1. data[DataOf(e)] = "landed"
    BY <1>2, <1>4 DEF Awaited, RemoteInto
  <2>2. DataOf(e) \in Data /\ DataOf(e)[1] = e.from
    BY <1>4, DataShape
  <2> QED
    BY <2>1, <2>2 DEF IInv, AnnouncedOnce
<1> QED
  BY <1>3, <1>4

-----------------------------------------------------------------------------
LEMMA InitInv ==
  ASSUME FillClosed, Init
  PROVE  IInv
<1> USE DEF Init, LoopInit
<1>1. \A t \in Task : /\ t.rank \in Rank
                      /\ LocalDeps(t) = Cardinality(LocalInto(t))
                      /\ RemoteDeps(t) = Cardinality(RemoteInto(t))
                      /\ IsFiniteSet(RemoteInto(t)) /\ IsFiniteSet(LocalInto(t))
                      /\ Cardinality(RemoteInto(t)) \in Nat
                      /\ Cardinality(LocalInto(t)) \in Nat
  BY IntoCounts, TaskShape, FS_CardinalityType
<1>2. \A t \in Task : Times(DepLpc(t, 1), <<>>) = 0 /\ Times(AvailLpc(t, 1), <<>>) = 0
  BY FS_EmptySet DEF Times, Places
<1>3. \A S : <<>> \in Seq(S)
  BY EmptySeq
<1>4. \A r \in Rank : Cardinality(OnRank(r, Task)) \in Nat
  BY TasksFinite, FS_Subset, FS_CardinalityType DEF OnRank
<1>5. TypeOK
  BY <1>1, <1>3, <1>4 DEF TypeOK, Steps
<1>6. \A e \in Edges : e.from.rank # e.to.rank => data[DataOf(e)] = "absent"
  BY DataShape
<1>7. DepExact
  <2>1. \A t \in Task : Unsignalled(t) = LocalInto(t) /\ Awaited(t) = RemoteInto(t)
    BY <1>1 DEF Unsignalled, Awaited, Attached
  <2> QED
    BY <1>1, <1>2, <2>1 DEF DepExact
<1>8. AvailExact
  <2>1. \A t \in Task : Unannounced(t) = RemoteInto(t)
    BY <1>6 DEF Unannounced, RemoteInto
  <2>2. Cardinality({}) = 0
    BY FS_EmptySet
  <2>3. \A t \in Task : /\ availCnt[t] = Cardinality(RemoteInto(t))
                        /\ inbox[t.rank] = <<>> /\ t \notin avail
    BY <1>1
  <2>4. \A t \in Task : RemoteInto(t) = {} => availCnt[t] = 0
    BY <2>2, <2>3
  <2>5. \A t \in Task : availCnt[t] = Cardinality(Unannounced(t))
                           + Times(AvailLpc(t, 1), inbox[t.rank])
    BY <1>1, <1>2, <2>1, <2>3
  <2> QED
    BY <2>3, <2>4, <2>5 DEF AvailExact
<1>9. CallbacksExact /\ AnnouncedOnce
  BY DEF CallbacksExact, AnnouncedOnce
<1>10. ReadyExact
  BY <1>1 DEF ReadyExact
<1>11. LoopExact
  <2>1. Task \ {} = Task
    OBVIOUS
  <2> QED
    BY <2>1 DEF LoopExact
<1>12. PivotsExact
  BY DEF PivotsExact
<1> QED
  BY <1>5, <1>7, <1>8, <1>9, <1>10, <1>11, <1>12 DEF IInv

-----------------------------------------------------------------------------
(* A step that only moves ranks along their loops.                         *)
LEMMA QuietStep ==
  ASSUME FillClosed, IInv,
         UNCHANGED <<taskCnt, taskVars, commVars, inbox, execVars>>,
         pc' \in [Rank -> Steps],
         \A q \in Rank : pc'[q] = "before" <=> pc[q] = "before",
         \A q \in Rank : pc'[q] \in {"barrier", "end"} => taskCnt[q] = 0,
         \A q \in Rank : pc'[q] = "end" =>
           \A p \in Rank : pc'[p] \in {"barrier", "end"}
  PROVE  IInv'
<1> USE DEF taskVars, commVars, execVars
<1>1. \A t \in Task : t.rank \in Rank
  BY TaskShape
<1>2. TypeOK'
  BY DEF IInv, TypeOK
<1>3. \A t \in Task : Attached(t)' = Attached(t)
  BY <1>1 DEF Attached
<1>4. \A t \in Task : /\ Unsignalled(t)' = Unsignalled(t)
                      /\ Awaited(t)' = Awaited(t)
                      /\ Unannounced(t)' = Unannounced(t)
  BY <1>3 DEF Unsignalled, Awaited, Unannounced
<1>5. DepExact'
  BY <1>4 DEF IInv, DepExact
<1>6. AvailExact'
  BY <1>1, <1>4 DEF IInv, AvailExact
<1>7. CallbacksExact'
  BY <1>3 DEF IInv, CallbacksExact
<1>8. AnnouncedOnce' /\ PivotsExact'
  BY DEF IInv, AnnouncedOnce, PivotsExact, Unserved, PivotBuf
<1>9. ReadyExact'
  BY <1>1 DEF IInv, ReadyExact
<1>10. LoopExact'
  BY DEF IInv, LoopExact
<1> QED
  BY <1>2, <1>5, <1>6, <1>7, <1>8, <1>9, <1>10 DEF IInv

LEMMA LoopStep ==
  ASSUME FillClosed, IInv, NEW r \in Rank, UNCHANGED execVars,
         \/ Idle(r) \/ LeaveProgress(r) \/ NothingToFetch(r)
         \/ LeaveLoop(r, "barrier") \/ PassBarrier(r)
  PROVE  IInv'
<1> USE DEF IInv, TypeOK, LoopExact, Steps, commVars, taskVars
<1>1. CASE Idle(r)
  BY <1>1, QuietStep DEF Idle
<1>2. CASE LeaveProgress(r)
  BY <1>2, QuietStep DEF LeaveProgress
<1>3. CASE NothingToFetch(r)
  BY <1>3, QuietStep DEF NothingToFetch
<1>4. CASE LeaveLoop(r, "barrier")
  BY <1>4, QuietStep DEF LeaveLoop
<1>5. CASE PassBarrier(r)
  BY <1>5, QuietStep DEF PassBarrier
<1> QED
  BY <1>1, <1>2, <1>3, <1>4, <1>5

LEMMA StartStep ==
  ASSUME FillClosed, IInv, NEW r \in Rank, UNCHANGED execVars,
         Start(r, {t \in Task : RemoteDeps(t) > 0})
  PROVE  IInv'
<1> USE DEF commVars, execVars
<1>1. /\ pc[r] = "before" /\ pc' = [pc EXCEPT ![r] = "loop"]
      /\ UNCHANGED <<taskCnt, inCnt, availCnt, net, data, thens, inbox,
                     executed, wbuf, pivots>>
  BY DEF Start
<1>2. ready' = ready \cup {t \in Task : t.rank = r /\ inCnt[t] = 0}
  BY DEF Start, OnRank, IInv, TypeOK
<1>3. avail' = avail \cup {t \in Task : /\ t.rank = r /\ RemoteInto(t) # {}
                                        /\ availCnt[t] = 0}
  <2>1. \A t \in Task : RemoteDeps(t) > 0 <=> RemoteInto(t) # {}
    <3> SUFFICES ASSUME NEW t \in Task
                 PROVE  RemoteDeps(t) > 0 <=> RemoteInto(t) # {}
      OBVIOUS
    <3>1. /\ IsFiniteSet(RemoteInto(t))
          /\ RemoteDeps(t) = Cardinality(RemoteInto(t))
      BY IntoCounts
    <3>2. Cardinality(RemoteInto(t)) \in Nat
          /\ (Cardinality(RemoteInto(t)) = 0 <=> RemoteInto(t) = {})
      BY <3>1, FS_CardinalityType, FS_EmptySet
    <3> QED
      BY <3>1, <3>2
  <2> QED
    BY <2>1 DEF Start, OnRank
<1>4. \A t \in Task : t.rank \in Rank
  BY TaskShape
<1>5. pc \in [Rank -> Steps]
  BY DEF IInv, TypeOK
<1>6. TypeOK'
  BY <1>1, <1>2, <1>3 DEF IInv, TypeOK, Steps
<1>7. \A t \in Task : Attached(t)' = Attached(t)
  BY <1>1, <1>3, <1>4, <1>5 DEF Attached
<1>8. \A t \in Task : /\ Unsignalled(t)' = Unsignalled(t)
                      /\ Awaited(t)' = Awaited(t)
                      /\ Unannounced(t)' = Unannounced(t)
  BY <1>1, <1>7 DEF Unsignalled, Awaited, Unannounced
<1>9. DepExact'
  BY <1>1, <1>8 DEF IInv, DepExact
<1>10. AvailExact'
  BY <1>1, <1>3, <1>4, <1>5, <1>8 DEF IInv, AvailExact
<1>11. CallbacksExact'
  BY <1>1, <1>7 DEF IInv, CallbacksExact
<1>12. AnnouncedOnce' /\ PivotsExact'
  BY <1>1 DEF IInv, AnnouncedOnce, PivotsExact, Unserved, PivotBuf
<1>13. ReadyExact'
  BY <1>1, <1>2, <1>4, <1>5 DEF IInv, ReadyExact
<1>14. LoopExact'
  BY <1>1, <1>5 DEF IInv, LoopExact
<1> QED
  BY <1>6, <1>9, <1>10, <1>11, <1>12, <1>13, <1>14 DEF IInv

(* The oldest lpc of a rank names a task of the rank.                      *)
LEMMA OldestLpc ==
  ASSUME IInv, NEW r \in Rank, inbox[r] # <<>>,
         inbox' = [inbox EXCEPT ![r] = Tail(@)]
  PROVE  /\ \E t \in Task : /\ t.rank = r
                            /\ Head(inbox[r]) \in {DepLpc(t, 1), AvailLpc(t, 1)}
         /\ DOMAIN inbox' = Rank /\ inbox' = [q \in Rank |-> inbox'[q]]
         /\ \A q \in Rank : inbox'[q] \in Seq(LpcOf(q))
         /\ \A q \in Rank : \A l :
              Times(l, inbox[q]) =
                Times(l, inbox'[q])
                  + (IF q = r /\ Head(inbox[r]) = l THEN 1 ELSE 0)
<1>1. /\ DOMAIN inbox = Rank /\ inbox = [q \in Rank |-> inbox[q]]
      /\ \A q \in Rank : inbox[q] \in Seq(LpcOf(q))
  BY DEF IInv, TypeOK
<1>2. /\ Tail(inbox[r]) \in Seq(LpcOf(r)) /\ Head(inbox[r]) \in LpcOf(r)
      /\ \A l : Times(l, inbox[r]) = Times(l, Tail(inbox[r]))
                                       + (IF Head(inbox[r]) = l THEN 1 ELSE 0)
  BY <1>1, TimesTail
<1>3. \A q \in Rank : inbox'[q] = IF q = r THEN Tail(inbox[r]) ELSE inbox[q]
  BY <1>1
<1>4. \A q \in Rank : \A l : Times(l, inbox[q]) \in Nat
  BY <1>1, TimesType
<1>5. DOMAIN inbox' = Rank /\ inbox' = [q \in Rank |-> inbox'[q]]
  BY <1>1
<1>6. \A q \in Rank : inbox'[q] \in Seq(LpcOf(q))
  BY <1>1, <1>2, <1>3
<1>7. \E t \in Task : t.rank = r /\ Head(inbox[r]) \in {DepLpc(t, 1), AvailLpc(t, 1)}
  BY <1>2 DEF LpcOf, OnRank
<1>8. ASSUME NEW q \in Rank, NEW l
      PROVE  Times(l, inbox[q]) =
                Times(l, inbox'[q])
                  + (IF q = r /\ Head(inbox[r]) = l THEN 1 ELSE 0)
  <2>1. CASE q = r
    BY <1>2, <1>3, <2>1
  <2>2. CASE q # r
    BY <1>3, <1>4, <2>2
  <2> QED
    BY <2>1, <2>2
<1> QED
  BY <1>5, <1>6, <1>7, <1>8

LEMMA HandleDepStep ==
  ASSUME FillClosed, IInv, NEW r \in Rank, UNCHANGED execVars, HandleDep(r)
  PROVE  IInv'
<1> USE DEF commVars, execVars
<1>1. inbox[r] # <<>> /\ inbox' = [inbox EXCEPT ![r] = Tail(@)]
  BY DEF HandleDep, NextLpc, PopLpc
<1>2. PICK t \in Task : t.rank = r /\ Head(inbox[r]) = DepLpc(t, 1)
  BY <1>1, OldestLpc, LpcShape DEF HandleDep, NextLpc
<1>3. /\ UNCHANGED <<pc, taskCnt, avail, availCnt, net, data, thens,
                     executed, wbuf, pivots>>
      /\ inCnt' = [inCnt EXCEPT ![t] = @ - 1]
      /\ ready' = IF inCnt[t] = 1 /\ pc[r] # "before" THEN ready \cup {t}
                  ELSE ready
  <2>1. Head(inbox[r]).task = t /\ Head(inbox[r]).count = 1
    BY <1>2, LpcShape
  <2> QED
    BY <2>1 DEF HandleDep
<1>4. \A v \in Task : /\ v.rank \in Rank
                      /\ Times(DepLpc(v, 1), inbox[v.rank]) =
                           Times(DepLpc(v, 1), inbox'[v.rank])
                             + (IF v = t THEN 1 ELSE 0)
                      /\ Times(AvailLpc(v, 1), inbox[v.rank]) =
                           Times(AvailLpc(v, 1), inbox'[v.rank])
  <2> SUFFICES ASSUME NEW v \in Task
               PROVE  /\ v.rank \in Rank
                      /\ Times(DepLpc(v, 1), inbox[v.rank]) =
                           Times(DepLpc(v, 1), inbox'[v.rank])
                             + (IF v = t THEN 1 ELSE 0)
                      /\ Times(AvailLpc(v, 1), inbox[v.rank]) =
                           Times(AvailLpc(v, 1), inbox'[v.rank])
    OBVIOUS
  <2>1. v.rank \in Rank
    BY TaskShape
  <2>2. (v.rank = r /\ Head(inbox[r]) = DepLpc(v, 1)) <=> v = t
    BY <1>2, LpcShape
  <2>3. ~(v.rank = r /\ Head(inbox[r]) = AvailLpc(v, 1))
    BY <1>2, LpcShape
  <2>4. Times(AvailLpc(v, 1), inbox'[v.rank]) \in Nat
    BY <1>1, <2>1, OldestLpc, TimesType
  <2>5. \A l : Times(l, inbox[v.rank]) =
                 Times(l, inbox'[v.rank])
                   + (IF v.rank = r /\ Head(inbox[r]) = l THEN 1 ELSE 0)
    BY <1>1, <2>1, OldestLpc
  <2> QED
    BY <2>1, <2>2, <2>3, <2>4, <2>5
<1>5. TypeOK'
  <2>1. /\ DOMAIN inbox' = Rank /\ inbox' = [q \in Rank |-> inbox'[q]]
        /\ \A q \in Rank : inbox'[q] \in Seq(LpcOf(q))
    BY <1>1, OldestLpc
  <2> QED
    BY <1>2, <1>3, <2>1 DEF IInv, TypeOK
<1>6. \A v \in Task : /\ Unsignalled(v)' = Unsignalled(v)
                      /\ Awaited(v)' = Awaited(v)
                      /\ Unannounced(v)' = Unannounced(v)
                      /\ Attached(v)' = Attached(v)
  BY <1>3 DEF Unsignalled, Awaited, Unannounced, Attached
<1>7. DepExact'
  <2> SUFFICES ASSUME NEW v \in Task
               PROVE  inCnt'[v] = Cardinality(Unsignalled(v))
                                    + Cardinality(Awaited(v))
                                    + Times(DepLpc(v, 1), inbox'[v.rank])
    BY <1>6 DEF DepExact
  <2>1. inCnt'[v] = inCnt[v] - (IF v = t THEN 1 ELSE 0)
    BY <1>3 DEF IInv, TypeOK
  <2>2. inCnt[v] = Cardinality(Unsignalled(v)) + Cardinality(Awaited(v))
                     + Times(DepLpc(v, 1), inbox[v.rank])
    BY DEF IInv, DepExact
  <2>3. /\ Cardinality(Unsignalled(v)) \in Nat /\ Cardinality(Awaited(v)) \in Nat
        /\ Times(DepLpc(v, 1), inbox'[v.rank]) \in Nat
    BY <1>5, CountTypes, TimesType, TaskShape DEF TypeOK
  <2> QED
    BY <1>4, <2>1, <2>2, <2>3
<1>8. AvailExact'
  BY <1>3, <1>4, <1>6 DEF IInv, AvailExact
<1>9. CallbacksExact'
  BY <1>3, <1>6 DEF IInv, CallbacksExact
<1>10. AnnouncedOnce' /\ PivotsExact' /\ LoopExact'
  BY <1>3 DEF IInv, AnnouncedOnce, PivotsExact, Unserved, PivotBuf, LoopExact
<1>11. ReadyExact'
  <2>1. inCnt[t] > 0
    <3>1. inCnt[t] = Cardinality(Unsignalled(t)) + Cardinality(Awaited(t))
                       + Times(DepLpc(t, 1), inbox'[t.rank]) + 1
      <4>1. inCnt[t] = Cardinality(Unsignalled(t)) + Cardinality(Awaited(t))
                       + Times(DepLpc(t, 1), inbox[t.rank])
        BY DEF IInv, DepExact
      <4>2. /\ Cardinality(Unsignalled(t)) \in Nat /\ Cardinality(Awaited(t)) \in Nat
            /\ Times(DepLpc(t, 1), inbox'[t.rank]) \in Nat
        BY <1>5, CountTypes, TimesType, TaskShape DEF TypeOK
      <4> QED
        BY <1>4, <4>1, <4>2
    <3>2. /\ Cardinality(Unsignalled(t)) \in Nat /\ Cardinality(Awaited(t)) \in Nat
          /\ Times(DepLpc(t, 1), inbox'[t.rank]) \in Nat
      BY <1>5, CountTypes, TimesType, TaskShape DEF TypeOK
    <3> QED
      BY <3>1, <3>2
  <2>2. inCnt \in [Task -> Int]
    BY DEF IInv, TypeOK
  <2>3. t \notin ready \cup executed
    BY <2>1 DEF IInv, ReadyExact
  <2>4. inCnt'[t] = inCnt[t] - 1 /\ \A v \in Task : v # t => inCnt'[v] = inCnt[v]
    BY <1>3, <2>2
  <2> QED
    BY <1>2, <1>3, <2>1, <2>2, <2>3, <2>4 DEF IInv, ReadyExact
<1> QED
  BY <1>5, <1>7, <1>8, <1>9, <1>10, <1>11 DEF IInv

LEMMA HandleAvailStep ==
  ASSUME FillClosed, IInv, NEW r \in Rank, UNCHANGED execVars, HandleAvail(r)
  PROVE  IInv'
<1> USE DEF commVars, execVars
<1>1. inbox[r] # <<>> /\ inbox' = [inbox EXCEPT ![r] = Tail(@)]
  BY DEF HandleAvail, NextLpc, PopLpc
<1>2. PICK t \in Task : t.rank = r /\ Head(inbox[r]) = AvailLpc(t, 1)
  BY <1>1, OldestLpc, LpcShape DEF HandleAvail, NextLpc
<1>3. /\ UNCHANGED <<pc, taskCnt, ready, inCnt, net, data, thens,
                     executed, wbuf, pivots>>
      /\ availCnt' = [availCnt EXCEPT ![t] = @ - 1]
      /\ avail' = IF availCnt[t] = 1 /\ pc[r] # "before" THEN avail \cup {t}
                  ELSE avail
  <2>1. Head(inbox[r]).task = t /\ Head(inbox[r]).count = 1
    BY <1>2, LpcShape
  <2> QED
    BY <2>1 DEF HandleAvail
<1>4. \A v \in Task : /\ v.rank \in Rank
                      /\ Times(AvailLpc(v, 1), inbox[v.rank]) =
                           Times(AvailLpc(v, 1), inbox'[v.rank])
                             + (IF v = t THEN 1 ELSE 0)
                      /\ Times(DepLpc(v, 1), inbox[v.rank]) =
                           Times(DepLpc(v, 1), inbox'[v.rank])
  <2> SUFFICES ASSUME NEW v \in Task
               PROVE  /\ v.rank \in Rank
                      /\ Times(AvailLpc(v, 1), inbox[v.rank]) =
                           Times(AvailLpc(v, 1), inbox'[v.rank])
                             + (IF v = t THEN 1 ELSE 0)
                      /\ Times(DepLpc(v, 1), inbox[v.rank]) =
                           Times(DepLpc(v, 1), inbox'[v.rank])
    OBVIOUS
  <2>1. v.rank \in Rank
    BY TaskShape
  <2>2. (v.rank = r /\ Head(inbox[r]) = AvailLpc(v, 1)) <=> v = t
    BY <1>2, LpcShape
  <2>3. ~(v.rank = r /\ Head(inbox[r]) = DepLpc(v, 1))
    BY <1>2, LpcShape
  <2>4. Times(DepLpc(v, 1), inbox'[v.rank]) \in Nat
    BY <1>1, <2>1, OldestLpc, TimesType
  <2>5. \A l : Times(l, inbox[v.rank]) =
                 Times(l, inbox'[v.rank])
                   + (IF v.rank = r /\ Head(inbox[r]) = l THEN 1 ELSE 0)
    BY <1>1, <2>1, OldestLpc
  <2> QED
    BY <2>1, <2>2, <2>3, <2>4, <2>5
<1>5. TypeOK'
  <2>1. /\ DOMAIN inbox' = Rank /\ inbox' = [q \in Rank |-> inbox'[q]]
        /\ \A q \in Rank : inbox'[q] \in Seq(LpcOf(q))
    BY <1>1, OldestLpc
  <2> QED
    BY <1>2, <1>3, <2>1 DEF IInv, TypeOK
<1>6. \A v \in Task : Unsignalled(v)' = Unsignalled(v) /\ Unannounced(v)' = Unannounced(v)
  BY <1>3 DEF Unsignalled, Unannounced
(* One lpc is in the inbox, so that the counter is not yet zero.           *)
<1>7. availCnt[t] > 0
  <2>1. availCnt[t] = Cardinality(Unannounced(t))
                        + Times(AvailLpc(t, 1), inbox[t.rank])
    BY DEF IInv, AvailExact
  <2>2. /\ Cardinality(Unannounced(t)) \in Nat
        /\ Times(AvailLpc(t, 1), inbox'[t.rank]) \in Nat
    BY <1>5, CountTypes, TimesType, TaskShape DEF TypeOK
  <2> QED
    BY <1>4, <2>1, <2>2
<1>8. availCnt \in [Task -> Int]
  BY DEF IInv, TypeOK
<1>9. /\ availCnt'[t] = availCnt[t] - 1
      /\ \A v \in Task : v # t => availCnt'[v] = availCnt[v]
  BY <1>3, <1>8
<1>10. \A v \in Task : Attached(v)' = Attached(v)
  BY <1>2, <1>3, <1>7, <1>8, <1>9 DEF Attached
<1>11. \A v \in Task : Awaited(v)' = Awaited(v)
  BY <1>3, <1>10 DEF Awaited
<1>12. DepExact'
  BY <1>3, <1>4, <1>6, <1>11 DEF IInv, DepExact
<1>13. AvailExact'
  <2> SUFFICES ASSUME NEW v \in Task
               PROVE  /\ availCnt'[v] = Cardinality(Unannounced(v))
                                          + Times(AvailLpc(v, 1), inbox'[v.rank])
                      /\ RemoteInto(v) = {} => availCnt'[v] = 0
                      /\ v \in avail' => /\ pc[v.rank] # "before"
                                         /\ availCnt'[v] = 0
                                         /\ RemoteInto(v) # {}
    BY <1>3, <1>6 DEF AvailExact
  <2>1. /\ availCnt[v] = Cardinality(Unannounced(v))
                           + Times(AvailLpc(v, 1), inbox[v.rank])
        /\ RemoteInto(v) = {} => availCnt[v] = 0
        /\ v \in avail => /\ pc[v.rank] # "before" /\ availCnt[v] = 0
                          /\ RemoteInto(v) # {}
    BY DEF IInv, AvailExact
  <2>2. /\ Cardinality(Unannounced(v)) \in Nat
        /\ Times(AvailLpc(v, 1), inbox'[v.rank]) \in Nat
    BY <1>5, CountTypes, TimesType, TaskShape DEF TypeOK
  <2>3. CASE v = t
    BY <1>2, <1>3, <1>4, <1>7, <1>8, <1>9, <2>1, <2>2, <2>3
  <2>4. CASE v # t
    BY <1>2, <1>3, <1>4, <1>8, <1>9, <2>1, <2>2, <2>4
  <2> QED
    BY <2>3, <2>4
<1>14. CallbacksExact'
  BY <1>3, <1>10 DEF IInv, CallbacksExact
<1>15. AnnouncedOnce' /\ PivotsExact' /\ LoopExact' /\ ReadyExact'
  BY <1>3 DEF IInv, AnnouncedOnce, PivotsExact, Unserved, PivotBuf, LoopExact, ReadyExact
<1> QED
  BY <1>5, <1>12, <1>13, <1>14, <1>15 DEF IInv

(* Posting lpcs adds up what they count.                                   *)
LEMMA PostLpcs ==
  ASSUME IInv, NEW r \in Rank, NEW u \in Seq(LpcOf(r)),
         inbox' = [inbox EXCEPT ![r] = @ \o u]
  PROVE  /\ DOMAIN inbox' = Rank /\ inbox' = [q \in Rank |-> inbox'[q]]
         /\ \A q \in Rank : inbox'[q] \in Seq(LpcOf(q))
         /\ \A q \in Rank : \A l :
              Times(l, inbox'[q]) =
                Times(l, inbox[q]) + (IF q = r THEN Times(l, u) ELSE 0)
         /\ \A q \in Rank : \A l : Times(l, inbox[q]) \in Nat
         /\ \A l : Times(l, u) \in Nat
<1>1. /\ DOMAIN inbox = Rank /\ inbox = [q \in Rank |-> inbox[q]]
      /\ \A q \in Rank : inbox[q] \in Seq(LpcOf(q))
  BY DEF IInv, TypeOK
<1>2. /\ inbox[r] \o u \in Seq(LpcOf(r))
      /\ \A l : Times(l, inbox[r] \o u) = Times(l, inbox[r]) + Times(l, u)
  BY <1>1, ConcatProperties, TimesConcat
<1>3. \A q \in Rank : inbox'[q] = IF q = r THEN inbox[r] \o u ELSE inbox[q]
  BY <1>1
<1>4. /\ \A q \in Rank : \A l : Times(l, inbox[q]) \in Nat
      /\ \A l : Times(l, u) \in Nat
  BY <1>1, TimesType
<1>5. DOMAIN inbox' = Rank /\ inbox' = [q \in Rank |-> inbox'[q]]
  BY <1>1
<1>6. \A q \in Rank : inbox'[q] \in Seq(LpcOf(q))
  BY <1>1, <1>2, <1>3
<1>7. ASSUME NEW q \in Rank, NEW l
      PROVE  Times(l, inbox'[q]) =
               Times(l, inbox[q]) + (IF q = r THEN Times(l, u) ELSE 0)
  <2>1. CASE q = r
    BY <1>2, <1>3, <2>1
  <2>2. CASE q # r
    <3>1. Times(l, inbox[q]) \in Nat
      BY <1>4
    <3> QED
      BY <1>3, <2>2, <3>1
  <2> QED
    BY <2>1, <2>2
<1> QED
  BY <1>4, <1>5, <1>6, <1>7

LEMMA DeliverStep ==
  ASSUME FillClosed, IInv, NEW m \in Rpcs, Deliver(m)
  PROVE  IInv'
<1> USE DEF taskVars, execVars
<1> DEFINE E == EdgesOfRpc(m)
           made == {DataOf(e) : e \in E}
           u == AvailLpcs(E)
<1>1. /\ m \in net /\ net' = net \ {m}
      /\ data' = [d \in DOMAIN data |-> IF d \in made THEN "fetching" ELSE data[d]]
      /\ inbox' = [inbox EXCEPT ![m[2]] = @ \o u]
      /\ UNCHANGED <<pc, taskCnt, ready, avail, inCnt, availCnt, thens,
                     executed, wbuf, pivots>>
  BY DEF Deliver, Receive, AvailLpcs
<1>2. m = <<m[1], m[2]>> /\ m[1] \in Task /\ m[2] \in Rank /\ m[1].rank # m[2]
  BY DataShape
<1>3. E = {e \in Edges : e.from = m[1] /\ e.to.rank = m[2]}
  BY DEF EdgesOfRpc, EdgesFrom
<1>4. \A e \in E : /\ e \in Edges /\ e.from.rank # e.to.rank /\ e.to \in OnRank(m[2], Task)
  BY <1>2, <1>3, SignalsLandOnTasks DEF EdgesJoinTasks, OnRank
<1>5. IsFiniteSet(E)
  BY <1>3, EdgesFinite, FS_Subset
(* The message makes all the data it announces.                            *)
<1>6. \A d \in Data : d \in made <=> <<d[1], d[2]>> = m
  <2>1. \A d \in made : d[1] = m[1] /\ d[2] = m[2]
    BY <1>3, <1>4, DataShape
  <2>2. ASSUME NEW d \in Data, <<d[1], d[2]>> = m PROVE d \in made
    <3>1. PICK e \in Edges : e.from.rank # e.to.rank /\ d = DataOf(e)
      BY DataShape
    <3>2. d[1] = e.from /\ d[2] = e.to.rank
      BY <3>1, DataShape
    <3> QED
      BY <1>2, <1>3, <2>2, <3>1, <3>2
  <2> QED
    BY <1>2, <2>1, <2>2
<1>7. data \in [Data -> {"absent", "fetching", "landed"}]
  BY DEF IInv, TypeOK
<1>8. \A d \in Data : /\ data'[d] = IF d \in made THEN "fetching" ELSE data[d]
                      /\ d \in made => data[d] = "absent"
  <2>1. \A d \in Data : data'[d] = IF d \in made THEN "fetching" ELSE data[d]
    BY <1>1, <1>7
  <2>2. \A d \in Data : <<d[1], d[2]>> \in net => data[d] = "absent"
    BY DEF IInv, AnnouncedOnce
  <2> QED
    BY <1>1, <1>6, <2>1, <2>2
<1>9. \A v \in Task : \A e \in RemoteInto(v) :
        /\ DataOf(e) \in Data /\ e \in Edges /\ e.to = v
        /\ DataOf(e) \in made <=> e \in E
  <2> SUFFICES ASSUME NEW v \in Task, NEW e \in RemoteInto(v)
               PROVE  /\ DataOf(e) \in Data /\ e \in Edges /\ e.to = v
                      /\ DataOf(e) \in made <=> e \in E
    OBVIOUS
  <2>1. e \in Edges /\ e.to = v /\ e.from.rank # e.to.rank
    BY DEF RemoteInto
  <2>2. DataOf(e) \in Data /\ DataOf(e)[1] = e.from /\ DataOf(e)[2] = e.to.rank
    BY <2>1, DataShape
  <2>3. DataOf(e) \in made <=> <<e.from, e.to.rank>> = m
    BY <1>6, <2>2
  <2> QED
    BY <1>2, <1>3, <2>1, <2>2, <2>3
<1> HIDE DEF made, E, u
<1>10. /\ u \in Seq(LpcOf(m[2]))
       /\ \A v : /\ Times(AvailLpc(v, 1), u) = Cardinality(SignalsTo(v, E))
                 /\ Times(DepLpc(v, 1), u) = 0
  <2> SUFFICES ASSUME NEW v
               PROVE  /\ u \in Seq(LpcOf(m[2]))
                      /\ Times(AvailLpc(v, 1), u) = Cardinality(SignalsTo(v, E))
                      /\ Times(DepLpc(v, 1), u) = 0
    OBVIOUS
  <2>1. \A e \in E : e.to \in OnRank(m[2], Task)
    BY <1>4
  <2> QED
    <3>1. /\ AvailLpcs(E) \in Seq(LpcOf(m[2]))
          /\ Times(AvailLpc(v, 1), AvailLpcs(E))
               = Cardinality(SignalsTo(v, E))
          /\ Times(DepLpc(v, 1), AvailLpcs(E)) = 0
      BY <1>5, <2>1, TimesSignals
    <3> QED
      BY <3>1 DEF u
<1>11. /\ DOMAIN inbox' = Rank /\ inbox' = [q \in Rank |-> inbox'[q]]
       /\ \A q \in Rank : inbox'[q] \in Seq(LpcOf(q))
       /\ \A q \in Rank : \A l :
            Times(l, inbox'[q]) =
              Times(l, inbox[q]) + (IF q = m[2] THEN Times(l, u) ELSE 0)
       /\ \A q \in Rank : \A l : Times(l, inbox[q]) \in Nat
       /\ \A l : Times(l, u) \in Nat
  BY <1>1, <1>2, <1>10, PostLpcs
<1>12. TypeOK'
  <2>1. data' \in [Data -> {"absent", "fetching", "landed"}]
    BY <1>1, <1>7
  <2>2. net' \subseteq Rpcs
    BY <1>1 DEF IInv, TypeOK
  <2> QED
    BY <1>1, <1>11, <2>1, <2>2 DEF IInv, TypeOK
<1>13. \A v \in Task : /\ Attached(v)' = Attached(v)
                       /\ Unsignalled(v)' = Unsignalled(v)
  BY <1>1 DEF Attached, Unsignalled
<1>14. \A v \in Task : Awaited(v)' = Awaited(v)
  <2>1. \A v \in Task : \A e \in RemoteInto(v) :
          data'[DataOf(e)] = "landed" <=> data[DataOf(e)] = "landed"
    BY <1>8, <1>9
  <2> QED
    BY <1>13, <2>1 DEF Awaited
<1>15. DepExact'
  <2>1. \A v \in Task : Times(DepLpc(v, 1), inbox'[v.rank])
                          = Times(DepLpc(v, 1), inbox[v.rank])
    <3> SUFFICES ASSUME NEW v \in Task
                 PROVE  Times(DepLpc(v, 1), inbox'[v.rank])
                          = Times(DepLpc(v, 1), inbox[v.rank])
      OBVIOUS
    <3>1. v.rank \in Rank /\ Times(DepLpc(v, 1), u) = 0
      BY <1>10, TaskShape
    <3>2. Times(DepLpc(v, 1), inbox[v.rank]) \in Nat
      BY <1>11, <3>1
    <3>3. Times(DepLpc(v, 1), inbox'[v.rank])
            = Times(DepLpc(v, 1), inbox[v.rank])
                + (IF v.rank = m[2] THEN Times(DepLpc(v, 1), u) ELSE 0)
      BY <1>11, <3>1
    <3> QED
      BY <3>1, <3>2, <3>3
  <2> QED
    BY <1>1, <1>13, <1>14, <2>1 DEF IInv, DepExact
<1>16. AvailExact'
  <2> SUFFICES ASSUME NEW v \in Task
               PROVE  availCnt[v] = Cardinality(Unannounced(v)')
                                      + Times(AvailLpc(v, 1), inbox'[v.rank])
    BY <1>1 DEF IInv, AvailExact
  <2> DEFINE Ev == SignalsTo(v, E)
  <2>0. Ev = {e \in E : e.to = v}
    BY DEF SignalsTo
  <2>1. Unannounced(v) = Unannounced(v)' \cup Ev /\ Unannounced(v)' \cap Ev = {}
    <3>1. \A e \in RemoteInto(v) :
            /\ e \in E => data[DataOf(e)] = "absent" /\ data'[DataOf(e)] = "fetching"
            /\ e \notin E => data'[DataOf(e)] = data[DataOf(e)]
            /\ e.to = v
      BY <1>8, <1>9
    <3>2. Ev \subseteq RemoteInto(v)
      BY <1>4, <2>0 DEF RemoteInto
    <3> HIDE DEF Ev
    <3> QED
      BY <2>0, <3>1, <3>2 DEF Unannounced
  <2>2. /\ Cardinality(Unannounced(v)) = Cardinality(Unannounced(v)') + Cardinality(Ev)
        /\ Cardinality(Unannounced(v)') \in Nat /\ Cardinality(Ev) \in Nat
    <3> HIDE DEF Ev
    <3> QED
      BY <2>1, CountTypes, SplitCount
  <2>3. v.rank # m[2] => Cardinality(Ev) = 0
    <3>1. v.rank # m[2] => Ev = {}
      BY <1>4, <2>0 DEF OnRank
    <3> QED
      BY <3>1, FS_EmptySet
  <2>4. v.rank \in Rank
    BY TaskShape
  <2>5. Times(AvailLpc(v, 1), inbox'[v.rank])
          = Times(AvailLpc(v, 1), inbox[v.rank]) + Cardinality(Ev)
    BY <1>10, <1>11, <2>3, <2>4
  <2>6. availCnt[v] = Cardinality(Unannounced(v))
                        + Times(AvailLpc(v, 1), inbox[v.rank])
    BY DEF IInv, AvailExact
  <2>7. Times(AvailLpc(v, 1), inbox[v.rank]) \in Nat
    BY <1>11, <2>4
  <2> HIDE DEF Ev
  <2> QED
    BY <2>2, <2>5, <2>6, <2>7
(* Nobody has attached to what has just been made.                         *)
<1>17. CallbacksExact'
  <2> SUFFICES ASSUME NEW d \in Data
               PROVE  /\ data'[d] # "fetching" => thens[d] = <<>>
                      /\ data'[d] = "fetching" =>
                           \A v \in Task : Times(v, thens[d]) =
                             IF Attached(v) THEN Cardinality(UsesOf(v, d)) ELSE 0
    BY <1>1, <1>13 DEF CallbacksExact, UsesOf
  <2>1. CASE d \notin made
    BY <1>8, <2>1 DEF IInv, CallbacksExact
  <2>2. CASE d \in made
    <3>1. data[d] = "absent" /\ data'[d] = "fetching" /\ thens[d] = <<>>
      BY <1>8, <2>2 DEF IInv, CallbacksExact
    <3>2. \A v \in Task : Times(v, <<>>) = 0
      BY FS_EmptySet DEF Times, Places
    <3>3. ASSUME NEW v \in Task, Attached(v) PROVE Cardinality(UsesOf(v, d)) = 0
      <4>1. /\ availCnt[v] = Cardinality(Unannounced(v))
                           + Times(AvailLpc(v, 1), inbox[v.rank])
            /\ availCnt[v] = 0
        BY <3>3 DEF IInv, AvailExact, Attached
      <4>2. /\ Cardinality(Unannounced(v)) \in Nat
            /\ Times(AvailLpc(v, 1), inbox[v.rank]) \in Nat
        BY <1>11, CountTypes, TaskShape
      <4>3. Cardinality(Unannounced(v)) = 0
        BY <4>1, <4>2
      <4>4. Unannounced(v) = {}
        BY <4>3, CountTypes, FS_EmptySet
      <4>5. UsesOf(v, d) = {}
        BY <3>1, <4>4 DEF Unannounced, UsesOf
      <4> QED
        BY <4>5, FS_EmptySet
    <3> QED
      BY <3>1, <3>2, <3>3
  <2> QED
    BY <2>1, <2>2
<1>18. AnnouncedOnce'
  <2> SUFFICES ASSUME NEW d \in Data
               PROVE  /\ (d[1] \in executed)
                           <=> (data'[d] # "absent" \/ <<d[1], d[2]>> \in net')
                      /\ <<d[1], d[2]>> \in net' => data'[d] = "absent"
    BY <1>1 DEF AnnouncedOnce
  <2>1. /\ (d[1] \in executed) <=> (data[d] # "absent" \/ <<d[1], d[2]>> \in net)
        /\ <<d[1], d[2]>> \in net => data[d] = "absent"
    BY DEF IInv, AnnouncedOnce
  <2>2. <<d[1], d[2]>> \in net' <=> <<d[1], d[2]>> \in net /\ d \notin made
    BY <1>1, <1>6
  <2>3. d \in made => <<d[1], d[2]>> \in net
    BY <1>1, <1>6
  <2> QED
    BY <1>8, <2>1, <2>2, <2>3
<1>19. ReadyExact' /\ LoopExact' /\ PivotsExact'
  BY <1>1 DEF IInv, ReadyExact, LoopExact, PivotsExact, Unserved, PivotBuf
<1> QED
  BY <1>12, <1>15, <1>16, <1>17, <1>18, <1>19 DEF IInv

LEMMA LandStep ==
  ASSUME FillClosed, IInv, NEW d \in Data, Land(d)
  PROVE  IInv'
<1> USE DEF taskVars, execVars
<1> DEFINE u == [i \in DOMAIN thens[d] |-> DepLpc(thens[d][i], 1)]
<1>1. /\ data[d] = "fetching" /\ data' = [data EXCEPT ![d] = "landed"]
      /\ inbox' = [inbox EXCEPT ![d[2]] = @ \o u]
      /\ thens' = [thens EXCEPT ![d] = <<>>]
      /\ UNCHANGED <<pc, taskCnt, ready, avail, inCnt, availCnt, net,
                     executed, wbuf, pivots>>
  BY DEF Land, Arrive
<1>2. d[2] \in Rank
  BY DataShape
<1>3. /\ data \in [Data -> {"absent", "fetching", "landed"}]
      /\ DOMAIN thens = Data /\ thens = [c \in Data |-> thens[c]]
      /\ \A c \in Data : thens[c] \in Seq(OnRank(c[2], Task))
  BY DEF IInv, TypeOK
<1>4. /\ u \in Seq(LpcOf(d[2]))
      /\ \A t : /\ Times(DepLpc(t, 1), u) = Times(t, thens[d])
                /\ Times(AvailLpc(t, 1), u) = 0
  <2>1. thens[d] \in Seq(OnRank(d[2], Task))
    BY <1>3
  <2> QED
    BY <2>1, TimesCallbacks
<1> HIDE DEF u
<1>5. /\ DOMAIN inbox' = Rank /\ inbox' = [q \in Rank |-> inbox'[q]]
      /\ \A q \in Rank : inbox'[q] \in Seq(LpcOf(q))
      /\ \A q \in Rank : \A l :
           Times(l, inbox'[q]) =
             Times(l, inbox[q]) + (IF q = d[2] THEN Times(l, u) ELSE 0)
      /\ \A q \in Rank : \A l : Times(l, inbox[q]) \in Nat
  BY <1>1, <1>2, <1>4, PostLpcs
<1>6. \A c \in Data : /\ data'[c] = IF c = d THEN "landed" ELSE data[c]
                      /\ thens'[c] = IF c = d THEN <<>> ELSE thens[c]
  BY <1>1, <1>3
<1>7. TypeOK'
  <2>1. data' \in [Data -> {"absent", "fetching", "landed"}]
    BY <1>1, <1>3
  <2>2. DOMAIN thens' = Data /\ thens' = [c \in Data |-> thens'[c]]
    BY <1>1, <1>3
  <2>3. \A c \in Data : thens'[c] \in Seq(OnRank(c[2], Task))
    <3> SUFFICES ASSUME NEW c \in Data PROVE thens'[c] \in Seq(OnRank(c[2], Task))
      OBVIOUS
    <3>1. <<>> \in Seq(OnRank(c[2], Task))
      BY EmptySeq
    <3>2. thens[c] \in Seq(OnRank(c[2], Task))
      BY <1>3
    <3>3. thens'[c] = <<>> \/ thens'[c] = thens[c]
      BY <1>6
    <3> QED
      BY <3>1, <3>2, <3>3
  <2> QED
    BY <1>1, <1>5, <2>1, <2>2, <2>3 DEF IInv, TypeOK
<1>8. \A v \in Task : /\ Attached(v)' = Attached(v)
                      /\ Unsignalled(v)' = Unsignalled(v)
  BY <1>1 DEF Attached, Unsignalled
<1>9. \A v \in Task : \A e \in RemoteInto(v) :
        DataOf(e) \in Data /\ DataOf(e)[2] = v.rank
  BY DataShape DEF RemoteInto
<1>10. DepExact'
  <2> SUFFICES ASSUME NEW v \in Task
               PROVE  inCnt[v] = Cardinality(Unsignalled(v))
                                   + Cardinality(Awaited(v)')
                                   + Times(DepLpc(v, 1), inbox'[v.rank])
    BY <1>1, <1>8 DEF DepExact
  <2> DEFINE Uv == IF Attached(v) THEN UsesOf(v, d) ELSE {}
  <2>1. Awaited(v) = Awaited(v)' \cup Uv /\ Awaited(v)' \cap Uv = {}
    <3>1. \A e \in RemoteInto(v) :
            data'[DataOf(e)] = IF DataOf(e) = d THEN "landed" ELSE data[DataOf(e)]
      BY <1>6, <1>9
    <3> QED
      BY <1>1, <1>8, <3>1 DEF Awaited, UsesOf
  <2>2. /\ Cardinality(Awaited(v)) = Cardinality(Awaited(v)') + Cardinality(Uv)
        /\ Cardinality(Awaited(v)') \in Nat /\ Cardinality(Uv) \in Nat
    <3> HIDE DEF Uv
    <3> QED
      BY <2>1, CountTypes, SplitCount
  <2>3. Times(v, thens[d]) = Cardinality(Uv)
    BY <1>1, FS_EmptySet DEF IInv, CallbacksExact
  <2>4. v.rank # d[2] => Cardinality(Uv) = 0
    <3>1. v.rank # d[2] => Uv = {}
      BY <1>9 DEF UsesOf
    <3> QED
      BY <3>1, FS_EmptySet
  <2>5. v.rank \in Rank
    BY TaskShape
  <2> HIDE DEF Uv
  <2>6. Times(DepLpc(v, 1), inbox'[v.rank])
          = Times(DepLpc(v, 1), inbox[v.rank]) + Cardinality(Uv)
    BY <1>4, <1>5, <2>3, <2>4, <2>5
  <2>7. inCnt[v] = Cardinality(Unsignalled(v)) + Cardinality(Awaited(v))
                     + Times(DepLpc(v, 1), inbox[v.rank])
    BY DEF IInv, DepExact
  <2>8. /\ Cardinality(Unsignalled(v)) \in Nat
        /\ Times(DepLpc(v, 1), inbox[v.rank]) \in Nat
    BY <1>5, <2>5, CountTypes
  <2> QED
    BY <2>2, <2>6, <2>7, <2>8
<1>11. AvailExact'
  <2>1. \A v \in Task : Unannounced(v)' = Unannounced(v)
    BY <1>1, <1>6, <1>9 DEF Unannounced
  <2>2. \A v \in Task : Times(AvailLpc(v, 1), inbox'[v.rank])
                          = Times(AvailLpc(v, 1), inbox[v.rank])
    <3> SUFFICES ASSUME NEW v \in Task
                 PROVE  Times(AvailLpc(v, 1), inbox'[v.rank])
                          = Times(AvailLpc(v, 1), inbox[v.rank])
      OBVIOUS
    <3>1. v.rank \in Rank /\ Times(AvailLpc(v, 1), u) = 0
      BY <1>4, TaskShape
    <3>2. Times(AvailLpc(v, 1), inbox[v.rank]) \in Nat
      BY <1>5, <3>1
    <3>3. Times(AvailLpc(v, 1), inbox'[v.rank])
            = Times(AvailLpc(v, 1), inbox[v.rank])
                + (IF v.rank = d[2] THEN Times(AvailLpc(v, 1), u) ELSE 0)
      BY <1>5, <3>1
    <3> QED
      BY <3>1, <3>2, <3>3
  <2> QED
    BY <1>1, <2>1, <2>2 DEF IInv, AvailExact
<1>12. CallbacksExact'
  <2>1. \A v \in Task, c \in Data : UsesOf(v, c)' = UsesOf(v, c)
    BY DEF UsesOf
  <2> QED
    BY <1>6, <1>8, <2>1 DEF IInv, CallbacksExact
<1>13. AnnouncedOnce'
  <2> SUFFICES ASSUME NEW c \in Data
               PROVE  /\ (c[1] \in executed)
                           <=> (data'[c] # "absent" \/ <<c[1], c[2]>> \in net)
                      /\ <<c[1], c[2]>> \in net => data'[c] = "absent"
    BY <1>1 DEF AnnouncedOnce
  <2>1. /\ (c[1] \in executed) <=> (data[c] # "absent" \/ <<c[1], c[2]>> \in net)
        /\ <<c[1], c[2]>> \in net => data[c] = "absent"
    BY DEF IInv, AnnouncedOnce
  <2> QED
    BY <1>1, <1>6, <2>1
<1>14. ReadyExact' /\ LoopExact' /\ PivotsExact'
  BY <1>1 DEF IInv, ReadyExact, LoopExact, PivotsExact, Unserved, PivotBuf
<1> QED
  BY <1>7, <1>10, <1>11, <1>12, <1>13, <1>14 DEF IInv

LEMMA FetchStep ==
  ASSUME FillClosed, IInv, NEW r \in Rank, NEW t \in Task, Fetch(r, t)
  PROVE  IInv'
<1> USE DEF execVars
<1> DEFINE u == Repeat(Cardinality(LandedInputs(t)), DepLpc(t, 1))
           w(d) == Repeat(Cardinality(UsesOf(t, d)), t)
<1>1. /\ pc[r] = "comm" /\ pc' = [pc EXCEPT ![r] = "loop"]
      /\ t \in avail /\ t.rank = r /\ avail' = avail \ {t}
      /\ UNCHANGED <<taskCnt, ready, inCnt, availCnt, net, data,
                     executed, wbuf, pivots>>
  BY DEF Fetch, Attach, Top, OnRank
<1>2. inbox' = [inbox EXCEPT ![r] = @ \o u]
  BY DEF Fetch, Attach, Repeat
<1>3. /\ data \in [Data -> {"absent", "fetching", "landed"}]
      /\ DOMAIN thens = Data
      /\ \A d \in Data : thens[d] \in Seq(OnRank(d[2], Task))
      /\ pc \in [Rank -> Steps]
  BY DEF IInv, TypeOK
<1>4. \A d : Uses(t, d) = Cardinality(UsesOf(t, d))
  BY DEF Uses, UsesOf
<1>5. thens' = [d \in Data |-> IF data[d] = "fetching" THEN thens[d] \o w(d)
                               ELSE thens[d]]
  <2>1. thens' = [d \in DOMAIN data |->
                    IF data[d] = "fetching"
                    THEN thens[d] \o [i \in 1..[c \in Data |-> Uses(t, c)][d] |-> t]
                    ELSE thens[d]]
    BY DEF Fetch, Attach
  <2> QED
    BY <1>3, <1>4, <2>1 DEF Repeat
<1>6. /\ IsFiniteSet(LandedInputs(t)) /\ Cardinality(LandedInputs(t)) \in Nat
      /\ \A d : Cardinality(UsesOf(t, d)) \in Nat
  <2>1. LandedInputs(t) \in SUBSET RemoteInto(t)
    BY DEF LandedInputs
  <2>2. IsFiniteSet(RemoteInto(t))
    BY IntoCounts
  <2> QED
    BY <2>1, <2>2, FS_Subset, FS_CardinalityType, CountTypes
<1>7. /\ u \in Seq(LpcOf(r))
      /\ \A l : Times(l, u) = IF l = DepLpc(t, 1) THEN Cardinality(LandedInputs(t))
                              ELSE 0
  <2>1. u \in Seq({DepLpc(t, 1)})
    BY <1>6, TimesConst
  <2>2. {DepLpc(t, 1)} \subseteq LpcOf(r)
    BY <1>1 DEF LpcOf, OnRank
  <2>3. u \in Seq(LpcOf(r))
    <3> HIDE DEF u
    <3> QED
      BY <2>1, <2>2, SeqMonotonic
  <2>4. \A l : Times(l, u) = IF l = DepLpc(t, 1) THEN Cardinality(LandedInputs(t))
                             ELSE 0
    <3> SUFFICES ASSUME NEW l
                 PROVE  Times(l, u) = IF l = DepLpc(t, 1)
                                      THEN Cardinality(LandedInputs(t)) ELSE 0
      OBVIOUS
    <3> QED
      BY <1>6, TimesConst
  <2> QED
    BY <2>3, <2>4
<1>8. \A d \in Data :
        /\ w(d) \in Seq(OnRank(d[2], Task))
        /\ \A v : Times(v, w(d)) = IF v = t THEN Cardinality(UsesOf(t, d)) ELSE 0
  <2> SUFFICES ASSUME NEW d \in Data
               PROVE  /\ w(d) \in Seq(OnRank(d[2], Task))
                      /\ \A v : Times(v, w(d)) =
                           IF v = t THEN Cardinality(UsesOf(t, d)) ELSE 0
    OBVIOUS
  <2>1. /\ w(d) \in Seq({t})
        /\ \A v : Times(v, w(d)) = IF v = t THEN Cardinality(UsesOf(t, d)) ELSE 0
    <3>1. Cardinality(UsesOf(t, d)) \in Nat
      BY <1>6
    <3>2. w(d) \in Seq({t})
      BY <3>1, TimesConst
    <3>3. ASSUME NEW v
          PROVE  Times(v, w(d)) = IF v = t THEN Cardinality(UsesOf(t, d)) ELSE 0
      BY <3>1, TimesConst
    <3> QED
      BY <3>2, <3>3
  <2>2. CASE UsesOf(t, d) = {}
    <3>1. Cardinality(UsesOf(t, d)) = 0
      BY <2>2, FS_EmptySet
    <3>2. w(d) = <<>>
      BY <3>1 DEF Repeat
    <3>3. <<>> \in Seq(OnRank(d[2], Task))
      BY EmptySeq
    <3> HIDE DEF w
    <3> QED
      BY <2>1, <3>2, <3>3
  <2>3. CASE UsesOf(t, d) # {}
    <3>1. t.rank = d[2]
      BY <2>3, DataShape DEF UsesOf, RemoteInto
    <3>2. {t} \subseteq OnRank(d[2], Task)
      BY <3>1 DEF OnRank
    <3> HIDE DEF w
    <3> QED
      BY <2>1, <3>2, SeqMonotonic
  <2> QED
    BY <2>2, <2>3
<1> HIDE DEF u, w
<1>9. /\ DOMAIN inbox' = Rank /\ inbox' = [q \in Rank |-> inbox'[q]]
      /\ \A q \in Rank : inbox'[q] \in Seq(LpcOf(q))
      /\ \A q \in Rank : \A l :
           Times(l, inbox'[q]) =
             Times(l, inbox[q]) + (IF q = r THEN Times(l, u) ELSE 0)
      /\ \A q \in Rank : \A l : Times(l, inbox[q]) \in Nat
  BY <1>2, <1>7, PostLpcs
<1>10. TypeOK'
  <2>1. /\ DOMAIN thens' = Data /\ thens' = [d \in Data |-> thens'[d]]
    BY <1>5
  <2>2. \A d \in Data : thens'[d] \in Seq(OnRank(d[2], Task))
    <3> SUFFICES ASSUME NEW d \in Data
                 PROVE  thens'[d] \in Seq(OnRank(d[2], Task))
      OBVIOUS
    <3>1. thens[d] \o w(d) \in Seq(OnRank(d[2], Task))
      BY <1>3, <1>8, ConcatProperties
    <3> QED
      BY <1>3, <1>5, <3>1
  <2> QED
    BY <1>1, <1>9, <2>1, <2>2 DEF IInv, TypeOK, Steps
<1>11. /\ ~Attached(t) /\ Attached(t)' /\ availCnt[t] = 0
       /\ \A v \in Task : v # t => Attached(v)' = Attached(v)
  <2>1. /\ pc[t.rank] # "before" /\ availCnt[t] = 0 /\ RemoteInto(t) # {}
    BY <1>1 DEF IInv, AvailExact
  <2>2. \A v \in Task : v.rank \in Rank
    BY TaskShape
  <2> QED
    BY <1>1, <1>3, <2>1, <2>2 DEF Attached
<1>12. DepExact'
  <2> SUFFICES ASSUME NEW v \in Task
               PROVE  inCnt[v] = Cardinality(Unsignalled(v))
                                   + Cardinality(Awaited(v)')
                                   + Times(DepLpc(v, 1), inbox'[v.rank])
    BY <1>1 DEF DepExact, Unsignalled
  <2>1. /\ inCnt[v] = Cardinality(Unsignalled(v)) + Cardinality(Awaited(v))
                        + Times(DepLpc(v, 1), inbox[v.rank])
        /\ Cardinality(Unsignalled(v)) \in Nat
        /\ v.rank \in Rank
        /\ Times(DepLpc(v, 1), inbox[v.rank]) \in Nat
    BY <1>9, CountTypes, TaskShape DEF IInv, DepExact
  <2>2. CASE v = t
    <3>1. /\ Awaited(t) = Awaited(t)' \cup LandedInputs(t)
          /\ Awaited(t)' \cap LandedInputs(t) = {}
      BY <1>1, <1>11 DEF Awaited, LandedInputs
    <3>2. /\ Cardinality(Awaited(t)) = Cardinality(Awaited(t)')
                                         + Cardinality(LandedInputs(t))
          /\ Cardinality(Awaited(t)') \in Nat
          /\ Cardinality(LandedInputs(t)) \in Nat
      BY <3>1, CountTypes, SplitCount
    <3>3. Times(DepLpc(t, 1), inbox'[r])
            = Times(DepLpc(t, 1), inbox[r]) + Cardinality(LandedInputs(t))
      BY <1>7, <1>9
    <3> QED
      BY <1>1, <2>1, <2>2, <3>2, <3>3
  <2>3. CASE v # t
    <3>1. Awaited(v)' = Awaited(v)
      BY <1>1, <1>11, <2>3 DEF Awaited
    <3>2. Times(DepLpc(v, 1), u) = 0
      BY <1>7, <2>3, LpcShape
    <3>3. Times(DepLpc(v, 1), inbox'[v.rank]) = Times(DepLpc(v, 1), inbox[v.rank])
      <4>1. Times(DepLpc(v, 1), inbox'[v.rank]) =
              Times(DepLpc(v, 1), inbox[v.rank])
                + (IF v.rank = r THEN Times(DepLpc(v, 1), u) ELSE 0)
        BY <1>9, <2>1
      <4> QED
        BY <2>1, <3>2, <4>1
    <3> QED
      BY <2>1, <3>1, <3>3
  <2> QED
    BY <2>2, <2>3
<1>13. AvailExact'
  <2> SUFFICES ASSUME NEW v \in Task
               PROVE  /\ availCnt[v] = Cardinality(Unannounced(v))
                           + Times(AvailLpc(v, 1), inbox'[v.rank])
                      /\ RemoteInto(v) = {} => availCnt[v] = 0
                      /\ v \in avail' => /\ pc'[v.rank] # "before"
                                         /\ availCnt[v] = 0
                                         /\ RemoteInto(v) # {}
    BY <1>1 DEF AvailExact, Unannounced
  <2>1. /\ availCnt[v] = Cardinality(Unannounced(v))
                           + Times(AvailLpc(v, 1), inbox[v.rank])
        /\ RemoteInto(v) = {} => availCnt[v] = 0
        /\ v \in avail => /\ pc[v.rank] # "before" /\ availCnt[v] = 0
                          /\ RemoteInto(v) # {}
        /\ v.rank \in Rank
    BY TaskShape DEF IInv, AvailExact
  <2>2. Times(AvailLpc(v, 1), inbox'[v.rank]) = Times(AvailLpc(v, 1), inbox[v.rank])
    <3>1. Times(AvailLpc(v, 1), u) = 0 /\ Times(AvailLpc(v, 1), inbox[v.rank]) \in Nat
      BY <1>7, <1>9, <2>1, LpcShape
    <3>2. Times(AvailLpc(v, 1), inbox'[v.rank]) =
            Times(AvailLpc(v, 1), inbox[v.rank])
              + (IF v.rank = r THEN Times(AvailLpc(v, 1), u) ELSE 0)
      BY <1>9, <2>1
    <3> QED
      BY <3>1, <3>2
  <2> QED
    BY <1>1, <1>3, <2>1, <2>2
<1>14. CallbacksExact'
  <2> SUFFICES ASSUME NEW d \in Data
               PROVE  /\ data[d] # "fetching" => thens'[d] = <<>>
                      /\ data[d] = "fetching" =>
                           \A v \in Task : Times(v, thens'[d]) =
                             IF Attached(v)' THEN Cardinality(UsesOf(v, d)) ELSE 0
    BY <1>1 DEF CallbacksExact, UsesOf
  <2>1. CASE data[d] # "fetching"
    BY <1>5, <2>1 DEF IInv, CallbacksExact
  <2>2. CASE data[d] = "fetching"
    <3> SUFFICES ASSUME NEW v \in Task
                 PROVE  Times(v, thens'[d]) =
                          IF Attached(v)' THEN Cardinality(UsesOf(v, d)) ELSE 0
      BY <2>2
    <3>1. Times(v, thens'[d]) = Times(v, thens[d]) + Times(v, w(d))
      <4>1. thens[d] \in Seq(OnRank(d[2], Task)) /\ w(d) \in Seq(OnRank(d[2], Task))
        BY <1>3, <1>8
      <4>2. thens'[d] = thens[d] \o w(d)
        BY <1>5, <2>2
      <4> QED
        BY <4>1, <4>2, TimesConcat
    <3>2. Times(v, thens[d]) = IF Attached(v) THEN Cardinality(UsesOf(v, d)) ELSE 0
      BY <2>2 DEF IInv, CallbacksExact
    <3>3. Times(v, w(d)) = IF v = t THEN Cardinality(UsesOf(t, d)) ELSE 0
      BY <1>8
    <3>4. Cardinality(UsesOf(v, d)) \in Nat
      BY CountTypes
    <3> QED
      BY <1>11, <3>1, <3>2, <3>3, <3>4
  <2> QED
    BY <2>1, <2>2
<1>15. AnnouncedOnce' /\ PivotsExact'
  BY <1>1 DEF IInv, AnnouncedOnce, PivotsExact, Unserved, PivotBuf
<1>16. ReadyExact'
  BY <1>1, <1>3, TaskShape DEF IInv, ReadyExact
<1>17. LoopExact'
  BY <1>1, <1>3 DEF IInv, LoopExact
<1> QED
  BY <1>10, <1>12, <1>13, <1>14, <1>15, <1>16, <1>17 DEF IInv

-----------------------------------------------------------------------------
(* Executing a task.                                                       *)

LEMMA ExecuteFacts ==
  ASSUME FillClosed, IInv, NEW r \in Rank, NEW t \in Task, Execute(r, t)
  PROVE  /\ t \in ready /\ t \notin executed /\ t.rank = r
         /\ executed' = executed \cup {t} /\ ready' = ready \ {t}
         /\ pc[r] = "loop" /\ pc' = [pc EXCEPT ![r] = "progress"]
         /\ taskCnt' = [taskCnt EXCEPT ![r] = @ - 1]
         /\ inbox' = [inbox EXCEPT ![r] = @ \o DepLpcs(LocalEdges(t))]
         /\ net' = net \cup Announcements(t)
         /\ UNCHANGED <<avail, inCnt, availCnt, data, thens>>
         /\ Buffers(t)
<1>1. Run(r, t, DepLpcs(LocalEdges(t)), Announcements(t))
  BY DEF Execute, DepLpcs
<1>2. t \in ready /\ t.rank = r
  BY <1>1 DEF Run, Top, OnRank
<1>3. t \notin executed
  BY <1>2 DEF IInv, ReadyExact
<1> QED
  BY <1>1, <1>2, <1>3 DEF Run, Execute

(* The signals an update waits for.                                        *)
LEMMA UpdateInputs ==
  ASSUME NEW t \in Task, t.op = "UPDATE"
  PROVE  /\ \E e \in Edges : e.to = t /\ e.from = TRSM(t.col, t.src)
         /\ \E e \in Edges : e.to = t /\ e.from = TRSM(t.row, t.src)
         /\ LDL => \E e \in Edges : e.to = t /\ e.from = DLT(t.col, t.src, t.rank)
<1> DEFINE x == <<t.src, t.col, t.row>>
           y == <<t.src, t.row, t.col>>
<1>1. t = UPDATE(x[3], x[2], x[1]) /\ x \in LowerTriples
  BY TaskShape
<1>2. y \in UpperTriples
  BY <1>1, TripleTypes DEF LowerTriples, UpperTriples, Triples
<1>3. Edge(TRSM(x[2], x[1]), UPDATE(x[3], x[2], x[1]), "OD", x) \in Edges
  BY <1>1 DEF Edges, UpdateSendOD
<1>4. Edge(TRSM(y[2], y[1]), UPDATE(y[2], y[3], y[1]), "SEND", y) \in Edges
  BY <1>2 DEF Edges, UpdateSend
<1>5. LDL => Edge(DLT(x[2], x[1], Home(x[3], x[2])), UPDATE(x[3], x[2], x[1]),
                  "DLT_OD", x) \in Edges
  BY <1>1 DEF Edges, DltAtRecvOD
<1>6. t.rank = Home(x[3], x[2])
  BY TaskShape
<1> QED
  BY <1>1, <1>3, <1>4, <1>5, <1>6 DEF Edge

(* A local pivot is counted at least once for each update it serves.       *)
LEMMA PivotUsesEnough ==
  ASSUME FillClosed, NEW t \in Task, t.op = "TRSM"
  PROVE  /\ PivotUses(t) \in Nat
         /\ IsFiniteSet(Facing(<<t.src, t.row>>))
         /\ Cardinality(Facing(<<t.src, t.row>>)) <= PivotUses(t)
         /\ LocalEdges(t) = {} => Facing(<<t.src, t.row>>) = {}
<1> DEFINE P == {e \in LocalEdges(t) : e.to.op = "UPDATE" /\ e.to.col = t.row}
           F == Facing(<<t.src, t.row>>)
           f == [u \in F |-> Edge(t, u, "OD", <<t.src, t.row, u.row>>)]
<1>1. IsFiniteSet(P) /\ Cardinality(P) \in Nat
  <2>1. P \in SUBSET Edges
    BY DEF LocalEdges, EdgesFrom
  <2> QED
    BY <2>1, EdgesFinite, FS_Subset, FS_CardinalityType
<1>2. ASSUME NEW u \in F PROVE f[u] \in P
  <2>1. /\ u \in Task /\ u.op = "UPDATE" /\ u.col = t.row /\ u.src = t.src
        /\ u.rank = Home(t.row, t.src)
    BY DEF Facing
  <2>2. u = UPDATE(u.row, u.col, u.src) /\ <<u.src, u.col, u.row>> \in LowerTriples
    BY <2>1, TaskShape
  <2>3. t = TRSM(t.row, t.src) /\ t.rank = Home(t.row, t.src)
    BY TaskShape DEF TRSM, TaskOf
  <2>4. f[u] = Edge(TRSM(t.row, t.src), UPDATE(u.row, t.row, t.src), "OD",
                    <<t.src, t.row, u.row>>)
    BY <2>1, <2>2, <2>3
  <2>5. f[u] \in Edges
    BY <2>1, <2>2, <2>4 DEF Edges, UpdateSendOD
  <2>6. f[u].from = t /\ f[u].to = u
    BY DEF Edge
  <2> QED
    BY <2>1, <2>3, <2>5, <2>6 DEF LocalEdges, EdgesFrom
<1>3. f \in [F -> P]
  BY <1>2
<1>4. \A u, v \in F : f[u] = f[v] => u = v
  BY DEF Edge
<1>5. IsFiniteSet(F) /\ Cardinality(F) <= Cardinality(P)
  <2> HIDE DEF f, F, P
  <2> QED
    BY <1>1, <1>3, <1>4, IntoFinite
<1>6. LocalEdges(t) = {} => F = {}
  BY <1>2
<1> QED
  BY <1>1, <1>5, <1>6 DEF PivotUses

LEMMA BuffersStep ==
  ASSUME FillClosed, IInv, NEW r \in Rank, NEW t \in Task, Execute(r, t)
  PROVE  PivotsExact' /\ pivots' \in [Below -> Int]
<1>1. /\ t \in ready /\ t \notin executed /\ t.rank = r
      /\ executed' = executed \cup {t} /\ Buffers(t)
  BY ExecuteFacts
<1>2. pivots \in [Below -> Int]
  BY DEF IInv, TypeOK
<1>3. CASE ~LDL
  <2>1. UNCHANGED <<wbuf, pivots>>
    BY <1>1, <1>3 DEF Buffers
  <2> QED
    BY <1>2, <1>3, <2>1 DEF PivotsExact
<1>4. CASE LDL
  <2>1. /\ \A x \in Below :
             IF TRSM(x[2], x[1]) \in executed
             THEN pivots[x] >= Cardinality(Unserved(x))
             ELSE pivots[x] = 0
        /\ \A u \in Task :
             /\ u.op = "UPDATE" /\ u \notin executed
             /\ DLT(u.col, u.src, u.rank) \in executed
             => PivotBuf(u) \in wbuf
    BY <1>4 DEF IInv, PivotsExact
  <2>2. /\ \A K, J, I : TRSM(J, I).op = "TRSM"
        /\ \A J, I, q : DLT(J, I, q).op = "DLT"
    BY DEF TRSM, DLT, TaskOf
  (* The updates of a pivot still to run can only become fewer.            *)
  <2>3. \A x : /\ IsFiniteSet(Unserved(x))
               /\ Cardinality(Unserved(x)) \in Nat
               /\ Cardinality(Unserved(x)') \in Nat
               /\ Cardinality(Unserved(x)')
                    = Cardinality(Unserved(x))
                        - (IF t \in Facing(x) THEN 1 ELSE 0)
    <3> SUFFICES ASSUME NEW x
                 PROVE  /\ IsFiniteSet(Unserved(x))
                        /\ Cardinality(Unserved(x)) \in Nat
                        /\ Cardinality(Unserved(x)') \in Nat
                        /\ Cardinality(Unserved(x)')
                             = Cardinality(Unserved(x))
                                 - (IF t \in Facing(x) THEN 1 ELSE 0)
      OBVIOUS
    <3> DEFINE S == Unserved(x)
    <3>1. S \in SUBSET Task
      BY DEF Facing, Unserved
    <3>2. IsFiniteSet(S) /\ Cardinality(S) \in Nat
      BY <3>1, TasksFinite, FS_Subset, FS_CardinalityType
    <3>3. Unserved(x)' = S \ {t}
      BY <1>1 DEF Facing, Unserved
    <3>4. t \in S <=> t \in Facing(x)
      BY <1>1 DEF Unserved
    <3> HIDE DEF S
    <3>5. Cardinality(S \ {t}) = IF t \in S THEN Cardinality(S) - 1
                                 ELSE Cardinality(S)
      BY <3>2, FS_RemoveElement
    <3>6. Cardinality(S \ {t}) \in Nat
      BY <3>2, FS_RemoveElement, FS_CardinalityType
    <3> QED
      BY <3>2, <3>3, <3>4, <3>5, <3>6 DEF S
  <2>4. CASE t.op = "TRSM"
    <3> DEFINE x0 == <<t.src, t.row>>
    <3>1. t = TRSM(t.row, t.src) /\ x0 \in Below
      BY <2>4, TaskShape
    <3>2. /\ wbuf' = wbuf
          /\ pivots' = IF LocalEdges(t) # {}
                       THEN [pivots EXCEPT ![x0] = PivotUses(t)] ELSE pivots
      BY <1>1, <1>4, <2>4 DEF Buffers
    <3>3. /\ PivotUses(t) \in Nat /\ IsFiniteSet(Facing(x0))
          /\ Cardinality(Facing(x0)) <= PivotUses(t)
          /\ LocalEdges(t) = {} => Facing(x0) = {}
      BY <2>4, PivotUsesEnough
    <3>4. pivots' \in [Below -> Int]
      <4>1. PivotUses(t) \in Int
        BY <3>3
      <4> QED
        BY <1>2, <3>2, <4>1
    <3>5. Cardinality(Unserved(x0)') <= Cardinality(Facing(x0))
          /\ Cardinality(Facing(x0)) \in Nat
          /\ Cardinality(Unserved(x0)') \in Nat
      <4>1. Unserved(x0)' \in SUBSET Facing(x0)
        BY DEF Unserved, Facing
      <4> QED
        BY <3>3, <4>1, FS_Subset, FS_CardinalityType
    <3>6. \A x \in Below : t = TRSM(x[2], x[1]) => x = x0
      BY <3>1, PairTypes DEF TRSM, TaskOf
    <3>7. pivots[x0] = 0
      BY <1>1, <2>1, <3>1
    <3>8. ASSUME NEW x \in Below
          PROVE  IF TRSM(x[2], x[1]) \in executed'
                 THEN pivots'[x] >= Cardinality(Unserved(x)')
                 ELSE pivots'[x] = 0
      <4>1. CASE x = x0
        <5>1. TRSM(x[2], x[1]) \in executed'
          BY <1>1, <3>1, <4>1
        <5>2. CASE LocalEdges(t) # {}
          <6>1. pivots'[x0] = PivotUses(t)
            BY <1>2, <3>1, <3>2, <5>2
          <6> QED
            BY <3>3, <3>5, <4>1, <5>1, <6>1
        <5>3. CASE LocalEdges(t) = {}
          <6>1. Unserved(x0)' = {} /\ pivots'[x0] = 0
            BY <3>2, <3>3, <3>7, <5>3 DEF Unserved, Facing
          <6>2. Cardinality(Unserved(x0)') = 0
            BY <6>1, FS_EmptySet
          <6> QED
            BY <4>1, <5>1, <6>1, <6>2
        <5> QED
          BY <5>2, <5>3
      <4>2. CASE x # x0
        <5>1. pivots'[x] = pivots[x]
          BY <1>2, <3>2, <4>2
        <5>2. TRSM(x[2], x[1]) \in executed' <=> TRSM(x[2], x[1]) \in executed
          BY <1>1, <3>6, <4>2
        <5>3. pivots[x] \in Int /\ t \notin Facing(x)
          BY <1>2, <2>4 DEF Facing
        <5> QED
          <6>1. Cardinality(Unserved(x)') = Cardinality(Unserved(x))
            BY <2>3, <5>3
          <6> QED
            BY <2>1, <5>1, <5>2, <6>1
      <4> QED
        BY <4>1, <4>2
    <3>9. ASSUME NEW u \in Task, u.op = "UPDATE", u \notin executed',
                 DLT(u.col, u.src, u.rank) \in executed'
          PROVE  PivotBuf(u) \in wbuf'
      BY <1>1, <2>1, <2>2, <2>4, <3>2, <3>9
    <3> QED
      BY <3>4, <3>8, <3>9 DEF PivotsExact, PivotBuf
  <2>5. CASE t.op = "DLT"
    <3>1. wbuf' = wbuf \cup {PivotBuf(t)} /\ pivots' = pivots
      BY <1>1, <1>4, <2>5 DEF Buffers
    <3>2. ASSUME NEW x \in Below
          PROVE  IF TRSM(x[2], x[1]) \in executed'
                 THEN pivots'[x] >= Cardinality(Unserved(x)')
                 ELSE pivots'[x] = 0
      <4>1. TRSM(x[2], x[1]) \in executed' <=> TRSM(x[2], x[1]) \in executed
        BY <1>1, <2>2, <2>5
      <4>2. pivots[x] \in Int /\ t \notin Facing(x)
        BY <1>2, <2>5 DEF Facing
      <4> QED
        <5>1. /\ Cardinality(Unserved(x)) \in Nat
              /\ Cardinality(Unserved(x)') \in Nat
              /\ Cardinality(Unserved(x)') <= Cardinality(Unserved(x))
          BY <2>3
        <5> QED
          BY <2>1, <3>1, <4>1, <4>2, <5>1
    <3>3. ASSUME NEW u \in Task, u.op = "UPDATE", u \notin executed',
                 DLT(u.col, u.src, u.rank) \in executed'
          PROVE  PivotBuf(u) \in wbuf'
      <4>1. CASE DLT(u.col, u.src, u.rank) = t
        BY <3>1, <4>1 DEF PivotBuf, DLT, TaskOf
      <4>2. CASE DLT(u.col, u.src, u.rank) # t
        BY <1>1, <2>1, <3>1, <3>3, <4>2
      <4> QED
        BY <4>1, <4>2
    <3> QED
      BY <1>2, <3>1, <3>2, <3>3 DEF PivotsExact, PivotBuf
  <2>6. CASE t.op = "UPDATE" /\ LocalPivot(t)
    <3> DEFINE x0 == <<t.src, t.col>>
    <3>1. /\ pivots' = [pivots EXCEPT ![x0] = @ - 1]
          /\ wbuf' = IF pivots[x0] = 1 THEN wbuf \ {PivotBuf(t)} ELSE wbuf
      BY <1>1, <1>4, <2>6 DEF Buffers
    <3>2. x0 \in Below /\ <<t.src, t.col, t.row>> \in LowerTriples
      BY <2>6, TaskShape, TripleTypes DEF LowerTriples, Below
    <3>3. TRSM(t.col, t.src) \in executed
      BY <1>1, <2>6, UpdateInputs, SendersRan
    <3>4. t \in Facing(x0) /\ t.rank = Home(t.col, t.src)
      BY <2>6 DEF Facing, LocalPivot
    <3>5. pivots[x0] >= Cardinality(Unserved(x0)) /\ pivots[x0] \in Int
      BY <1>2, <2>1, <3>2, <3>3
    <3>6. ASSUME NEW x \in Below
          PROVE  IF TRSM(x[2], x[1]) \in executed'
                 THEN pivots'[x] >= Cardinality(Unserved(x)')
                 ELSE pivots'[x] = 0
      <4>1. CASE x = x0
        <5>1. TRSM(x[2], x[1]) \in executed'
          BY <1>1, <3>3, <4>1
        <5>2. pivots'[x0] = pivots[x0] - 1
          BY <1>2, <3>1, <3>2
        <5> QED
          BY <2>3, <3>4, <3>5, <4>1, <5>1, <5>2
      <4>2. CASE x # x0
        <5>1. pivots'[x] = pivots[x] /\ pivots[x] \in Int
          BY <1>2, <3>1, <4>2
        <5>2. TRSM(x[2], x[1]) \in executed' <=> TRSM(x[2], x[1]) \in executed
          BY <1>1, <2>2, <2>6
        <5>3. t \notin Facing(x)
          BY <4>2, PairTypes DEF Facing
        <5> QED
          <6>1. Cardinality(Unserved(x)') = Cardinality(Unserved(x))
            BY <2>3, <5>3
          <6> QED
            BY <2>1, <5>1, <5>2, <6>1
      <4> QED
        BY <4>1, <4>2
    (* The buffer goes with the last update: no other one is left.         *)
    <3>7. ASSUME NEW u \in Task, u.op = "UPDATE", u \notin executed',
                 DLT(u.col, u.src, u.rank) \in executed'
          PROVE  PivotBuf(u) \in wbuf'
      <4>1. u \notin executed /\ u # t /\ PivotBuf(u) \in wbuf
        BY <1>1, <2>1, <2>2, <2>6, <3>7
      <4>2. CASE pivots[x0] = 1 /\ PivotBuf(u) = PivotBuf(t)
        <5>1. u \in Facing(x0)
          BY <3>4, <3>7, <4>2 DEF Facing, PivotBuf
        <5>2. {t, u} \in SUBSET (Unserved(x0))
          BY <1>1, <3>4, <4>1, <5>1 DEF Unserved
        <5>3. Cardinality({t, u}) = 2
          <6>1. Cardinality({t}) = 1 /\ IsFiniteSet({t})
            BY FS_Singleton
          <6>2. {t, u} = {t} \cup {u} /\ u \notin {t}
            BY <4>1
          <6> QED
            BY <6>1, <6>2, FS_AddElement
        <5>4. Cardinality({t, u}) <= Cardinality(Unserved(x0))
          BY <2>3, <5>2, FS_Subset
        <5>5. Cardinality(Unserved(x0)) \in Nat
          BY <2>3
        <5> QED
          BY <3>5, <4>2, <5>3, <5>4, <5>5
      <4> QED
        BY <3>1, <4>1, <4>2
    <3>8. pivots' \in [Below -> Int]
      <4>1. pivots[x0] - 1 \in Int
        BY <3>5
      <4> QED
        BY <1>2, <3>1, <4>1
    <3> QED
      BY <3>6, <3>7, <3>8 DEF PivotsExact, PivotBuf
  <2>7. CASE t.op # "TRSM" /\ t.op # "DLT" /\ ~(t.op = "UPDATE" /\ LocalPivot(t))
    <3>1. UNCHANGED <<wbuf, pivots>>
      BY <1>1, <2>7 DEF Buffers
    <3>2. ASSUME NEW x \in Below
          PROVE  IF TRSM(x[2], x[1]) \in executed'
                 THEN pivots'[x] >= Cardinality(Unserved(x)')
                 ELSE pivots'[x] = 0
      <4>1. TRSM(x[2], x[1]) \in executed' <=> TRSM(x[2], x[1]) \in executed
        BY <1>1, <2>2, <2>7
      <4>2. pivots[x] \in Int
        BY <1>2
      <4> QED
        <5>1. /\ Cardinality(Unserved(x)) \in Nat
              /\ Cardinality(Unserved(x)') \in Nat
              /\ Cardinality(Unserved(x)') <= Cardinality(Unserved(x))
          BY <2>3
        <5> QED
          BY <2>1, <3>1, <4>1, <4>2, <5>1
    <3>3. ASSUME NEW u \in Task, u.op = "UPDATE", u \notin executed',
                 DLT(u.col, u.src, u.rank) \in executed'
          PROVE  PivotBuf(u) \in wbuf'
      BY <1>1, <2>1, <2>2, <2>7, <3>1, <3>3
    <3> QED
      BY <1>2, <3>1, <3>2, <3>3 DEF PivotsExact, PivotBuf
  <2> QED
    BY <2>4, <2>5, <2>6, <2>7
<1> QED
  BY <1>3, <1>4

(* One rpc per rank with a successor of t is one per rank t has data for.  *)
LEMMA AnnouncedRpcs ==
  ASSUME FillClosed, NEW t \in Task
  PROVE  Announcements(t) = {m \in Rpcs : m[1] = t}
<1>1. ASSUME NEW m \in Announcements(t) PROVE m \in Rpcs /\ m[1] = t
  <2>1. PICK e \in Edges : e.from = t /\ e.to.rank # t.rank /\ m = <<t, e.to.rank>>
    BY DEF Announcements, EdgesFrom
  <2>2. DataOf(e) \in Data /\ DataOf(e)[1] = t /\ DataOf(e)[2] = e.to.rank
    BY <2>1, DataShape
  <2> QED
    BY <2>1, <2>2, DataShape
<1>2. ASSUME NEW m \in Rpcs, m[1] = t PROVE m \in Announcements(t)
  <2>1. PICK d \in Data : m = <<d[1], d[2]>>
    BY DataShape
  <2>2. PICK e \in Edges : e.from.rank # e.to.rank /\ d = DataOf(e)
    BY DataShape
  <2>3. d[1] = e.from /\ d[2] = e.to.rank
    BY <2>2, DataShape
  <2> QED
    BY <1>2, <2>1, <2>2, <2>3 DEF Announcements, EdgesFrom
<1> QED
  BY <1>1, <1>2

LEMMA ExecuteStep ==
  ASSUME FillClosed, IInv, NEW r \in Rank, NEW t \in Task, Execute(r, t)
  PROVE  IInv'
<1> DEFINE u == DepLpcs(LocalEdges(t))
<1>1. /\ t \in ready /\ t \notin executed /\ t.rank = r
      /\ executed' = executed \cup {t} /\ ready' = ready \ {t}
      /\ pc[r] = "loop" /\ pc' = [pc EXCEPT ![r] = "progress"]
      /\ taskCnt' = [taskCnt EXCEPT ![r] = @ - 1]
      /\ inbox' = [inbox EXCEPT ![r] = @ \o u]
      /\ net' = net \cup {m \in Rpcs : m[1] = t}
      /\ UNCHANGED <<avail, inCnt, availCnt, data, thens>>
  BY ExecuteFacts, AnnouncedRpcs
<1>2. PivotsExact' /\ pivots' \in [Below -> Int]
  BY BuffersStep
<1>3. pc \in [Rank -> Steps] /\ taskCnt \in [Rank -> Int]
  BY DEF IInv, TypeOK
<1>4. /\ IsFiniteSet(LocalEdges(t))
      /\ \A e \in LocalEdges(t) : /\ e \in Edges /\ e.from = t
                                  /\ e.to \in OnRank(r, Task)
  <2>1. LocalEdges(t) \in SUBSET Edges
    BY DEF LocalEdges, EdgesFrom
  <2> QED
    BY <1>1, <2>1, EdgesFinite, FS_Subset, SignalsLandOnTasks
       DEF LocalEdges, EdgesFrom, EdgesJoinTasks, OnRank
<1>5. /\ u \in Seq(LpcOf(r))
      /\ \A v : /\ Times(DepLpc(v, 1), u) = Cardinality(SignalsTo(v, LocalEdges(t)))
                /\ Times(AvailLpc(v, 1), u) = 0
  <2> SUFFICES ASSUME NEW v
               PROVE  /\ u \in Seq(LpcOf(r))
                      /\ Times(DepLpc(v, 1), u)
                           = Cardinality(SignalsTo(v, LocalEdges(t)))
                      /\ Times(AvailLpc(v, 1), u) = 0
    OBVIOUS
  <2>1. \A e \in LocalEdges(t) : e.to \in OnRank(r, Task)
    BY <1>4
  <2> QED
    BY <1>4, <2>1, TimesSignals
<1> HIDE DEF u
<1>6. /\ DOMAIN inbox' = Rank /\ inbox' = [q \in Rank |-> inbox'[q]]
      /\ \A q \in Rank : inbox'[q] \in Seq(LpcOf(q))
      /\ \A q \in Rank : \A l :
           Times(l, inbox'[q]) =
             Times(l, inbox[q]) + (IF q = r THEN Times(l, u) ELSE 0)
      /\ \A q \in Rank : \A l : Times(l, inbox[q]) \in Nat
  BY <1>1, <1>5, PostLpcs
<1>7. TypeOK'
  <2>1. net' \subseteq Rpcs /\ ready' \subseteq Task /\ executed' \subseteq Task
    BY <1>1 DEF IInv, TypeOK
  <2>2. pc' \in [Rank -> Steps]
    BY <1>1, <1>3 DEF Steps
  <2>3. taskCnt' \in [Rank -> Int]
    BY <1>1, <1>3
  <2> QED
    BY <1>1, <1>2, <1>6, <2>1, <2>2, <2>3 DEF IInv, TypeOK
<1>8. \A v \in Task : /\ Attached(v)' = Attached(v)
                      /\ Unannounced(v)' = Unannounced(v)
  <2>1. \A v \in Task : v.rank \in Rank
    BY TaskShape
  <2> QED
    BY <1>1, <1>3, <2>1 DEF Attached, Unannounced
<1>9. \A v \in Task : Awaited(v)' = Awaited(v)
  BY <1>1, <1>8 DEF Awaited
(* The signals of t become lpcs.                                           *)
<1>10. DepExact'
  <2> SUFFICES ASSUME NEW v \in Task
               PROVE  inCnt[v] = Cardinality(Unsignalled(v)')
                                   + Cardinality(Awaited(v))
                                   + Times(DepLpc(v, 1), inbox'[v.rank])
    BY <1>1, <1>9 DEF DepExact
  <2> DEFINE Ev == SignalsTo(v, LocalEdges(t))
  <2>1. /\ Unsignalled(v) = Unsignalled(v)' \cup Ev
        /\ Unsignalled(v)' \cap Ev = {}
    <3>1. Ev = {e \in LocalInto(v) : e.from = t}
      BY DEF SignalsTo, LocalEdges, EdgesFrom, LocalInto
    <3> HIDE DEF Ev
    <3> QED
      BY <1>1, <3>1 DEF Unsignalled
  <2>2. /\ Cardinality(Unsignalled(v)) = Cardinality(Unsignalled(v)') + Cardinality(Ev)
        /\ Cardinality(Unsignalled(v)') \in Nat /\ Cardinality(Ev) \in Nat
    <3> HIDE DEF Ev
    <3> QED
      BY <2>1, CountTypes, SplitCount
  <2>3. v.rank # r => Cardinality(Ev) = 0
    <3>1. v.rank # r => Ev = {}
      BY <1>4 DEF SignalsTo, OnRank
    <3> QED
      BY <3>1, FS_EmptySet
  <2>4. v.rank \in Rank
    BY TaskShape
  <2>5. Times(DepLpc(v, 1), inbox'[v.rank])
          = Times(DepLpc(v, 1), inbox[v.rank]) + Cardinality(Ev)
    <3>1. /\ Times(DepLpc(v, 1), inbox[v.rank]) \in Nat
          /\ Times(DepLpc(v, 1), u) = Cardinality(Ev)
      BY <1>5, <1>6, <2>4
    <3>2. Times(DepLpc(v, 1), inbox'[v.rank])
            = Times(DepLpc(v, 1), inbox[v.rank])
                + (IF v.rank = r THEN Times(DepLpc(v, 1), u) ELSE 0)
      BY <1>6, <2>4
    <3> QED
      BY <2>2, <2>3, <3>1, <3>2
  <2>6. /\ inCnt[v] = Cardinality(Unsignalled(v)) + Cardinality(Awaited(v))
                        + Times(DepLpc(v, 1), inbox[v.rank])
        /\ Cardinality(Awaited(v)) \in Nat
        /\ Times(DepLpc(v, 1), inbox[v.rank]) \in Nat
    BY <1>6, <2>4, CountTypes DEF IInv, DepExact
  <2> HIDE DEF Ev
  <2> QED
    BY <2>2, <2>5, <2>6
<1>11. AvailExact'
  <2> SUFFICES ASSUME NEW v \in Task
               PROVE  /\ availCnt[v] = Cardinality(Unannounced(v))
                           + Times(AvailLpc(v, 1), inbox'[v.rank])
                      /\ RemoteInto(v) = {} => availCnt[v] = 0
                      /\ v \in avail => /\ pc'[v.rank] # "before"
                                        /\ availCnt[v] = 0
                                        /\ RemoteInto(v) # {}
    BY <1>1, <1>8 DEF AvailExact
  <2>1. /\ availCnt[v] = Cardinality(Unannounced(v))
                           + Times(AvailLpc(v, 1), inbox[v.rank])
        /\ RemoteInto(v) = {} => availCnt[v] = 0
        /\ v \in avail => /\ pc[v.rank] # "before" /\ availCnt[v] = 0
                          /\ RemoteInto(v) # {}
        /\ v.rank \in Rank
    BY TaskShape DEF IInv, AvailExact
  <2>2. Times(AvailLpc(v, 1), inbox'[v.rank]) = Times(AvailLpc(v, 1), inbox[v.rank])
    <3>1. Times(AvailLpc(v, 1), u) = 0 /\ Times(AvailLpc(v, 1), inbox[v.rank]) \in Nat
      BY <1>5, <1>6, <2>1
    <3>2. Times(AvailLpc(v, 1), inbox'[v.rank]) =
            Times(AvailLpc(v, 1), inbox[v.rank])
              + (IF v.rank = r THEN Times(AvailLpc(v, 1), u) ELSE 0)
      BY <1>6, <2>1
    <3> QED
      BY <3>1, <3>2
  <2> QED
    BY <1>1, <1>3, <2>1, <2>2
<1>12. CallbacksExact'
  <2>1. \A v \in Task, d \in Data : UsesOf(v, d)' = UsesOf(v, d)
    BY DEF UsesOf
  <2> QED
    BY <1>1, <1>8, <2>1 DEF IInv, CallbacksExact
<1>13. AnnouncedOnce'
  <2> SUFFICES ASSUME NEW d \in Data
               PROVE  /\ (d[1] \in executed')
                           <=> (data[d] # "absent" \/ <<d[1], d[2]>> \in net')
                      /\ <<d[1], d[2]>> \in net' => data[d] = "absent"
    BY <1>1 DEF AnnouncedOnce
  <2>1. /\ (d[1] \in executed) <=> (data[d] # "absent" \/ <<d[1], d[2]>> \in net)
        /\ <<d[1], d[2]>> \in net => data[d] = "absent"
    BY DEF IInv, AnnouncedOnce
  <2>2. <<d[1], d[2]>> \in net' <=> <<d[1], d[2]>> \in net \/ d[1] = t
    <3>1. <<d[1], d[2]>> \in Rpcs
      BY DataShape
    <3> QED
      BY <1>1, <3>1
  <2> QED
    BY <1>1, <2>1, <2>2
<1>14. ReadyExact'
  <2>1. \A v \in Task : v.rank \in Rank
    BY TaskShape
  <2> QED
    BY <1>1, <1>3, <2>1 DEF IInv, ReadyExact
<1>15. LoopExact'
  <2> SUFFICES ASSUME NEW q \in Rank
               PROVE  /\ taskCnt'[q] = Cardinality(OnRank(q, Task \ executed'))
                      /\ pc'[q] \in {"barrier", "end"} => taskCnt'[q] = 0
                      /\ pc'[q] = "end" =>
                           \A p \in Rank : pc'[p] \in {"barrier", "end"}
    BY DEF LoopExact
  <2>1. \A p \in Rank : /\ taskCnt[p] = Cardinality(OnRank(p, Task \ executed))
                        /\ pc[p] \in {"barrier", "end"} => taskCnt[p] = 0
                        /\ pc[p] # "end"
    BY <1>1 DEF IInv, LoopExact
  <2> DEFINE S == OnRank(q, Task \ executed)
  <2>2. IsFiniteSet(S)
    <3>1. S \in SUBSET Task
      BY DEF OnRank
    <3> QED
      BY <3>1, TasksFinite, FS_Subset
  <2>3. OnRank(q, Task \ executed') = S \ {t} /\ (t \in S <=> q = r)
    BY <1>1 DEF OnRank
  <2> HIDE DEF S
  <2>4. Cardinality(S \ {t}) = IF q = r THEN Cardinality(S) - 1 ELSE Cardinality(S)
    BY <2>2, <2>3, FS_RemoveElement
  <2>5. taskCnt'[q] = IF q = r THEN taskCnt[q] - 1 ELSE taskCnt[q]
    BY <1>1, <1>3
  <2>6. taskCnt[q] = Cardinality(S)
    BY <2>1 DEF S
  <2> QED
    BY <1>1, <1>3, <2>1, <2>3, <2>4, <2>5, <2>6
<1> QED
  BY <1>2, <1>7, <1>10, <1>11, <1>12, <1>13, <1>14, <1>15 DEF IInv

-----------------------------------------------------------------------------
(* Every step.                                                             *)

LEMMA StutterStep ==
  ASSUME IInv, UNCHANGED vars
  PROVE  IInv'
<1> USE DEF vars, loopVars, execVars, taskVars, commVars
<1>1. TypeOK'
  BY DEF IInv, TypeOK
<1>2. \A t \in Task : /\ Unsignalled(t)' = Unsignalled(t)
                      /\ Awaited(t)' = Awaited(t)
                      /\ Unannounced(t)' = Unannounced(t)
                      /\ Attached(t)' = Attached(t)
  BY DEF Unsignalled, Awaited, Unannounced, Attached
<1>3. DepExact' /\ AvailExact'
  BY <1>2 DEF IInv, DepExact, AvailExact
<1>4. CallbacksExact'
  BY <1>2 DEF IInv, CallbacksExact
<1>5. AnnouncedOnce' /\ ReadyExact' /\ LoopExact'
  BY DEF IInv, AnnouncedOnce, ReadyExact, LoopExact
<1>6. PivotsExact'
  BY DEF IInv, PivotsExact, Unserved, PivotBuf
<1> QED
  BY <1>1, <1>3, <1>4, <1>5, <1>6 DEF IInv

LEMMA NextStep ==
  ASSUME FillClosed, IInv, [Next]_vars
  PROVE  IInv'
<1>1. ASSUME NEW r \in Rank, RankStep(r) PROVE IInv'
  <2>1. CASE \E t \in Task : Execute(r, t)
    BY <2>1, ExecuteStep
  <2>2. CASE \E t \in Task : Fetch(r, t)
    BY <2>2, FetchStep
  <2>3. CASE /\ Turn(r, {t \in Task : RemoteDeps(t) > 0}) \/ LeaveLoop(r, "barrier")
             /\ UNCHANGED execVars
    <3>1. CASE Start(r, {t \in Task : RemoteDeps(t) > 0})
      BY <2>3, <3>1, StartStep
    <3>2. CASE HandleDep(r)
      BY <2>3, <3>2, HandleDepStep
    <3>3. CASE HandleAvail(r)
      BY <2>3, <3>3, HandleAvailStep
    <3>4. CASE \/ Idle(r) \/ LeaveProgress(r) \/ NothingToFetch(r)
               \/ LeaveLoop(r, "barrier") \/ PassBarrier(r)
      BY <2>3, <3>4, LoopStep
    <3> QED
      BY <2>3, <3>1, <3>2, <3>3, <3>4 DEF Turn
  <2> QED
    BY <1>1, <2>1, <2>2, <2>3 DEF RankStep
<1>2. CASE Terminated \/ UNCHANGED vars
  BY <1>2, StutterStep DEF Terminated
<1> QED
  BY <1>1, <1>2, DeliverStep, LandStep DEF Next

(* The invariant holds of every execution.                                 *)
THEOREM FactorizationInvariant == FillClosed => (Spec => []IInv)
<1> SUFFICES ASSUME FillClosed PROVE Spec => []IInv
  OBVIOUS
<1>1. Init => IInv
  BY InitInv
<1>2. IInv /\ [Next]_vars => IInv'
  BY NextStep
<1> QED
  BY <1>1, <1>2, PTL DEF Spec

-----------------------------------------------------------------------------
(* What follows of the counters and of the data.                           *)

LEMMA CountersFollow ==
  ASSUME FillClosed, IInv
  PROVE  CountersExact
<1> SUFFICES ASSUME NEW t \in Task
             PROVE  /\ inCnt[t] >= 0 /\ availCnt[t] >= 0
                    /\ t \in ready => t \notin executed
                    /\ t \in ready \cup executed => inCnt[t] = 0 /\ availCnt[t] = 0
  BY DEF CountersExact, CountersSound, IInv, TypeOK
<1>1. /\ inCnt[t] = Cardinality(Unsignalled(t)) + Cardinality(Awaited(t))
                      + Times(DepLpc(t, 1), inbox[t.rank])
      /\ availCnt[t] = Cardinality(Unannounced(t))
                         + Times(AvailLpc(t, 1), inbox[t.rank])
      /\ RemoteInto(t) = {} => availCnt[t] = 0
  BY DEF IInv, DepExact, AvailExact
<1>2. /\ Cardinality(Unsignalled(t)) \in Nat /\ Cardinality(Awaited(t)) \in Nat
      /\ Cardinality(Unannounced(t)) \in Nat
      /\ Times(DepLpc(t, 1), inbox[t.rank]) \in Nat
      /\ Times(AvailLpc(t, 1), inbox[t.rank]) \in Nat
  BY CountTypes, PostedTypes DEF IInv
<1>3. inCnt[t] >= 0 /\ availCnt[t] >= 0
  BY <1>1, <1>2
<1>4. t \in ready => t \notin executed
  BY DEF IInv, ReadyExact
<1>5. ASSUME t \in ready \cup executed PROVE inCnt[t] = 0 /\ availCnt[t] = 0
  <2>1. inCnt[t] = 0
    BY <1>5 DEF IInv, ReadyExact
  <2>2. Awaited(t) = {}
    <3>1. Cardinality(Awaited(t)) = 0
      BY <1>1, <1>2, <2>1, SumIsZero
    <3> QED
      BY <3>1, CountTypes, FS_EmptySet
  <2>3. CASE RemoteInto(t) = {}
    BY <1>1, <2>1, <2>3
  <2>4. CASE RemoteInto(t) # {}
    BY <2>1, <2>2, <2>4 DEF Awaited, Attached
  <2> QED
    BY <2>3, <2>4
<1> QED
  BY <1>3, <1>4, <1>5

(* The assertions of satisfy_dep and avail_dep hold, no task is executed   *)
(* twice, and none while a signal to it is still to come.                  *)
THEOREM FactorCountersExact == FillClosed => (Spec => []CountersExact)
<1> SUFFICES ASSUME FillClosed PROVE Spec => []CountersExact
  OBVIOUS
<1>1. IInv => CountersExact
  BY CountersFollow
<1>2. Spec => []IInv
  BY FactorizationInvariant
<1> QED
  BY <1>1, <1>2, PTL

(* The update of a cell signals the task that finishes it.                 *)
LEMMA UpdateAggregates ==
  ASSUME NEW x \in LowerTriples
  PROVE  \E e \in Edges : /\ e.from = UPDATE(x[3], x[2], x[1])
                          /\ e.to = AggregateTarget(x[3], x[2])
<1>1. Edge(UPDATE(x[3], x[2], x[1]), AggregateTarget(x[3], x[2]), "AGG", x) \in Edges
  BY DEF Edges, AggregateSend
<1> QED
  BY <1>1 DEF Edge

LEMMA SupsAreNat ==
  ASSUME NEW K \in Sup
  PROVE  K \in Nat
  BY GraphAssumption DEF Sup

LEMMA FinalFollows ==
  ASSUME FillClosed, IInv
  PROVE  AnnouncedIsFinal
<1> SUFFICES ASSUME NEW d \in Data, <<d[1], d[2]>> \in net \/ data[d] # "absent",
                    NEW t \in Task, t.op # "DLT",
                    t.row = d[1].row, t.col = d[1].col
             PROVE  t \in executed
  BY DEF AnnouncedIsFinal
<1> DEFINE p == d[1]
<1>1. p \in executed /\ p \in Task
  BY DataShape DEF IInv, AnnouncedOnce
<1>2. p.op \in {"FACTOR", "TRSM"}
  <2>1. PICK e \in Edges : e.from.rank # e.to.rank /\ d = DataOf(e)
    BY DataShape
  <2>2. p = e.from
    BY <2>1, DataShape
  <2> QED
    BY <2>1, <2>2, OnlyPanels DEF OnlyPanelsTravel
<1>3. /\ p.op = "FACTOR" => p = FACTOR(p.col) /\ p.row = p.col
      /\ p.op = "TRSM" => p = TRSM(p.row, p.col) /\ p.row > p.col
  BY <1>1, TaskShape, PairTypes DEF FACTOR, TRSM, TaskOf
<1>4. CASE t.op = "UPDATE"
  <2>1. /\ t = UPDATE(t.row, t.col, t.src)
        /\ <<t.src, t.col, t.row>> \in LowerTriples
    BY <1>4, TaskShape
  <2>2. PICK e \in Edges : e.from = t /\ e.to = AggregateTarget(t.row, t.col)
    BY <2>1, UpdateAggregates
  <2>3. p.row \in Nat /\ p.col \in Nat
    BY <1>1, TaskShape, SupsAreNat
  <2>4. CASE p.op = "FACTOR"
    <3>1. e.to = p
      BY <1>3, <2>2, <2>4 DEF AggregateTarget
    <3> QED
      BY <1>1, <2>2, <3>1, SendersRan
  <2>5. CASE p.op = "TRSM"
    <3>1. p.row # p.col
      BY <1>3, <2>3, <2>5
    <3>2. e.to = p
      BY <1>3, <2>2, <2>5, <3>1 DEF AggregateTarget
    <3> QED
      BY <1>1, <2>2, <3>2, SendersRan
  <2> QED
    BY <1>2, <2>4, <2>5
<1>5. CASE t.op # "UPDATE"
  <2>1. t.op \in {"FACTOR", "TRSM"}
    BY <1>5, TaskShape DEF Ops
  <2>2. /\ t.op = "FACTOR" => t = FACTOR(t.col) /\ t.row = t.col
        /\ t.op = "TRSM" => t = TRSM(t.row, t.col) /\ t.row > t.col
    BY TaskShape, PairTypes DEF FACTOR, TRSM, TaskOf
  <2>3. t.row \in Nat /\ t.col \in Nat
    BY TaskShape, SupsAreNat
  <2>4. t = p
    BY <1>2, <1>3, <2>1, <2>2, <2>3
  <2> QED
    BY <1>1, <2>4
<1> QED
  BY <1>4, <1>5

(* A cell is announced when nothing will write it any more: the one-sided  *)
(* read cannot race with a computation on its owner.                       *)
THEOREM FactorAnnouncedIsFinal == FillClosed => (Spec => []AnnouncedIsFinal)
<1> SUFFICES ASSUME FillClosed PROVE Spec => []AnnouncedIsFinal
  OBVIOUS
<1>1. IInv => AnnouncedIsFinal
  BY FinalFollows
<1>2. Spec => []IInv
  BY FactorizationInvariant
<1> QED
  BY <1>1, <1>2, PTL

LEMMA PivotFollows ==
  ASSUME FillClosed, IInv
  PROVE  PivotBufferPresent
<1> SUFFICES ASSUME LDL, NEW t \in ready, t.op = "UPDATE"
             PROVE  PivotBuf(t) \in wbuf
  BY DEF PivotBufferPresent
<1>1. t \in Task /\ t \notin executed
  BY DEF IInv, TypeOK, ReadyExact
<1>2. DLT(t.col, t.src, t.rank) \in executed
  BY <1>1, UpdateInputs, SendersRan
<1> QED
  BY <1>1, <1>2 DEF IInv, PivotsExact

(* LDL: a ready update finds D times its pivot, although the buffer is     *)
(* freed by counting and the count of a local pivot may be one too high.   *)
THEOREM FactorPivotPresent == FillClosed => (Spec => []PivotBufferPresent)
<1> SUFFICES ASSUME FillClosed PROVE Spec => []PivotBufferPresent
  OBVIOUS
<1>1. IInv => PivotBufferPresent
  BY PivotFollows
<1>2. Spec => []IInv
  BY FactorizationInvariant
<1> QED
  BY <1>1, <1>2, PTL

-----------------------------------------------------------------------------
(* The abstract factorization.                                             *)

OpOf(t)  == <<t.op, t.row, t.col, t.src>>
Applied  == {OpOf(t) : t \in {u \in executed : u.op # "DLT"}}

LEMMA OpsAreTasks ==
  /\ \A t \in Task : t.op # "DLT" => OpOf(t) \in R!Operation
  /\ \A o \in R!Operation : \E t \in Task : t.op # "DLT" /\ OpOf(t) = o
  /\ \A t, u \in Task : t.op # "DLT" /\ OpOf(t) = OpOf(u) => t = u
<1> USE DEF OpOf, R!Factor, R!Solve, R!Update
<1>1. ASSUME NEW t \in Task, t.op # "DLT" PROVE OpOf(t) \in R!Operation
  <2>1. CASE t.op = "FACTOR"
    <3>1. t.row \in 1..NS /\ OpOf(t) = R!Factor(t.row)
      BY <2>1, TaskShape DEF FACTOR, TaskOf, Sup
    <3> QED
      BY <3>1 DEF R!Operation
  <2>2. CASE t.op = "TRSM"
    <3>1. /\ t.src \in 1..NS /\ t.row \in Struct[t.src]
          /\ OpOf(t) = R!Solve(t.row, t.src)
      BY <2>2, TaskShape, PairTypes DEF TRSM, TaskOf, Sup
    <3> QED
      BY <3>1 DEF R!Operation
  <2>3. CASE t.op = "UPDATE"
    <3>1. <<t.src, t.col, t.row>> \in LowerTriples
      BY <2>3, TaskShape
    <3>2. /\ t.src \in 1..NS /\ t.col \in Struct[t.src]
          /\ t.row \in Struct[t.src] /\ t.row >= t.col
          /\ OpOf(t) = R!Update(t.row, t.col, t.src)
      BY <2>3, <3>1, TripleTypes DEF LowerTriples, Sup
    <3> QED
      BY <3>2 DEF R!Operation
  <2> QED
    BY <1>1, <2>1, <2>2, <2>3, TaskShape DEF Ops
<1>2. ASSUME NEW o \in R!Operation
      PROVE  \E t \in Task : t.op # "DLT" /\ OpOf(t) = o
  <2>1. PICK I \in 1..NS :
          \/ o = R!Factor(I)
          \/ \E J \in Struct[I] : o = R!Solve(J, I)
          \/ \E J \in Struct[I] : \E K \in Struct[I] :
               K >= J /\ o = R!Update(K, J, I)
    BY <1>2 DEF R!Operation
  <2>2. CASE o = R!Factor(I)
    <3>1. FACTOR(I) \in Task
      BY DEF Task, Sup
    <3>2. FACTOR(I).op # "DLT" /\ OpOf(FACTOR(I)) = o
      BY <2>2 DEF FACTOR, TaskOf
    <3> QED
      BY <3>1, <3>2
  <2>3. ASSUME NEW J \in Struct[I], o = R!Solve(J, I)
        PROVE  \E t \in Task : t.op # "DLT" /\ OpOf(t) = o
    <3>1. <<I, J>> \in Below
      BY GraphAssumption DEF Below, Sup
    <3>2. TRSM(J, I) \in Task
      BY <3>1 DEF Task
    <3>3. TRSM(J, I).op # "DLT" /\ OpOf(TRSM(J, I)) = o
      BY <2>3 DEF TRSM, TaskOf
    <3> QED
      BY <3>2, <3>3
  <2>4. ASSUME NEW J \in Struct[I], NEW K \in Struct[I], K >= J,
               o = R!Update(K, J, I)
        PROVE  \E t \in Task : t.op # "DLT" /\ OpOf(t) = o
    <3>1. <<I, J, K>> \in LowerTriples
      BY <2>4, GraphAssumption DEF LowerTriples, Triples, Sup
    <3>2. UPDATE(K, J, I) \in Task
      BY <3>1 DEF Task
    <3>3. UPDATE(K, J, I).op # "DLT" /\ OpOf(UPDATE(K, J, I)) = o
      BY <2>4 DEF UPDATE, TaskOf
    <3> QED
      BY <3>2, <3>3
  <2> QED
    BY <2>1, <2>2, <2>3, <2>4
<1>3. ASSUME NEW t \in Task, NEW u \in Task, t.op # "DLT", OpOf(t) = OpOf(u)
      PROVE  t = u
  <2>1. t.op = u.op /\ t.row = u.row /\ t.col = u.col /\ t.src = u.src
    BY <1>3
  <2>2. t.rank = u.rank
    BY <1>3, <2>1, TaskShape
  <2> QED
    BY <2>1, <2>2, TaskShape DEF TaskOf
<1> QED
  BY <1>1, <1>2, <1>3

(* A rank that leaves Factorize leaves nothing behind.                     *)
LEMMA CleanFollows ==
  ASSUME FillClosed, IInv
  PROVE  CleanReturn
<1> SUFFICES ASSUME NEW r \in Rank, pc[r] = "end"
             PROVE  /\ R!Factored /\ net = {} /\ inbox[r] = <<>>
                    /\ ready = {} /\ avail = {}
                    /\ \A d \in Data : data[d] = "landed" /\ thens[d] = <<>>
  BY DEF CleanReturn
<1>1. \A t \in Task : t \in executed
  <2> SUFFICES ASSUME NEW t \in Task PROVE t \in executed
    OBVIOUS
  <2> DEFINE S == OnRank(t.rank, Task \ executed)
  <2>1. t.rank \in Rank
    BY TaskShape
  <2>2. Cardinality(S) = 0
    BY <2>1 DEF IInv, LoopExact
  <2>3. IsFiniteSet(S)
    <3>1. S \in SUBSET Task
      BY DEF OnRank
    <3> QED
      BY <3>1, TasksFinite, FS_Subset
  <2>4. S = {}
    <3> HIDE DEF S
    <3> QED
      BY <2>2, <2>3, FS_EmptySet
  <2> QED
    BY <2>4 DEF OnRank
<1>2. ready = {}
  BY <1>1 DEF IInv, TypeOK, ReadyExact
<1>3. \A t \in Task : /\ inCnt[t] = 0 /\ availCnt[t] = 0
                      /\ Awaited(t) = {}
                      /\ Times(DepLpc(t, 1), inbox[t.rank]) = 0
                      /\ Times(AvailLpc(t, 1), inbox[t.rank]) = 0
  <2> SUFFICES ASSUME NEW t \in Task
               PROVE  /\ inCnt[t] = 0 /\ availCnt[t] = 0
                      /\ Awaited(t) = {}
                      /\ Times(DepLpc(t, 1), inbox[t.rank]) = 0
                      /\ Times(AvailLpc(t, 1), inbox[t.rank]) = 0
    OBVIOUS
  <2>1. inCnt[t] = 0 /\ availCnt[t] = 0
    BY <1>1, CountersFollow DEF CountersExact, CountersSound, IInv, TypeOK
  <2>2. /\ inCnt[t] = Cardinality(Unsignalled(t)) + Cardinality(Awaited(t))
                        + Times(DepLpc(t, 1), inbox[t.rank])
        /\ availCnt[t] = Cardinality(Unannounced(t))
                           + Times(AvailLpc(t, 1), inbox[t.rank])
    BY DEF IInv, DepExact, AvailExact
  <2>3. /\ Cardinality(Unsignalled(t)) \in Nat /\ Cardinality(Awaited(t)) \in Nat
        /\ Cardinality(Unannounced(t)) \in Nat
        /\ Times(DepLpc(t, 1), inbox[t.rank]) \in Nat
        /\ Times(AvailLpc(t, 1), inbox[t.rank]) \in Nat
    BY CountTypes, PostedTypes DEF IInv
  <2>4. /\ Cardinality(Awaited(t)) = 0
        /\ Times(DepLpc(t, 1), inbox[t.rank]) = 0
        /\ Times(AvailLpc(t, 1), inbox[t.rank]) = 0
    <3>1. inCnt[t] = 0 /\ availCnt[t] = 0
      BY <2>1
    <3>2. 0 = Cardinality(Unsignalled(t)) + Cardinality(Awaited(t))
                + Times(DepLpc(t, 1), inbox[t.rank])
      BY <2>2, <3>1
    <3>3. 0 = Cardinality(Unannounced(t)) + Times(AvailLpc(t, 1), inbox[t.rank])
      BY <2>2, <3>1
    <3>4. /\ Cardinality(Awaited(t)) = 0
          /\ Times(DepLpc(t, 1), inbox[t.rank]) = 0
      BY <2>3, <3>2, SumIsZero
    <3>5. Times(AvailLpc(t, 1), inbox[t.rank]) = 0
      BY <2>3, <3>3, PairIsZero
    <3> QED
      BY <3>4, <3>5
  <2>5. Awaited(t) = {}
    BY <2>4, CountTypes, FS_EmptySet
  <2> QED
    BY <2>1, <2>4, <2>5
<1>4. inbox[r] = <<>>
  <2>1. inbox[r] \in Seq(LpcOf(r))
    BY DEF IInv, TypeOK
  <2>2. ASSUME inbox[r] # <<>> PROVE FALSE
    <3>1. /\ Head(inbox[r]) \in LpcOf(r) /\ Tail(inbox[r]) \in Seq(LpcOf(r))
          /\ \A l : Times(l, inbox[r]) = Times(l, Tail(inbox[r]))
                                           + (IF Head(inbox[r]) = l THEN 1 ELSE 0)
      BY <2>1, <2>2, TimesTail
    <3>2. PICK t \in Task : /\ t.rank = r
                            /\ Head(inbox[r]) \in {DepLpc(t, 1), AvailLpc(t, 1)}
      BY <3>1 DEF LpcOf, OnRank
    <3>3. Times(Head(inbox[r]), inbox[r]) = 0
      BY <1>3, <3>2
    <3>4. Times(Head(inbox[r]), Tail(inbox[r])) \in Nat
      BY <3>1, TimesType
    <3>5. Times(Head(inbox[r]), inbox[r]) = Times(Head(inbox[r]), Tail(inbox[r])) + 1
      BY <3>1
    <3> QED
      BY <3>3, <3>4, <3>5
  <2> QED
    BY <2>2
<1>5. avail = {}
  <2>1. \A t \in avail : t \in Task /\ RemoteInto(t) # {} /\ ~Attached(t)
    BY DEF IInv, TypeOK, AvailExact, Attached
  <2> QED
    BY <1>3, <2>1 DEF Awaited
<1>6. ASSUME NEW d \in Data
      PROVE  data[d] = "landed" /\ thens[d] = <<>> /\ <<d[1], d[2]>> \notin net
  <2>1. PICK e \in Edges : e.from.rank # e.to.rank /\ d = DataOf(e)
    BY DataShape
  <2>2. e.to \in Task
    BY SignalsLandOnTasks DEF EdgesJoinTasks
  <2>3. data[d] = "landed"
    BY <1>3, <2>1, <2>2 DEF Awaited, RemoteInto
  <2> QED
    BY <2>3 DEF IInv, CallbacksExact, AnnouncedOnce
<1>7. net = {}
  <2>1. \A m \in net : m \in Rpcs
    BY DEF IInv, TypeOK
  <2> QED
    BY <1>6, <2>1, DataShape
<1>8. R!Factored
  <2>1. Applied = R!Operation
    BY <1>1, OpsAreTasks DEF Applied, IInv, TypeOK
  <2> QED
    BY <2>1 DEF R!Factored, Applied, OpOf
<1> QED
  BY <1>2, <1>4, <1>5, <1>6, <1>7, <1>8

THEOREM FactorCleanReturn == FillClosed => (Spec => []CleanReturn)
<1> SUFFICES ASSUME FillClosed PROVE Spec => []CleanReturn
  OBVIOUS
<1>1. IInv => CleanReturn
  BY CleanFollows
<1>2. Spec => []IInv
  BY FactorizationInvariant
<1> QED
  BY <1>1, <1>2, PTL

-----------------------------------------------------------------------------
(* Every step of the factorization is an operation of the abstract one, or *)
(* none.                                                                   *)

LEMMA SendersApplied ==
  ASSUME FillClosed, IInv, NEW t \in ready, t.op # "DLT"
  PROVE  R!Before(OpOf(t)) \subseteq Applied
<1>1. t \in Task
  BY DEF IInv, TypeOK
<1>2. \A e \in Edges : e.to = t /\ e.from.op # "DLT" => OpOf(e.from) \in Applied
  BY SendersRan DEF Applied
(* The updates of a cell come before the task that finishes it.            *)
<1>3. ASSUME NEW K \in Sup, NEW J \in Sup, K >= J, t = AggregateTarget(K, J)
      PROVE  R!UpdatesOf(K, J) \subseteq Applied
  <2> SUFFICES ASSUME NEW I \in 1..NS, J \in Struct[I], K \in Struct[I]
               PROVE  R!Update(K, J, I) \in Applied
    BY DEF R!UpdatesOf
  <2>1. <<I, J, K>> \in LowerTriples
    BY <1>3 DEF LowerTriples, Triples, Sup
  <2>2. PICK e \in Edges : e.from = UPDATE(K, J, I) /\ e.to = t
    BY <1>3, <2>1, UpdateAggregates
  <2>3. e.from.op # "DLT" /\ OpOf(e.from) = R!Update(K, J, I)
    BY <2>2 DEF UPDATE, TaskOf, OpOf, R!Update
  <2> QED
    BY <1>2, <2>2, <2>3
<1>4. CASE t.op = "FACTOR"
  <2>1. t.row = t.col /\ t.col \in Sup /\ t = AggregateTarget(t.col, t.col)
    BY <1>1, <1>4, TaskShape DEF FACTOR, TaskOf, AggregateTarget
  <2>2. R!Before(OpOf(t)) = R!UpdatesOf(t.col, t.col)
    BY <1>4 DEF OpOf, R!Before
  <2> QED
    BY <1>3, <2>1, <2>2 DEF Sup
<1>5. CASE t.op = "TRSM"
  <2>1. /\ t = TRSM(t.row, t.col) /\ t.src = t.col
        /\ <<t.col, t.row>> \in Below
    BY <1>1, <1>5, TaskShape DEF TRSM, TaskOf
  <2>2. t.row \in Sup /\ t.col \in Sup /\ t.row > t.col
    BY <2>1, PairTypes
  <2>3. t = AggregateTarget(t.row, t.col)
    BY <2>1, <2>2 DEF AggregateTarget, Sup
  <2>4. R!Before(OpOf(t)) = R!UpdatesOf(t.row, t.col) \cup {R!Factor(t.col)}
    BY <1>5 DEF OpOf, R!Before
  <2>5. Edge(FACTOR(t.col), TRSM(t.row, t.col), "TRSM", <<t.col, t.row>>) \in Edges
    BY <2>1 DEF Edges, TrsmSend
  <2>6. R!Factor(t.col) \in Applied
    <3>1. OpOf(FACTOR(t.col)) = R!Factor(t.col) /\ FACTOR(t.col).op # "DLT"
      BY DEF OpOf, FACTOR, TaskOf, R!Factor
    <3> QED
      BY <1>2, <2>1, <2>5, <3>1 DEF Edge
  <2> QED
    BY <1>3, <2>2, <2>3, <2>4, <2>6 DEF Sup
<1>6. CASE t.op = "UPDATE"
  <2>1. R!Before(OpOf(t)) = {R!Solve(t.row, t.src), R!Solve(t.col, t.src)}
    BY <1>6 DEF OpOf, R!Before
  <2>2. \A J, I : OpOf(TRSM(J, I)) = R!Solve(J, I) /\ TRSM(J, I).op # "DLT"
    BY DEF OpOf, TRSM, TaskOf, R!Solve
  <2> QED
    BY <1>1, <1>2, <1>6, <2>1, <2>2, UpdateInputs
<1> QED
  BY <1>1, <1>4, <1>5, <1>6, TaskShape DEF Ops

LEMMA RefinementStep ==
  ASSUME FillClosed, IInv, [Next]_vars
  PROVE  Applied' = Applied \/ \E o \in R!Operation :
           /\ o \notin Applied /\ R!Before(o) \subseteq Applied
           /\ Applied' = Applied \cup {o}
<1>1. CASE executed' = executed
  BY <1>1 DEF Applied
<1>2. ASSUME NEW r \in Rank, NEW t \in Task, Execute(r, t)
      PROVE  Applied' = Applied \/ \E o \in R!Operation :
               /\ o \notin Applied /\ R!Before(o) \subseteq Applied
               /\ Applied' = Applied \cup {o}
  <2>1. t \in ready /\ t \notin executed /\ executed' = executed \cup {t}
    BY <1>2, ExecuteFacts
  <2>2. CASE t.op = "DLT"
    BY <2>1, <2>2 DEF Applied
  <2>3. CASE t.op # "DLT"
    <3>1. OpOf(t) \in R!Operation
      BY <2>3, OpsAreTasks
    <3>2. OpOf(t) \notin Applied
      BY <2>1, <2>3, OpsAreTasks DEF Applied, IInv, TypeOK
    <3>3. R!Before(OpOf(t)) \subseteq Applied
      BY <2>1, <2>3, SendersApplied
    <3>4. Applied' = Applied \cup {OpOf(t)}
      BY <2>1, <2>3 DEF Applied
    <3> QED
      BY <3>1, <3>2, <3>3, <3>4
  <2> QED
    BY <2>2, <2>3
<1>3. CASE Next
  <2>1. CASE \E m \in Rpcs : Deliver(m)
    BY <1>1, <2>1 DEF Deliver, execVars
  <2>2. CASE \E d \in Data : Land(d)
    BY <1>1, <2>2 DEF Land, execVars
  <2>3. CASE Terminated
    BY <1>1, <2>3 DEF Terminated, vars, execVars
  <2>4. ASSUME NEW r \in Rank, RankStep(r)
        PROVE  executed' = executed \/ \E t \in Task : Execute(r, t)
    BY <2>4 DEF RankStep, Fetch, execVars
  <2> QED
    BY <1>1, <1>2, <1>3, <2>1, <2>2, <2>3, <2>4 DEF Next
<1>4. CASE UNCHANGED vars
  BY <1>1, <1>4 DEF vars, execVars
<1> QED
  BY <1>3, <1>4

(* The ranks carry out the right-looking block factorization: every        *)
(* operation at most once, none before the operations it needs.            *)
THEOREM FactorizationImplements == FillClosed => (Spec => RightLookingSpec)
<1> SUFFICES ASSUME FillClosed PROVE Spec => RightLookingSpec
  OBVIOUS
<1>1. Init => R!Init
  BY DEF Init, R!Init
<1>2. IInv /\ [Next]_vars =>
        [R!Next]_({<<t.op, t.row, t.col, t.src>> :
                     t \in {u \in executed : u.op # "DLT"}})
  BY RefinementStep DEF Applied, OpOf, R!Next, R!Apply
<1>3. Spec => []IInv
  BY FactorizationInvariant
<1> QED
  BY <1>1, <1>2, <1>3, PTL DEF Spec, RightLookingSpec, R!Spec
=============================================================================
