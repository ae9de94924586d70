---------------------------- MODULE SolveGraph2D ----------------------------
(***************************************************************************)
(* The task graph of the 2D triangular solve, as SymbolicFactorization     *)
(* builds it.  For every supernode I a forward task FUC and a backward     *)
(* task BUC on its diagonal cell and on every cell below it.  As in the    *)
(* factorization, the signals are announced by SEND messages to one end    *)
(* and RECV messages to the other.                                         *)
(***************************************************************************)
EXTENDS Distribution2D, FiniteSetsExt

FUC(J, I) == TaskOf("FUC", J, I, I, Home(J, I))
BUC(J, I) == TaskOf("BUC", J, I, I, Home(J, I))

(* supETree.Parent(I-1) == 0                                               *)
Root(I) == Struct[I] = {}

Task ==
  {FUC(I, I) : I \in Sup} \cup {BUC(I, I) : I \in Sup}
    \cup {FUC(x[2], x[1]) : x \in Below} \cup {BUC(x[2], x[1]) : x \in Below}

-----------------------------------------------------------------------------
(* out_dependencies: one set of edges per SEND message.                    *)

FucDSend ==
  {Edge(FUC(x[1], x[1]), FUC(x[2], x[1]), "FUC_D", x) : x \in Below}

(* Slip: a root is not told to start its backward phase.                   *)
FucSendNoRoot ==
  {Edge(FUC(x[2], x[1]), FUC(x[2], x[2]), "FUC", x) : x \in Below}

(* A root has one more message, which starts its backward phase.           *)
FucSend ==
  {Edge(FUC(x[2], x[1]), FUC(x[2], x[2]), "FUC", x) : x \in Below}
    \cup {Edge(FUC(I, I), BUC(I, I), "FUC", <<I, I>>) : I \in {K \in Sup : Root(K)}}

BucDSend ==
  {Edge(BUC(x[2], x[1]), BUC(x[1], x[1]), "BUC_D", x) : x \in Below}

BucSend ==
  {Edge(BUC(x[2], x[2]), BUC(x[2], x[1]), "BUC", x) : x \in Below}

Edges == FucDSend \cup FucSend \cup BucDSend \cup BucSend

(* Slip: counted by the column of the cell.                                *)
RightDepsOfColumn(J, r) ==
  Cardinality({e \in FucSend : e.from.col = J /\ e.from.rank = r})

(* update_right_cnt[J] and update_up_cnt[I]: the FUC_SEND and BUC_D_SEND   *)
(* messages of row J and column I that rank r received.                    *)
RightDeps(J, r) ==
  Cardinality({e \in FucSend : e.from.row = J /\ e.from.rank = r})

UpDeps(I, r) ==
  Cardinality({e \in BucDSend : e.from.col = I /\ e.from.rank = r})

-----------------------------------------------------------------------------
(* The RECV side.                                                          *)

FucDRecv ==
  {Dep(FUC(x[2], x[1]), Home(x[2], x[1]) # Home(x[1], x[1]), "FUC_D", x) :
     x \in Below}

(* Slip: the message of a root is taken for one of its forward task.       *)
FucRecvRootForward ==
  {Dep(FUC(x[2], x[2]), Home(x[2], x[1]) # Home(x[2], x[2]), "FUC", x) :
     x \in Below}
  \cup {Dep(FUC(I, I), FALSE, "FUC", <<I, I>>) : I \in {K \in Sup : Root(K)}}

FucRecv ==
  {Dep(FUC(x[2], x[2]), Home(x[2], x[1]) # Home(x[2], x[2]), "FUC", x) :
     x \in Below}
  \cup {Dep(BUC(I, I), FALSE, "FUC", <<I, I>>) : I \in {K \in Sup : Root(K)}}

BucDRecv ==
  {Dep(BUC(x[1], x[1]), Home(x[2], x[1]) # Home(x[1], x[1]), "BUC_D", x) :
     x \in Below}

BucRecv ==
  {Dep(BUC(x[2], x[1]), Home(x[2], x[1]) # Home(x[2], x[2]), "BUC", x) :
     x \in Below}

Deps == FucDRecv \cup FucRecv \cup BucDRecv \cup BucRecv

RemoteDeps(t) == Incoming(t, Deps)
LocalDeps(t)  == Cardinality({d \in Deps : d.task = t /\ ~d.remote})

-----------------------------------------------------------------------------
(* Properties.                                                             *)

(* The two ends agree: what a task is told to expect, and where from, is   *)
(* exactly what other tasks are told to signal, and every signal joins two *)
(* tasks.                                                                  *)
SignalsMatchDeps ==
  Deps = {Dep(e.to, e.from.rank # e.to.rank, e.why, e.at) : e \in Edges}

EdgesJoinTasks ==
  LET tasks == Task IN \A e \in Edges : e.from \in tasks /\ e.to \in tasks

(* No circular wait: up the rows in the forward phase, down the columns in *)
(* the backward phase.                                                     *)
Height(t) ==
  IF t.op = "FUC" THEN IF t.row = t.col THEN 2 * t.row ELSE 2 * t.col + 1
                  ELSE IF t.row = t.col THEN 4 * NS + 4 - 2 * t.row
                                        ELSE 4 * NS + 5 - 2 * t.row

EdgesClimb == \A e \in Edges : Height(e.from) < Height(e.to)

(* The contributions a rank holds for a supernode it does not own are sent *)
(* in one message counted RightDeps or UpDeps times: together the messages *)
(* of the ranks count for exactly what the diagonal task expects from      *)
(* elsewhere.                                                              *)
CountedSendsAddUp ==
  LET deps == Deps IN
  \A I \in Sup :
    LET away == Rank \ {Home(I, I)} IN
    /\ MapThenSumSet(LAMBDA r : RightDeps(I, r), away) = Incoming(FUC(I, I), deps)
    /\ MapThenSumSet(LAMBDA r : UpDeps(I, r), away) = Incoming(BUC(I, I), deps)

(* The backward phase of a supernode starts after its forward phase and    *)
(* after the forward phase of everything that reads it: no edge says so,   *)
(* it follows from the paths through the root.                             *)
Causes(t, edges) ==
  LET Within[n \in 0..4 * NS] ==
        IF n = 0 THEN {t}
        ELSE LET found == Within[n - 1]
             IN found \cup {e.from : e \in {f \in edges : f.to \in found}}
  IN Within[4 * NS]

ForwardFirst ==
  LET edges == Edges IN
  \A x \in Below :
    LET causes == Causes(BUC(x[2], x[1]), edges) IN
    /\ FUC(x[1], x[1]) \in causes
    /\ \A K \in Struct[x[1]] : FUC(K, x[1]) \in causes
=============================================================================
