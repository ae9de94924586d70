---------------------------- MODULE TaskGraph2D ----------------------------
(***************************************************************************)
(* The task graph of the 2D fan-out factorization, as                      *)
(* symPACKMatrix2D::SymbolicFactorization builds it: every supernode I     *)
(* yields the tasks it needs and two kinds of messages, one telling the    *)
(* owner of a task which tasks to signal (..._SEND), one telling the       *)
(* owner of the other end to expect that signal (..._RECV).  The two ends  *)
(* are computed independently, on different ranks, and must agree.         *)
(***************************************************************************)
EXTENDS Distribution2D

-----------------------------------------------------------------------------
(* The tasks of supernode I.                                               *)
FACTOR(I)       == TaskOf("FACTOR", I, I, I, Home(I, I))
TRSM(J, I)      == TaskOf("TRSM", J, I, I, Home(J, I))
UPDATE(K, J, I) == TaskOf("UPDATE", K, J, I, Home(K, J))
(* One per rank that updates column J from I: D times the cell (J, I).     *)
DLT(J, I, r)    == TaskOf("DLT", J, J, I, r)

(* The loops over pairs of ancestor_rows.                                  *)
Triples == {x \in Sup \X Sup \X Sup :
              x[2] \in Struct[x[1]] /\ x[3] \in Struct[x[1]]}
LowerTriples == {x \in Triples : x[3] >= x[2]}
UpperTriples == {x \in Triples : x[3] <= x[2]}

Task ==
  {FACTOR(I) : I \in Sup}
    \cup {TRSM(x[2], x[1]) : x \in Below}
    \cup {UPDATE(x[3], x[2], x[1]) : x \in LowerTriples}
    \cup IF LDL THEN {DLT(x[2], x[1], Home(x[3], x[2])) : x \in LowerTriples}
         ELSE {}

-----------------------------------------------------------------------------
(* out_dependencies: one set of edges per SEND message.                    *)

TrsmSend ==
  {Edge(FACTOR(x[1]), TRSM(x[2], x[1]), "TRSM", x) : x \in Below}

UpdateSendOD ==
  {Edge(TRSM(x[2], x[1]), UPDATE(x[3], x[2], x[1]), "OD", x) :
     x \in LowerTriples}

UpdateSendODtoDLT ==
  {Edge(TRSM(x[2], x[1]), DLT(x[2], x[1], Home(x[3], x[2])), "OD", x) :
     x \in LowerTriples}

(* Slip: K < J where the receiving side has K <= J.                        *)
UpdateSendStrict ==
  {Edge(TRSM(x[2], x[1]), UPDATE(x[2], x[3], x[1]), "SEND", x) :
     x \in {y \in Triples : y[3] < y[2]}}

UpdateSend ==
  {Edge(TRSM(x[2], x[1]), UPDATE(x[2], x[3], x[1]), "SEND", x) :
     x \in UpperTriples}

UpdateDiagSend ==
  {Edge(FACTOR(x[1]), DLT(x[3], x[1], Home(x[2], x[3])), "DIAG", x) :
     x \in UpperTriples}

AggregateTarget(K, J) == IF K = J THEN FACTOR(J) ELSE TRSM(K, J)

(* Slip: the source supernode taken for the target one.                    *)
AggregateSendToSource ==
  {Edge(UPDATE(x[3], x[2], x[1]), AggregateTarget(x[3], x[1]), "AGG", x) :
     x \in LowerTriples}

AggregateSend ==
  {Edge(UPDATE(x[3], x[2], x[1]), AggregateTarget(x[3], x[2]), "AGG", x) :
     x \in LowerTriples}

(* The two RECV cases that add an edge of their own, from a DLT task to    *)
(* the update it serves.                                                   *)
DltAtRecvOD ==
  {Edge(DLT(x[2], x[1], Home(x[3], x[2])), UPDATE(x[3], x[2], x[1]),
        "DLT_OD", x) : x \in LowerTriples}

DltAtDiagRecv ==
  {Edge(DLT(x[3], x[1], Home(x[2], x[3])), UPDATE(x[2], x[3], x[1]),
        "DLT_DIAG", x) : x \in UpperTriples}

Edges ==
  TrsmSend \cup UpdateSendOD \cup UpdateSend \cup AggregateSend
    \cup IF LDL THEN UpdateSendODtoDLT \cup UpdateDiagSend \cup DltAtRecvOD
                       \cup DltAtDiagRecv
         ELSE {}

-----------------------------------------------------------------------------
(* The RECV side: one set of dependencies per RECV message.                *)

TrsmRecv ==
  {Dep(TRSM(x[2], x[1]), Home(x[2], x[1]) # Home(x[1], x[1]), "TRSM", x) :
     x \in Below}

UpdateRecvOD ==
  {Dep(UPDATE(x[3], x[2], x[1]), Home(x[2], x[1]) # Home(x[3], x[2]),
       "OD", x) : x \in LowerTriples}

UpdateRecvODofDLT ==
  {Dep(DLT(x[2], x[1], Home(x[3], x[2])),
       Home(x[2], x[1]) # Home(x[3], x[2]), "OD", x) : x \in LowerTriples}
  \cup {Dep(UPDATE(x[3], x[2], x[1]), FALSE, "DLT_OD", x) : x \in LowerTriples}

(* Slip: K < J where the sending side has K <= J.                          *)
UpdateRecvStrict ==
  {Dep(UPDATE(x[2], x[3], x[1]), Home(x[2], x[1]) # Home(x[2], x[3]),
       "SEND", x) : x \in {y \in Triples : y[3] < y[2]}}

UpdateRecv ==
  {Dep(UPDATE(x[2], x[3], x[1]), Home(x[2], x[1]) # Home(x[2], x[3]),
       "SEND", x) : x \in UpperTriples}

UpdateDiagRecv ==
  {Dep(DLT(x[3], x[1], Home(x[2], x[3])),
       Home(x[1], x[1]) # Home(x[2], x[3]), "DIAG", x) : x \in UpperTriples}
  \cup {Dep(UPDATE(x[2], x[3], x[1]), FALSE, "DLT_DIAG", x) :
          x \in UpperTriples}

(* Slip: a diagonal cell is not told to expect its aggregates.            *)
AggregateRecvOffDiag ==
  {Dep(AggregateTarget(x[3], x[2]), FALSE, "AGG", x) :
     x \in {y \in LowerTriples : y[3] > y[2]}}

AggregateRecv ==
  {Dep(AggregateTarget(x[3], x[2]), FALSE, "AGG", x) : x \in LowerTriples}

Deps ==
  TrsmRecv \cup UpdateRecvOD \cup UpdateRecv \cup AggregateRecv
    \cup IF LDL THEN UpdateRecvODofDLT \cup UpdateDiagRecv ELSE {}

RemoteDeps(t) == Incoming(t, Deps)
LocalDeps(t)  == Cardinality({d \in Deps : d.task = t /\ ~d.remote})

-----------------------------------------------------------------------------
(* Properties.                                                             *)

(* The two ends agree: what a task is told to expect, and where from, is   *)
(* exactly what other tasks are told to signal; in particular a counter    *)
(* can neither go below zero nor stay above it.                            *)
SignalsMatchDeps ==
  Deps = {Dep(e.to, e.from.rank # e.to.rank, e.why, e.at) : e \in Edges}

(* Every lookup by key finds its task: signals start and end at tasks.     *)
EdgesJoinTasks ==
  LET tasks == Task IN \A e \in Edges : e.from \in tasks /\ e.to \in tasks

(* No circular wait: a signal always climbs in this order.                 *)
Height(t) ==
  4 * t.src + (CASE t.op = "FACTOR" -> 0 [] t.op = "TRSM" -> 1
                 [] t.op = "DLT" -> 2 [] t.op = "UPDATE" -> 3)

EdgesClimb ==
  \A e \in Edges : Height(e.from) < Height(e.to)

(* Aggregates never travel: an update writes the cell of the task that     *)
(* waits for it, on the rank of that task; and no message leaves from a    *)
(* DLT task.                                                               *)
OnlyPanelsTravel ==
  \A e \in Edges : e.from.rank # e.to.rank => e.from.op \in {"FACTOR", "TRSM"}
=============================================================================
