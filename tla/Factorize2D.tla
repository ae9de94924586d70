---------------------------- MODULE Factorize2D ----------------------------
(***************************************************************************)
(* symPACKMatrix2D::Factorize on all ranks, each running the single-thread *)
(* loop of Scheduler2D::execute over its part of the task graph.  A task   *)
(* computes into its cell and then tells its successors: those on the same *)
(* rank by an lpc to itself (satisfy_dep), those on another rank by one    *)
(* rpc per rank that announces where the cell is.  The receiver starts an  *)
(* rget at once, and the task that needs the data attaches to it when all  *)
(* its announcements are in (avail_tasks); its last callback makes it      *)
(* ready.                                                                  *)
(***************************************************************************)
EXTENDS TaskGraph2D, Execution2D

VARIABLES
  executed,  \* tasks executed so far
  wbuf,      \* LDL: the cells, local or received, that hold D times L
  pivots     \* LDL: local_pivot of each off-diagonal cell

execVars == <<executed, wbuf, pivots>>
vars == <<loopVars, execVars>>

EdgesFrom(t) == {e \in Edges : e.from = t}
RemoteInto(t) == {e \in Edges : e.to = t /\ e.from.rank # t.rank}

LocalEdges(t) == {e \in EdgesFrom(t) : e.to.rank = t.rank}

(* The incoming_data_t an edge's target shares: one per rpc, and a second  *)
(* one for the diagonal entries that DLT tasks take from FACTOR.           *)
DataOf(e) ==
  <<e.from, e.to.rank,
    IF e.from.op = "FACTOR" /\ e.to.op = "DLT" THEN "diag" ELSE "cell">>

Data == {DataOf(e) : e \in {d \in Edges : d.from.rank # d.to.rank}}

Rpcs == {<<d[1], d[2]>> : d \in Data}

(* One rpc per other rank with a successor of t: it names the cell and the *)
(* successors.                                                             *)
Announcements(t) ==
  {<<t, q>> : q \in {e.to.rank : e \in EdgesFrom(t)} \ {t.rank}}

EdgesOfRpc(m) == {e \in EdgesFrom(m[1]) : e.to.rank = m[2]}

(* One lpc per edge of E.                                                  *)
LpcPerEdge(Lpc(_, _), E) ==
  LET s == SetToSeq(E) IN [i \in DOMAIN s |-> Lpc(s[i].to, 1)]

-----------------------------------------------------------------------------
Init ==
  /\ LoopInit(Task, Data, [t \in Task |-> LocalDeps(t)],
              [t \in Task |-> RemoteDeps(t)])
  /\ executed = {}
  /\ wbuf = {}
  /\ pivots = [x \in Below |-> 0]

(* LDL: D times the pivot cell is kept with the cell: with the rank's own  *)
(* cell if it is local, with the received copy otherwise.                  *)
LocalPivot(t) == Home(t.col, t.src) = t.rank
PivotBuf(t)   == <<t.col, t.src, t.rank>>

(* Slip: the update of the diagonal cell is not counted.                   *)
FacingUses(t) ==
  Cardinality({e \in LocalEdges(t) :
                 e.to.op = "UPDATE" /\ e.to.col = t.row /\ e.to.row # t.row})

(* The local successors of TRSM(J, I) that use it as their pivot, counted  *)
(* once per signal.                                                        *)
PivotUses(t) ==
  Cardinality({e \in LocalEdges(t) : e.to.op = "UPDATE" /\ e.to.col = t.row})

(* What executing t does to the buffers of D times L.                      *)
Buffers(t) ==
  CASE LDL /\ t.op = "TRSM" ->
         /\ pivots' = IF LocalEdges(t) # {}
                      THEN [pivots EXCEPT ![<<t.src, t.row>>] = PivotUses(t)]
                      ELSE pivots
         /\ UNCHANGED wbuf
    [] LDL /\ t.op = "DLT" ->
         /\ wbuf' = wbuf \cup {PivotBuf(t)}
         /\ UNCHANGED pivots
    [] LDL /\ t.op = "UPDATE" /\ LocalPivot(t) ->
         /\ pivots' = [pivots EXCEPT ![<<t.src, t.col>>] = @ - 1]
         /\ wbuf' = IF pivots[t.src, t.col] = 1 THEN wbuf \ {PivotBuf(t)}
                    ELSE wbuf
    [] OTHER -> UNCHANGED <<wbuf, pivots>>

(* The top ready task is executed: it computes, signals its successors on  *)
(* this rank and announces its cell to every other rank that has one.      *)
Execute(r, t) ==
  /\ Run(r, t, LpcPerEdge(DepLpc, LocalEdges(t)), Announcements(t))
  /\ executed' = executed \cup {t}
  /\ Buffers(t)

Deliver(m) ==
  LET E == EdgesOfRpc(m) IN
  /\ Receive(m, {DataOf(e) : e \in E}, LpcPerEdge(AvailLpc, E))
  /\ UNCHANGED execVars

Land(d) == Arrive(d) /\ UNCHANGED execVars

Uses(t, d) == Cardinality({e \in RemoteInto(t) : DataOf(e) = d})

LandedInputs(t) == {e \in RemoteInto(t) : data[DataOf(e)] = "landed"}

Fetch(r, t) ==
  /\ Attach(r, t, [d \in Data |-> Uses(t, d)], Cardinality(LandedInputs(t)))
  /\ UNCHANGED execVars

Terminated == Ended /\ UNCHANGED vars

RankStep(r) ==
  \/ \E t \in Task : Execute(r, t)
  \/ \E t \in Task : Fetch(r, t)
  \/ /\ Turn(r, {t \in Task : RemoteDeps(t) > 0}) \/ LeaveLoop(r, "barrier")
     /\ UNCHANGED execVars

Next ==
  \/ \E r \in Rank : RankStep(r)
  \/ \E m \in Rpcs : Deliver(m)
  \/ \E d \in Data : Land(d)
  \/ Terminated

(* Every rank keeps running its loop, and what was sent or is being        *)
(* fetched arrives during one of its calls of upcxx::progress().           *)
Fairness ==
  /\ \A r \in Rank : WF_vars(RankStep(r))
  /\ \A m \in Rpcs : SF_vars(Deliver(m))
  /\ \A d \in Data : SF_vars(Land(d))

Spec == Init /\ [][Next]_vars
FairSpec == Spec /\ Fairness

-----------------------------------------------------------------------------
(* Properties.                                                             *)

(* The block factorization is carried out: every operation once, none      *)
(* before the operations whose results it needs.  DLT tasks are internal.  *)
R == INSTANCE RightLooking WITH applied <-
       {<<t.op, t.row, t.col, t.src>> : t \in {u \in executed : u.op # "DLT"}}

RightLookingSpec == R!Spec

(* The counters of the tasks are exact.                                    *)
CountersExact == CountersSound(executed)

(* A cell is announced when nothing will write it any more, so that the    *)
(* one-sided read cannot race with a computation on its owner.             *)
AnnouncedIsFinal ==
  \A d \in Data :
    (<<d[1], d[2]>> \in net \/ data[d] # "absent") =>
      \A t \in Task :
        /\ t.op # "DLT" /\ t.row = d[1].row /\ t.col = d[1].col
        => t \in executed

(* LDL: when an update is ready, D times its pivot is there.  Were it not, *)
(* update would compute it from a null diagonal.                           *)
PivotBufferPresent ==
  LDL => \A t \in ready : t.op = "UPDATE" => PivotBuf(t) \in wbuf

(* Every rank that leaves Factorize leaves nothing behind: no message, no  *)
(* lpc, no task, and the factor is complete.                               *)
CleanReturn ==
  \A r \in Rank : pc[r] = "end" =>
    /\ R!Factored /\ net = {} /\ inbox[r] = <<>>
    /\ ready = {} /\ avail = {}
    /\ \A d \in Data : data[d] = "landed" /\ thens[d] = <<>>

(* Factorize returns on every rank.                                        *)
Returns == <>(\A r \in Rank : pc[r] = "end")
=============================================================================
