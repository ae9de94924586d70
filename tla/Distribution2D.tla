--------------------------- MODULE Distribution2D ---------------------------
(***************************************************************************)
(* What the task graphs of the 2D code share: the supernodes and their     *)
(* structure, the rank that owns each cell, and the shape of a task, of a  *)
(* signal between two tasks and of the dependency a task is told of.       *)
(***************************************************************************)
EXTENDS Integers, FiniteSets

CONSTANTS
  NS,      \* nsuper: supernodes are 1..NS
  Struct,  \* Struct[I]: supernodes below I with a row in column I
  Rank,    \* the processes
  Owner,   \* Owner[K, J]: the rank that owns cell (K, J)
  LDL      \* options_.decomposition == LDL (LL otherwise)

Sup  == 1..NS
Pair == {c \in Sup \X Sup : c[1] >= c[2]}

ASSUME GraphAssumption ==
  /\ NS \in Nat
  /\ Struct \in [Sup -> SUBSET Sup]
  /\ \A I \in Sup : \A J \in Struct[I] : J > I
  /\ Owner \in [Pair -> Rank]
  /\ LDL \in BOOLEAN

(* What the symbolic factorization guarantees of its result: two rows of   *)
(* column I fill in a cell of the column of the smaller one.               *)
FillClosed ==
  \A I \in Sup : \A J, K \in Struct[I] : K > J => K \in Struct[J]

-----------------------------------------------------------------------------
(* Tasks: (row, col) is the cell written, src the supernode it comes from. *)

Home(row, col) == Owner[<<row, col>>]

TaskOf(op, row, col, src, rank) ==
  [op |-> op, row |-> row, col |-> col, src |-> src, rank |-> rank]

(* The loop over ancestor_rows.                                            *)
Below   == {x \in Sup \X Sup : x[2] \in Struct[x[1]]}

(* out_dependencies: one edge per signal, told apart by the message (why,  *)
(* and the supernodes x of its loop) that created it.                      *)
Edge(from, to, why, x) == [from |-> from, to |-> to, why |-> why, at |-> x]

(* The RECV side: what increments in_remote_dependencies_cnt and           *)
(* in_local_dependencies_cnt of a task.  The choice between the two is     *)
(* made there from the owners of the source and of the target cell.        *)
Dep(task, remote, why, x) ==
  [task |-> task, remote |-> remote, why |-> why, at |-> x]

Incoming(t, deps) == Cardinality({d \in deps : d.task = t /\ d.remote})

-----------------------------------------------------------------------------
(* rdy_comp and avail_comp: the target column, then the kind of task, then *)
(* the facing row.  a is below b in the priority queue.                    *)
OpCode(op) == CASE op = "FACTOR" -> 2 [] op = "TRSM" -> 3
                [] op = "UPDATE" -> 6 [] op = "FUC" -> 17
                [] op = "BUC" -> 18 [] op = "DLT" -> 29

LessUrgent(a, b) ==
  \/ a.col < b.col
  \/ a.col = b.col /\ OpCode(a.op) < OpCode(b.op)
  \/ a.col = b.col /\ a.op = b.op /\ a.row < b.row

Top(queue) == {t \in queue : \A u \in queue : ~LessUrgent(t, u)}
=============================================================================
