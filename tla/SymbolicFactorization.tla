----------------------- MODULE SymbolicFactorization -----------------------
(***************************************************************************)
(* symbolicFactorizationRelaxedDist: the ranks hold consecutive supernodes *)
(* and compute the rows of each from its columns of the matrix and the     *)
(* rows of its children in the supernodal tree, from the first supernode   *)
(* up.  The rows of a child are sent to the rank of its parent as soon as  *)
(* they are known.  A parent that has found as many rows as the counts     *)
(* announce does not wait for its other children: it posts a receive for   *)
(* each and cancels it at once, which takes the message or leaves it.      *)
(* Every graph, with each of the options, is an initial state; the         *)
(* sequential analysis comes first, and all ranks know its result.         *)
(***************************************************************************)
EXTENDS ETree

CONSTANTS
  NP,      \* all_np: ranks are 0..NP-1
  Options  \* the RelaxationParameters to consider

ASSUME RanksAssumption == NP \in Nat \ {0}

Process == 0..(NP - 1)

VARIABLES
  input,   \* the graph, the options and whether children are sorted
  result,  \* what the sequential analysis finds, <<>> before it
  next,    \* next[p]: the supernode rank p is at
  reach,   \* reach[p]: the rows found for it, rchlnk
  rest,    \* rest[p]: its children not looked at yet, from mrglnk
  lindx,   \* lindx[k]: the rows of supernode k, <<>> before they are known
  net      \* the supernodes whose rows have been sent and not received

vars == <<input, result, next, reach, rest, lindx, net>>

(* The ranks that get supernodes; the mapping uses all processes.          *)
nsuper    == Len(result.xsuper) - 1
Snode     == 1..nsuper
Columns(k) == result.xsuper[k]..(result.xsuper[k + 1] - 1)

(* XsuperDist_.                                                            *)
XsuperDist(p) ==
  LET dist_np    == Min({NP, nsuper})
      supPerProc == Max({1, nsuper \div dist_np})
  IN IF p < dist_np THEN Min({nsuper + 1, p * supPerProc + 1})
     ELSE nsuper + 1

RankOf(k) == CHOOSE p \in Process : XsuperDist(p) <= k /\ k < XsuperDist(p + 1)

(* psup; 0 if k has no rows below its columns.                             *)
Length(k) == result.cc[result.xsuper[k]]
Width(k)  == Cardinality(Columns(k))

ParentOf(k) ==
  IF Length(k) > Width(k)
  THEN MemberOf(result.xsuper, result.parent[result.xsuper[k + 1] - 1])
  ELSE 0

(* The merge list of k: each child is inserted at its head, in order.      *)
MergeList(k) == Decreasing({j \in Snode : j < k /\ ParentOf(j) = k})

AtFirst(p, first) ==
  IF first < XsuperDist(p + 1) THEN MergeList(first) ELSE <<>>

Init ==
  /\ input \in [edges: SUBSET {e \in Vertex \X Vertex : e[1] < e[2]},
               opt: Options, sort: BOOLEAN]
  /\ result = <<>> /\ lindx = <<>> /\ net = {}
  /\ next = [p \in Process |-> 0]
  /\ reach = [p \in Process |-> {}] /\ rest = [p \in Process |-> <<>>]

Neighbours(v) ==
  {u \in Vertex : <<u, v>> \in input.edges \/ <<v, u>> \in input.edges}

Analysed == result # <<>>

Analysis ==
  /\ ~Analysed
  /\ result' = Analyse([v \in Vertex |-> Neighbours(v)], input.opt, input.sort)
  /\ input' = <<>>
  /\ next'  = [p \in Process |-> XsuperDist(p)']
  /\ rest'  = [p \in Process |-> AtFirst(p, XsuperDist(p))']
  /\ lindx' = [k \in Snode' |-> {}]
  /\ UNCHANGED <<reach, net>>

Busy(p) == Analysed /\ next[p] < XsuperDist(p + 1)

(* The rows of child j below its own columns, which come first.            *)
Passed(j) ==
  {r \in lindx[j] : Cardinality({q \in lindx[j] : q < r}) >= Width(j)}

(* The loop over the children: do ... while (jsup != 0 && knz < length).   *)
Wants(p) == rest[p] # <<>> /\ Cardinality(reach[p]) < Length(next[p])

Merge(p) ==
  LET j == Head(rest[p]) IN
  /\ Busy(p) /\ Wants(p)
  /\ RankOf(j) # p => j \in net
  /\ net' = net \ {j}
  /\ reach' = [reach EXCEPT ![p] = @ \cup Passed(j)]
  /\ rest'  = [rest EXCEPT ![p] = Tail(@)]
  /\ UNCHANGED <<input, result, next, lindx>>

(* Slip: the first column only, as without relaxation.                     *)
FirstColumnRead(k) == {result.xsuper[k]}

(* The columns of the matrix that are read: with relaxation all of them.   *)
ColumnsRead(k) ==
  IF result.relaxed THEN Columns(k) ELSE {result.xsuper[k]}

Rows(p, k) ==
  LET fst == result.xsuper[k]
      own == {r \in Columns(k) : r > fst}
               \cup {r \in UNION {result.adj[c] : c \in ColumnsRead(k)} : r > fst}
  IN {fst} \cup reach[p] \cup
       (IF Cardinality(reach[p]) < Length(k) THEN own ELSE {})

(* The receives that are posted and cancelled: from the second child on.   *)
Speculative(p, k) ==
  LET list == MergeList(k)
  IN {list[i] : i \in {h \in 2..Len(list) : RankOf(list[h]) # p}}

Sent(p, k) == IF ParentOf(k) # 0 /\ RankOf(ParentOf(k)) # p THEN {k} ELSE {}

Complete(p) ==
  LET k == next[p] IN
  /\ Busy(p) /\ ~Wants(p)
  /\ lindx' = [lindx EXCEPT ![k] = Rows(p, k)]
  /\ \E taken \in SUBSET (Speculative(p, k) \cap net) :
       net' = (net \ taken) \cup Sent(p, k)
  /\ next'  = [next EXCEPT ![p] = k + 1]
  /\ reach' = [reach EXCEPT ![p] = {}]
  /\ rest'  = [rest EXCEPT ![p] = AtFirst(p, k + 1)]
  /\ UNCHANGED <<input, result>>

(* MPI_Barrier is passed.                                                  *)
Finished == Analysed /\ \A p \in Process : ~Busy(p)

RankStep(p) == Merge(p) \/ Complete(p)

-----------------------------------------------------------------------------
(* Properties.                                                             *)

(* The counts, computed from a compressed forest, are those of the filled  *)
(* graph, before and after the tree has been reordered twice.              *)
CountsExact ==
  LET fill == Filled(result.adj) IN
  \A v \in Vertex :
    /\ result.count[v] = Cardinality(fill[v]) + 1
    /\ result.parent[v] = IF fill[v] = {} THEN 0 ELSE Min(fill[v])

(* Each rank finds, whatever messages it skips, the columns of a supernode *)
(* and the rows below the last of them; as many as the counts announced:   *)
(* bassert(knz == cc[fstcol-1]).                                           *)
StructureExact ==
  LET fill == Filled(result.adj) IN
  \A k \in Snode : lindx[k] # {} =>
    /\ lindx[k] = Columns(k) \cup fill[result.xsuper[k + 1] - 1]
    /\ Cardinality(lindx[k]) = Length(k)
=============================================================================
