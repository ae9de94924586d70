--------------------------- MODULE SubtreeMapping ---------------------------
(***************************************************************************)
(* Who gets what, once the rows of every supernode are known.  The cost of *)
(* each supernode, or of each cell of the 2D code, is summed over subtrees *)
(* of the supernodal tree; the processes of a node are split among its     *)
(* children in proportion; a supernode, or a cell, goes to the process of  *)
(* its group that has least to do.  SubtreeToSubcube does this for the     *)
(* supernodes of the 1D code, SymbolicFactorization of the 2D code for the *)
(* cells.  Numbers are exact: rounding of the doubles is not modelled.     *)
(***************************************************************************)
EXTENDS Integers, FiniteSets, SequencesExt

CONSTANTS
  NP,      \* np: processes are 0..NP-1
  NS,      \* supernodes are 1..NS
  Cols,    \* Cols[I]: the columns of supernode I
  Lindx,   \* Lindx[I]: the rows of supernode I, its columns among them
  Parent,  \* Parent[I]: in the supernodal tree, 0 for a root
  Height   \* Height[I]: cc[fc-1]

Sup == 1..NS

Width(I)   == Cardinality(Cols[I])
Member(r)  == CHOOSE K \in Sup : r \in Cols[K]
Ancestors(I) == {Member(r) : r \in Lindx[I]} \ {I}
NRows(I, K) == Cardinality(Lindx[I] \cap Cols[K])
RowsFrom(I, K) == Cardinality({r \in Lindx[I] : \E L \in K..NS : r \in Cols[L]})

Ascending(S)  == SetToSortSeq(S, <)
Descending(S) == SetToSortSeq(S, >)

-----------------------------------------------------------------------------
(* The cells of column I and their blocks, in one scan of its rows: a      *)
(* block is a maximal run of contiguous rows within a supernode.           *)

(* Slip: blocks go on across the boundary of two supernodes.               *)
GoesOnAcross(b, r) == r = b.first + b.nrows

GoesOn(b, r) == r = b.first + b.nrows /\ b.cell = Member(r)

AddRow(blocks, r) ==
  IF blocks # <<>> /\ GoesOn(Last(blocks), r)
  THEN [blocks EXCEPT ![Len(blocks)].nrows = @ + 1]
  ELSE Append(blocks, [cell |-> Member(r), first |-> r, nrows |-> 1])

Blocks(I) == FoldLeft(AddRow, <<>>, Ascending(Lindx[I]))

CellsOf(I) == {b.cell : b \in ToSet(Blocks(I))}

-----------------------------------------------------------------------------
(* The costs.                                                              *)

(* 6 CHOLESKY_COST.                                                        *)
CHOLESKY_COST(m, n) ==
  6 * n * m * m + 12 * n * m - 2 * n * n * n - 9 * n * n - n - 6

FLOPS_DPOTRF(n)     == (n * (n + 1) * (2 * n + 1)) \div 6
FLOPS_DTRSM(m, n)   == n * m * (m + 1)
FLOPS_DGEMM(m, n, k) == 2 * m * n * k

(* SubtreeToSubcube and SubtreeToSubcubeVolume: an update is charged to    *)
(* its source (fan-in) or to its target.                                   *)
UpdateCost(volume, I, K) ==
  RowsFrom(I, K) * Width(I) * (IF volume THEN 1 ELSE 12 * NRows(I, K))

NodeLoad(volume, fan_in) ==
  [I \in Sup |->
     (IF volume THEN 0 ELSE CHOLESKY_COST(Height[I], Width(I)))
     + (IF fan_in
        THEN MapThenSumSet(LAMBDA K : UpdateCost(volume, I, K), Ancestors(I))
        ELSE MapThenSumSet(LAMBDA J : UpdateCost(volume, J, I),
                           {J \in Sup : I \in Ancestors(J)}))]

(* getPerCellCost, for source I and target J.  What it calls odRows is set *)
(* when the rows of J end, so not if there are none after them.  The TRSM  *)
(* of a cell is charged once per target before it.                         *)
OdRows(I, J) == IF \E K \in Ancestors(I) : K > J THEN NRows(I, J) ELSE 0

CellLoad(K, J) ==
  LET here == Ancestors(J) \cup {J}
      sources == {I \in Sup : J \in Ancestors(I) \cup {I}
                              /\ K \in Ancestors(I) \cup {I}}
      targets == {T \in here : T <= K}
  IN (IF K = J THEN FLOPS_DPOTRF(Width(J)) ELSE 0)
     + MapThenSumSet(
         LAMBDA I : FLOPS_DGEMM(NRows(I, K), OdRows(I, J), Width(I)), sources)
     + (IF K # J THEN Cardinality(targets) * FLOPS_DTRSM(NRows(J, K), Width(J))
        ELSE 0)

NodeLoad2D ==
  [J \in Sup |-> MapThenSumSet(LAMBDA K : CellLoad(K, J), CellsOf(J))]

-----------------------------------------------------------------------------
(* The groups.  A group is contiguous: n processes from lo on.             *)

KidsOf(P) == {I \in Sup : Parent[I] = P}

SubTreeLoad(load) ==
  LET sub[I \in Sup] == load[I] + MapThenSumSet(LAMBDA C : sub[C], KidsOf(I))
  IN sub

(* Slip: 0 / 0, converted to an integer, is no process.                    *)
IdealOfNothing(npParent, part, whole) ==
  IF whole = 0 THEN 0
  ELSE (2 * npParent * part + whole) \div (2 * whole)

(* round(npParent * min(1.0, part / whole)).  If nothing below the parent  *)
(* costs anything the quotient is NaN, and min returns its first argument. *)
Ideal(npParent, part, whole) ==
  IF whole = 0 THEN npParent
  ELSE (2 * npParent * part + whole) \div (2 * whole)

NumProcs(npParent, first, ideal) == Max({1, Min({npParent - first, ideal})})

(* pstart: only the 2D code starts again at the first process.             *)
Advance(start, numProcs, ideal, npParent, twoD) ==
  IF twoD THEN (start + numProcs) % npParent ELSE start + numProcs

(* The children take their parts from the last one down.                   *)
Split(group, kids, sub, twoD) ==
  LET whole == MapThenSumSet(LAMBDA C : sub[C], ToSet(kids))
      take(s, C) ==
        LET first == Min({s.start, group.n - 1})
            ideal == Ideal(group.n, sub[C], whole)
            n     == NumProcs(group.n, first, ideal)
        IN [start |-> Advance(s.start, n, ideal, group.n, twoD),
            taken |-> Append(s.taken, [lo |-> group.lo + first, n |-> n])]
  IN FoldLeft(take, [start |-> 0, taken |-> <<>>], kids).taken

(* groupIdx_ and levelGroups_; 0 is the root of all trees.  The 2D code    *)
(* leaves an only child the group of its parent.                           *)
Groups(load, twoD) ==
  LET sub == SubTreeLoad(load)
      group[I \in 0..NS] ==
        IF I = 0 THEN [lo |-> 0, n |-> NP]
        ELSE LET kids  == Descending(KidsOf(Parent[I]))
                 above == group[Parent[I]]
             IN IF twoD /\ Len(kids) = 1 THEN above
                ELSE Split(above, kids, sub, twoD)
                       [CHOOSE i \in DOMAIN kids : kids[i] = I]
  IN group

Ranks(group) == group.lo..(group.lo + group.n - 1)

-----------------------------------------------------------------------------
(* The processes.  The items of a list are given out in its order.         *)

AddLoad(s, p, cost) == [s EXCEPT !.load[p] = @ + cost]

LeastLoaded(load, ranks) ==
  CHOOSE p \in ranks : \A q \in ranks :
    load[p] < load[q] \/ (load[p] = load[q] /\ p <= q)

(* Items are records of the group they choose from and what they cost.     *)
GiveOut(items) ==
  LET give(s, item) ==
        LET p == LeastLoaded(s.load, Ranks(item.group))
        IN AddLoad([s EXCEPT !.owner = Append(@, p)], p, item.cost)
  IN FoldLeft(give, [load |-> [p \in 0..(NP - 1) |-> 0], owner |-> <<>>], items)

(* GetMap: the supernodes in order.                                        *)
Items1D(volume, fan_in) ==
  LET load  == NodeLoad(volume, fan_in)
      group == Groups(load, FALSE)
  IN [I \in Sup |-> [group |-> group[I], cost |-> load[I]]]

(* The cells, from the last column, in the order find_min_proc gets them.  *)
CellOrder ==
  LET columns == Descending(Sup)
  IN FlattenSeq([i \in DOMAIN columns |->
       LET J == columns[i]  rows == Ascending(CellsOf(J))
       IN [k \in DOMAIN rows |-> <<rows[k], J>>]])

(* A cell of column J chooses from groupIdx_[J-1], the group of the        *)
(* supernode before J.                                                     *)
Items2D ==
  LET group == Groups(NodeLoad2D, TRUE)
  IN [k \in DOMAIN CellOrder |->
        LET c == CellOrder[k]
        IN [group |-> group[c[2] - 1], cost |-> CellLoad(c[1], c[2])]]

-----------------------------------------------------------------------------
(* Properties.                                                             *)

(* The blocks of a column hold each of its rows once, are contiguous,      *)
(* never cross a supernode and cannot be longer: the cells the owners      *)
(* allocate from them are those the task graph is built on.                *)
BlocksTile ==
  \A I \in Sup :
    LET blocks == Blocks(I)
        rows(b) == b.first..(b.first + b.nrows - 1)
    IN /\ UNION {rows(b) : b \in ToSet(blocks)} = Lindx[I]
       /\ \A b \in ToSet(blocks) : rows(b) \subseteq Cols[b.cell]
       /\ \A i, j \in DOMAIN blocks : i < j =>
            /\ blocks[i].first + blocks[i].nrows <= blocks[j].first
            /\ blocks[i].cell = blocks[j].cell =>
                 blocks[i].first + blocks[i].nrows < blocks[j].first
       /\ CellsOf(I) = {I} \cup Ancestors(I)

(* A child has some processes of its parent; two children share one only   *)
(* if the children served before the second have left none free.           *)
ShareOnlyWhenFull(group) ==
  \A I \in Sup :
    LET above == Ranks(group[Parent[I]])
        elder == {J \in KidsOf(Parent[I]) : J > I}
    IN /\ Ranks(group[I]) # {} /\ Ranks(group[I]) \subseteq above
       /\ \A J \in elder : Ranks(group[J]) \cap Ranks(group[I]) # {} =>
            UNION {Ranks(group[K]) : K \in elder} = above

(* The processes a child gets are its share of the cost of all children,   *)
(* the supernodes of its subtree counted one by one: to the nearest, never *)
(* more unless it is the one each child has, and less only if the group of *)
(* the parent ends there.  If no child costs anything, each takes whatever *)
(* is left.                                                                *)
InProportion(group, load) ==
  LET path[J \in 0..NS] == IF J = 0 THEN {} ELSE {J} \cup path[Parent[J]]
      cost(P) == MapThenSumSet(LAMBDA J : load[J], {J \in Sup : P \in path[J]})
  IN \A I \in Sup :
       LET n     == Cardinality(Ranks(group[I]))
           above == Ranks(group[Parent[I]])
           np    == Cardinality(above)
           own   == cost(I)
           whole == MapThenSumSet(cost, KidsOf(Parent[I]))
       IN /\ n = 1 \/ 2 * n * whole <= 2 * np * own + whole
          /\ \/ 2 * np * own < 2 * n * whole + whole
             \/ Max(Ranks(group[I])) = Max(above)

(* The process that gets an item had no more to do, before, than any other *)
(* of the item's group has in the end.                                     *)
Balanced(items) ==
  LET final == GiveOut(items)
      load(p, k) == MapThenSumSet(LAMBDA i : items[i].cost,
                                  {i \in 1..(k - 1) : final.owner[i] = p})
  IN \A k \in DOMAIN items :
       LET p == final.owner[k] IN
       \A q \in Ranks(items[k].group) : load(p, k) <= load(q, Len(items) + 1)

Fair(load, twoD) ==
  LET group == Groups(load, twoD)
  IN ShareOnlyWhenFull(group) /\ InProportion(group, load)

GroupsFair ==
  /\ \A volume, fan_in \in BOOLEAN :
       /\ Fair(NodeLoad(volume, fan_in), FALSE)
       /\ Balanced(Items1D(volume, fan_in))
  /\ Fair(NodeLoad2D, TRUE)
  /\ Balanced(Items2D)
=============================================================================
