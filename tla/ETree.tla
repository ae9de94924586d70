------------------------------- MODULE ETree -------------------------------
(***************************************************************************)
(* The sequential part of the symbolic analysis: from a graph, given by    *)
(* the neighbours of each vertex, to its elimination tree, a postorder,    *)
(* the column counts of the factor, and the supernodes.  Vertices are      *)
(* 1..N in the order of elimination; 0 stands for no vertex.  The lists of *)
(* neighbours are read in increasing order.                                *)
(***************************************************************************)
EXTENDS Integers, FiniteSets, SequencesExt

CONSTANT N

ASSUME SizeAssumption == N \in Nat \ {0}

Vertex == 1..N

Increasing(S) == SetToSortSeq(S, <)
Decreasing(S) == SetToSortSeq(S, >)

-----------------------------------------------------------------------------
(* ConstructETree.  The forest of the vertices before i is climbed from a  *)
(* lower neighbour of i through ancstr, which is compressed on the way.    *)

Climb(ancstr, nbr, i) ==
  LET path[v \in Vertex] ==
        IF ancstr[v] \in {0, i} THEN {v} ELSE {v} \cup path[ancstr[v]]
  IN path[nbr]

Attach(t, nbr, i) ==
  LET path == Climb(t.ancstr, nbr, i)
      root == Max(path)
  IN [parent |-> IF t.ancstr[root] = i THEN t.parent
                 ELSE [t.parent EXCEPT ![root] = i],
      ancstr |-> [v \in Vertex |-> IF v \in path THEN i ELSE t.ancstr[v]]]

ConstructETree(adj) ==
  LET none == [v \in Vertex |-> 0]
      column(t, i) ==
        FoldLeft(LAMBDA s, nbr : Attach(s, nbr, i), t,
                 Increasing({j \in adj[i] : j < i}))
  IN FoldLeft(column, [parent |-> none, ancstr |-> none],
              Increasing(Vertex)).parent

-----------------------------------------------------------------------------
(* PostOrderTree and SortChildren: both link the children of each vertex   *)
(* in a list, number the vertices depth first (BTreeToPO), and renumber.   *)

Children(parent, v) == {c \in Vertex : parent[c] = v}

(* The trees are visited from the one of N down.                           *)
Numbering(parent, kids) ==
  LET visit[v \in Vertex] ==
        Append(FlattenSeq([k \in DOMAIN kids[v] |-> visit[kids[v][k]]]), v)
      roots == Decreasing(Children(parent, 0))
      order == FlattenSeq([k \in DOMAIN roots |-> visit[roots[k]]])
  IN [v \in Vertex |-> CHOOSE m \in Vertex : order[m] = v]

InOrder(parent) == [v \in Vertex |-> Increasing(Children(parent, v))]

(* From the highest child down: one with as many entries as the last of    *)
(* the list goes to the front, another to the end.                         *)
ByCount(parent, cc) ==
  LET insert(list, c) ==
        IF list = <<>> \/ cc[c] >= cc[Last(list)] THEN <<c>> \o list
        ELSE Append(list, c)
  IN [v \in Vertex |->
        FoldLeft(insert, <<>>, Decreasing(Children(parent, v)))]

At(invpos, k) == CHOOSE v \in Vertex : invpos[v] = k

RenumberTree(parent, invpos) ==
  [k \in Vertex |-> LET p == parent[At(invpos, k)]
                    IN IF p = 0 THEN 0 ELSE invpos[p]]

RenumberGraph(adj, invpos) ==
  [k \in Vertex |-> {invpos[u] : u \in adj[At(invpos, k)]}]

RenumberCounts(cc, invpos) == [k \in Vertex |-> cc[At(invpos, k)]]

-----------------------------------------------------------------------------
(* getLColRowCount (the column counts), on a postordered tree.             *)

FirstDescendant(parent) ==
  LET fdesc[v \in Vertex] ==
        Min({v} \cup {fdesc[c] : c \in Children(parent, v)})
  IN fdesc

(* find, with path halving.                                                *)
RECURSIVE Find(_, _)
Find(set, last1) ==
  LET last2 == set[last1]
      lca   == set[last2]
  IN IF lca = last2 THEN [set |-> set, lca |-> lca]
     ELSE Find([set EXCEPT ![last1] = lca], lca)

(* One high neighbour of lownbr.  lownbr is a leaf of the row subtree of   *)
(* hinbr if none of its descendants has been a neighbour of hinbr.         *)
Leaf(s, fdesc, lownbr, hinbr) == fdesc[lownbr] > s.prvnbr[hinbr]

HighNeighbour(s, fdesc, lownbr, hinbr) ==
  LET pleaf == s.prvlf[hinbr]
      found == IF pleaf = 0 THEN [set |-> s.set, lca |-> 0]
               ELSE Find(s.set, pleaf)
  IN IF Leaf(s, fdesc, lownbr, hinbr)
     THEN [s EXCEPT !.weight = [k \in DOMAIN @ |->
                        @[k] + (IF k = lownbr THEN 1 ELSE 0)
                             - (IF pleaf # 0 /\ k = found.lca THEN 1 ELSE 0)],
                    !.set = found.set,
                    !.prvlf[hinbr] = lownbr,
                    !.prvnbr[hinbr] = lownbr,
                    !.lflag = TRUE]
     ELSE [s EXCEPT !.prvnbr[hinbr] = lownbr]

(* Slip: leaves of row subtrees only.                                      *)
ClosesAtLeaf(s, parent, lownbr) == s.lflag

(* lownbr ends a chain of the tree that find treats as one.                *)
ClosesChain(s, parent, lownbr) ==
  s.lflag \/ Cardinality(Children(parent, lownbr)) >= 2

LowNeighbour(s, adj, parent, fdesc, lownbr) ==
  LET high == FoldLeft(LAMBDA t, h : HighNeighbour(t, fdesc, lownbr, h),
                       [s EXCEPT !.lflag = FALSE],
                       Increasing({h \in adj[lownbr] : h > lownbr}))
      xsup == IF ClosesChain(high, parent, lownbr) THEN lownbr ELSE high.xsup
  IN [high EXCEPT !.weight[parent[lownbr]] = @ - 1,
                  !.xsup = xsup,
                  !.set[xsup] = parent[lownbr]]

Weights(adj, parent) ==
  LET fdesc == FirstDescendant(parent)
      start == [weight |-> [v \in 0..N |->
                    IF v # 0 /\ Children(parent, v) = {} THEN 1 ELSE 0],
                set    |-> [v \in Vertex |-> v],
                prvlf  |-> [v \in Vertex |-> 0],
                prvnbr |-> [v \in Vertex |-> 0],
                xsup   |-> 1, lflag |-> FALSE]
  IN FoldLeft(LAMBDA s, v : LowNeighbour(s, adj, parent, fdesc, v),
              start, Increasing(Vertex)).weight

ColumnCounts(adj, parent) ==
  LET weight == Weights(adj, parent)
      cc[v \in Vertex] ==
        weight[v] + MapThenSumSet(LAMBDA c : cc[c], Children(parent, v))
  IN cc

-----------------------------------------------------------------------------
(* findSupernodes: the first columns.  A column joins the supernode of the *)
(* one before if it is its parent and has the same entries below.          *)

FirstColumns(parent, cc, maxSize) ==
  LET supsize[i \in Vertex] ==
        IF /\ i > 1
           /\ parent[i - 1] = i /\ cc[i - 1] = cc[i] + 1
           /\ maxSize = 0 \/ supsize[i - 1] < maxSize
        THEN supsize[i - 1] + 1 ELSE 1
  IN {i \in Vertex : supsize[i] = 1}

(* Xsuper_: the first columns in order, and N + 1.                         *)
Xsuper(first) == Append(Increasing(first), N + 1)

MemberOf(xsuper, col) ==
  CHOOSE k \in 1..(Len(xsuper) - 1) : xsuper[k] <= col /\ col < xsuper[k + 1]

(* ToSupernodalETree.                                                      *)
SupernodalParent(parent, xsuper, k) ==
  LET up == parent[xsuper[k + 1] - 1]
  IN IF up = 0 THEN 0 ELSE MemberOf(xsuper, up)

-----------------------------------------------------------------------------
(* relaxSupernodes: from the last supernode down, one is merged with the   *)
(* next if its parent is there and the zeros this stores are few.  opt     *)
(* holds maxSize, nrelax0 to nrelax2 and the ratios zrelax0 to zrelax2, as *)
(* pairs of integers.                                                      *)

Fewer(zeros, total, ratio) == zeros * ratio[2] < ratio[1] * total

Acceptable(opt, cc, fstcol, parentFc, width, parentWidth, totzeros) ==
  LET merged == width + parentWidth
      new    == width * (cc[parentFc] + width - cc[fstcol])
      zeros  == totzeros + new
      total  == (merged * (merged + 1)) \div 2
                  + merged * (cc[parentFc] - parentWidth)
  IN /\ opt.maxSize = 0 \/ merged <= opt.maxSize
     /\ opt.nrelax0 > 0
     /\ \/ merged <= opt.nrelax0
        \/ new = 0
        \/ merged <= opt.nrelax1 /\ Fewer(zeros, total, opt.zrelax0)
        \/ merged <= opt.nrelax2 /\ Fewer(zeros, total, opt.zrelax1)
        \/ Fewer(zeros, total, opt.zrelax2)

(* The zeros of a merge that is accepted for its size are not counted.     *)
NewZeros(opt, cc, fstcol, parentFc, width, parentWidth) ==
  IF width + parentWidth <= opt.nrelax0 THEN 0
  ELSE width * (cc[parentFc] + width - cc[fstcol])

(* One supernode k: its parent must be where it would continue.            *)
MergeStep(s, opt, parent, cc, xsuper, k) ==
  LET parentCol == parent[xsuper[k + 1] - 1]
      up        == s.root[MemberOf(xsuper, parentCol)]
      width     == s.ncols[k]
  IN IF /\ parentCol # 0 /\ up = k + 1
        /\ Acceptable(opt, cc, xsuper[k], xsuper[up], width, s.ncols[up],
                      s.zeros[up])
     THEN [ncols |-> [s.ncols EXCEPT ![k] = @ + s.ncols[up]],
           zeros |-> [s.zeros EXCEPT ![k] = s.zeros[up] +
                        NewZeros(opt, cc, xsuper[k], xsuper[up], width,
                                 s.ncols[up])],
           newCC |-> [s.newCC EXCEPT ![k] = width + s.newCC[up]],
           root  |-> [j \in DOMAIN s.root |->
                        IF s.root[j] = up THEN k ELSE s.root[j]]]
     ELSE s

RelaxSupernodes(opt, parent, cc, xsuper) ==
  LET sup   == 1..(Len(xsuper) - 1)
      start == [ncols |-> [k \in sup |-> xsuper[k + 1] - xsuper[k]],
                zeros |-> [k \in sup |-> 0],
                newCC |-> [k \in sup |-> cc[xsuper[k]]],
                root  |-> [k \in sup |-> k]]
      last  == FoldLeft(LAMBDA s, k : MergeStep(s, opt, parent, cc, xsuper, k),
                        start, Decreasing(sup))
      roots == {k \in sup : last.root[k] = k}
      owner(col) == last.root[MemberOf(xsuper, col)]
  IN [xsuper |-> Xsuper({xsuper[k] : k \in roots}),
      cc     |-> [col \in Vertex |->
                    last.newCC[owner(col)] - (col - xsuper[owner(col)])]]

-----------------------------------------------------------------------------
(* What SymbolicFactorization makes of a graph before the distributed      *)
(* phase; sort: the ordering is not the natural one.                       *)

Analyse(adj, opt, sort) ==
  LET t0   == ConstructETree(adj)
      pos0 == Numbering(t0, InOrder(t0))
      t1   == RenumberTree(t0, pos0)
      g1   == RenumberGraph(adj, pos0)
      c1   == ColumnCounts(g1, t1)
      pos1 == IF sort THEN Numbering(t1, ByCount(t1, c1))
              ELSE [v \in Vertex |-> v]
      t2   == RenumberTree(t1, pos1)
      c2   == RenumberCounts(c1, pos1)
      x2   == Xsuper(FirstColumns(t2, c2, opt.maxSize))
      rel  == IF opt.nrelax0 > 0 THEN RelaxSupernodes(opt, t2, c2, x2)
              ELSE [xsuper |-> x2, cc |-> c2]
  IN [adj |-> RenumberGraph(g1, pos1), parent |-> t2, count |-> c2,
      xsuper |-> rel.xsuper, cc |-> rel.cc, relaxed |-> opt.nrelax0 > 0]

-----------------------------------------------------------------------------
(* The definitions it is compared with: the columns of the filled graph.   *)

Filled(adj) ==
  LET eliminated[k \in 0..N] ==
        IF k = 0 THEN adj
        ELSE [v \in Vertex |->
                eliminated[k - 1][v] \cup
                  IF v > k /\ v \in eliminated[k - 1][k]
                  THEN {u \in eliminated[k - 1][k] : u > k} \ {v} ELSE {}]
  IN [v \in Vertex |-> {u \in eliminated[N][v] : u > v}]
=============================================================================
