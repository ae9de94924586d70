------------------------------ MODULE Mapping ------------------------------
(***************************************************************************)
(* The mappings of the 1D code: which of np processes computes the update  *)
(* of supernode i by supernode j, and, for i = j, owns supernode i.  The   *)
(* processes and the supernodes are counted from 0, iBlockSize_ is 1.      *)
(***************************************************************************)
EXTENDS Integers

Lesser(i, j)  == IF i <= j THEN i ELSE j
Greater(i, j) == IF i <= j THEN j ELSE i

(* iPRows_: (Int)sqrt((double)n).                                          *)
Root(n) == CHOOSE k \in 0..n : k * k <= n /\ n < (k + 1) * (k + 1)

(* symPACKOptions::isSqrtP.                                                *)
SqrtP == {"MODWRAP2D", "MODWRAP2DNS", "WRAP2D", "WRAP2DFORCED"}

used_procs(type, n) ==
  IF type \in SqrtP THEN Root(n) * (n \div Root(n)) ELSE n

(* The processes that take part, of all_np, for a matrix of ns supernodes. *)
Processes(type, all_np, ns) ==
  Lesser(used_procs(type, all_np), used_procs(type, ns))

row2D(i, j, np)           == i % np
col2D(i, j, np)           == j % np
wrap2D(i, j, pr)          == (i % pr) + pr * (j % pr)
wrap2DForced(i, j, np, pr) == IF i # j THEN wrap2D(i, j, pr) ELSE j % np
modwrap2DNS(i, j, np, pr) == (i % pr) + pr * ((j % np) \div pr)
modwrap2D(i, j, np, pr)   ==
  (Lesser(i, j) % pr) + pr * ((Greater(i, j) % np) \div pr)

MapOf(type, i, j, np) ==
  CASE type = "WRAP2D"               -> wrap2D(i, j, Root(np))
    [] type = "WRAP2DFORCED"         -> wrap2DForced(i, j, np, Root(np))
    [] type = "MODWRAP2DNS"          -> modwrap2DNS(i, j, np, Root(np))
    [] type \in {"ROW2D", "FANOUT"}  -> row2D(i, j, np)
    [] type \in {"COL2D", "FANIN"}   -> col2D(i, j, np)
    [] OTHER                         -> modwrap2D(i, j, np, Root(np))
=============================================================================
