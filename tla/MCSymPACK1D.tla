---------------------------- MODULE MCSymPACK1D ----------------------------
(***************************************************************************)
(* Instances of SymPACK1D: a structure under a mapping of the code.        *)
(***************************************************************************)
EXTENDS SymPACK1D, TLC

CONSTANTS all_np, type

M == INSTANCE Mapping

np == M!Processes(type, all_np, NS)

Ranks  == 0..(np - 1)
Mapped == [c \in Sup \X Sup |-> M!MapOf(type, c[1] - 1, c[2] - 1, np)]

(* Three children of supernode 4: two on one rank, one on the rank of 4.   *)
Tree6  == <<{4, 5}, {4, 6}, {4, 5, 6}, {5, 6}, {6}, {}>>
=============================================================================
