-------------------------- MODULE MCThreadedRun1D --------------------------
(* Two leaves that update the root of the tree, and two workers.           *)
EXTENDS ThreadedRun1D

Leaves == <<{3}, {3}, {}>>
=============================================================================
