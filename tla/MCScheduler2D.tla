--------------------------- MODULE MCScheduler2D ---------------------------
(***************************************************************************)
(* Two instances of Scheduler2D.  In both a remote message feeds two       *)
(* updates of a cell, u1 and u2, the second of them twice, as TRSM(J,I)    *)
(* does UPDATE(J,J,I), and a third update of that cell, u3, competes for   *)
(* it after two signals from src.  In the first there is a task with no    *)
(* dependencies, so that every worker can be full while another task is    *)
(* ready.  In the second a last task waits for all three updates.          *)
(***************************************************************************)
EXTENDS Scheduler2D, TLC

CONSTANTS leaf, src, u1, u2, u3, fin, c1, c2, m1, w1, w2

MCMsgTo == (m1 :> <<u1, u2, u2>>)

UpdateLock == (src :> c2) @@ (u1 :> c1) @@ (u2 :> c1) @@ (u3 :> c1)
UpdatePrio == (src :> 1) @@ (u1 :> 2) @@ (u2 :> 2) @@ (u3 :> 3)

WideTask   == {leaf, src, u1, u2, u3}
WideOrder  == <<leaf, src, u1, u2, u3>>
WideLockOf == (leaf :> NoCell) @@ UpdateLock
WidePrio   == (leaf :> 1) @@ UpdatePrio
WideOut    == (src :> <<u2, u3, u3>>) @@ [u \in {leaf, u1, u2, u3} |-> <<>>]

JoinTask   == {src, u1, u2, u3, fin}
JoinOrder  == <<src, u1, u2, u3, fin>>
JoinLockOf == (fin :> NoCell) @@ UpdateLock
JoinPrio   == (fin :> 4) @@ UpdatePrio
JoinOut    == (src :> <<u2, u3, u3>>) @@ (fin :> <<>>)
                @@ [u \in {u1, u2, u3} |-> <<fin>>]
=============================================================================
