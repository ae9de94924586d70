---------------------------- MODULE BoundedFifo ----------------------------
(***************************************************************************)
(* What worker_ptrs promises to the scheduler: a first-in first-out queue  *)
(* of at most Size tasks between one producer (the master thread) and one  *)
(* consumer (a worker).  `out' is the task most recently taken.            *)
(***************************************************************************)
EXTENDS Naturals, Sequences

CONSTANTS Task, Size, None
VARIABLES queue, out

fifoVars == <<queue, out>>

Init == queue = <<>> /\ out = None

Put(t) == /\ Len(queue) < Size
          /\ queue' = Append(queue, t)
          /\ UNCHANGED out

Take == /\ queue # <<>>
        /\ out' = Head(queue)
        /\ queue' = Tail(queue)

Next == (\E t \in Task : Put(t)) \/ Take

Spec == Init /\ [][Next]_fifoVars
=============================================================================
