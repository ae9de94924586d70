----------------------------- MODULE SymPACK1D -----------------------------
(***************************************************************************)
(* The numerical phases of the 1D code on one object: every rank calls     *)
(* Factorize, then Solve.  A rank may be in the solve, and send messages   *)
(* of it, while others are still in the barrier of the factorization.      *)
(***************************************************************************)
EXTENDS FanBoth1D, Solve1D

vars == <<runVars, factorVars, rows>>

Tasks == FactorTasks \cup SolveTasks

Init ==
  /\ localDeps  = [t \in Tasks |-> IF IsSolve(t) THEN LocalDepsOf(t)
                                   ELSE LocalOf(t)]
  /\ remoteDeps = [t \in Tasks |-> IF IsSolve(t) THEN RemoteDepsOf(t)
                                   ELSE RemoteOf(t)]
  /\ RunInit(FactorTasks)
  /\ FactorInit
  /\ SolveInit

(* What an rget reads, and msgHandle, which only the factorization sets.   *)
Data(m)   == IF IsSolve(m[2]) THEN SolveData(m) ELSE FactorData(m)
AtOnce(m) == ~IsSolve(m[2]) /\ IsAggregate(m)

Execute(r) ==
  \/ FactorTask(r) /\ UNCHANGED rows
  \/ SolveTask(r) /\ UNCHANGED factorVars

Solve(r) == call[r] = 1 /\ RunAgain(r, Mine(r, SolveTasks))

RankStep(r) ==
  \/ Execute(r)
  \/ /\ \/ \E m \in Blocked(r) : TakeBlocking(r, m, Data(m), AtOnce(m))
        \/ Promote(r) \/ LoopBack(r) \/ LeaveDrain(r, Drained(r))
        \/ PassBarrier(r) \/ Solve(r)
     /\ UNCHANGED <<factorVars, rows>>

Complete(r) ==
  /\ \E m \in async : TakeAsync(r, m, Data(m), AtOnce(m))
  /\ UNCHANGED <<factorVars, rows>>

(* What reaches rank r when it calls upcxx::progress().                    *)
Reached(r) ==
  \/ \E m \in OnRank(r, net) : Arrive(m) /\ UNCHANGED <<factorVars, rows>>
  \/ \E f \in frees : f[1] = r /\ FreeAggregate(f) /\ UNCHANGED rows

Ended == \A r \in Rank : call[r] = 2 /\ pc[r] = "end"

Terminated == Ended /\ UNCHANGED vars

Next ==
  \/ \E r \in Rank : RankStep(r) \/ Complete(r) \/ Reached(r)
  \/ Terminated

(* A rank runs on, and it tests its rgets and enters progress in every     *)
(* turn of its loops: what is on its way gets there, an rget completes.    *)
Fairness ==
  \A r \in Rank : /\ WF_vars(RankStep(r))
                  /\ SF_vars(Complete(r))
                  /\ WF_vars(Reached(r))

Spec == Init /\ [][Next]_vars
FairSpec == Spec /\ Fairness

-----------------------------------------------------------------------------
(* Properties: those of the two calls.                                     *)

(* Every counter says what its task still waits for, in both calls.        *)
CountersExact == FactorCountersExact /\ SolveCountersExact

(* What is announced is complete and unchanged until it has been read.     *)
AnnouncedIsFinal == AggregatesFinal /\ SolveDataFinal

(* A call leaves nothing behind for the next one.                          *)
CleanExit ==
  /\ FactorCleanExit
  /\ \A r \in Rank : call[r] = 2 /\ pc[r] = "end" =>
       /\ graph = {} /\ ready = {} /\ Pending(r) = {} /\ got = <<>>

(* The two calls do not overlap, although no message says which call it    *)
(* belongs to: while a rank looks for the tasks of its messages in         *)
(* Factorize no rank is in Solve, and there is no task or message of it.   *)
PhasesApart ==
  \A r \in Rank : call[r] = 1 /\ pc[r] \notin {"barrier", "end"} =>
    \A s \in Rank : /\ call[s] = 1
                    /\ \A t \in Mine(s, graph \cup ready) : ~IsSolve(t)
                    /\ \A m \in Pending(s) : ~IsSolve(m[2])

(* Factorize and Solve return on every rank.                               *)
Returns == <>Ended
=============================================================================
