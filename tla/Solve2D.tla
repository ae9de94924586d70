------------------------------ MODULE Solve2D ------------------------------
(***************************************************************************)
(* symPACKMatrix2D::Solve on all ranks: the loop of Execution2D over the   *)
(* FUC and BUC tasks, and the contribs slots they compute into.  A rank    *)
(* keeps one slot per supernode.  On the owner of a supernode it becomes   *)
(* the solution; on another rank it gathers what the rank's tasks          *)
(* contribute to it, first in the forward phase, then again in the         *)
(* backward phase.  The last task to contribute announces the slot to the  *)
(* owner, which fetches it and answers with an rpc (deallocRemote) that    *)
(* gives the slot back.  Nothing orders that answer with the second use of *)
(* the slot.                                                               *)
(***************************************************************************)
EXTENDS SolveGraph2D, Execution2D

CONSTANT Quiesce  \* SP_THREADS is defined: Solve sets a quiesceHandle_

ASSUME QuiesceAssumption == Quiesce \in BOOLEAN

VARIABLES
  slots,     \* contribs of each rank
  rightCnt,  \* update_right_cnt of each rank
  upCnt,     \* update_up_cnt of each rank
  toFree,    \* remoteDeallocCounter of each rank
  releases,  \* deallocRemote rpcs on their way, named by the data fetched
  got,       \* extra_data: what each rget brought
  executed   \* tasks executed so far

slotVars == <<slots, rightCnt, upCnt, toFree>>
solveVars == <<slotVars, releases, got, executed>>
vars == <<loopVars, solveVars>>

(* The content of a slot, as far as it matters: how often the right-hand   *)
(* side (term I of supernode I) and the contribution of each other         *)
(* supernode went into it, how many of the two diagonal solves it has been *)
(* through, and whether it has been scaled by D.                           *)
Zero == [terms |-> [K \in Sup |-> 0], solved |-> 0, scaled |-> FALSE]

Plus(v, term) == [v EXCEPT !.terms[term] = @ + 1]

(* forward_update and back_update add all the terms of a message.          *)
Added(K, received) == MapThenSumSet(LAMBDA d : got[d].terms[K], received)

PlusAll(v, received) ==
  [v EXCEPT !.terms = [K \in Sup |-> @[K] + Added(K, received)]]

NoSlot == [there |-> FALSE, counter |-> 0, value |-> Zero]

-----------------------------------------------------------------------------
TargetsOn(t, q) == {e.to : e \in {f \in Edges : f.from = t /\ f.to.rank = q}}

OtherRanks(t) == {e.to.rank : e \in {f \in Edges : f.from = t}} \ {t.rank}

(* An rpc <<t, q>> and the incoming_data_t it makes on rank q.             *)
Rpcs == {m \in Task \X Rank : m[2] \in OtherRanks(m[1])}

Diag(t) == t.row = t.col

(* The supernode whose slot t computes into and announces.                 *)
Goal(t) == IF t.op = "FUC" THEN t.row ELSE t.col

(* The supernode whose slot t reads, and its owner.                        *)
Operand(t)  == IF t.op = "FUC" THEN t.col ELSE t.row
Away(t)     == Home(Goal(t), Goal(t)) # t.rank

(* dep_cnt                                                                 *)
DepCnt(t) == IF t.op = "FUC" THEN RightDeps(t.row, t.rank)
             ELSE UpDeps(t.col, t.rank)

(* The message of a diagonal task counts once for each target, that of a   *)
(* contribution as often as the rank had tasks contributing to it.         *)
Count(m) == IF Diag(m[1]) THEN 1 ELSE DepCnt(m[1])

Inputs(t) ==
  {m \in Rpcs : m[2] = t.rank /\ data[m] # "absent" /\ t \in TargetsOn(m[1], m[2])}

LandedInputs(t) == {m \in Inputs(t) : data[m] = "landed"}

SentSoFar(t) == IF t.op = "FUC" THEN rightCnt[t.rank][t.row]
                ELSE upCnt[t.rank][t.col]

-----------------------------------------------------------------------------
Init ==
  /\ LoopInit(Task, Rpcs, [t \in Task |-> LocalDeps(t)],
              [t \in Task |-> RemoteDeps(t)])
  /\ slots = [r \in Rank |-> [J \in Sup |-> NoSlot]]
  /\ rightCnt = [r \in Rank |-> [J \in Sup |-> 0]]
  /\ upCnt = [r \in Rank |-> [I \in Sup |-> 0]]
  /\ toFree = [r \in Rank |-> 0]
  /\ releases = {}
  /\ got = [m \in Rpcs |-> Zero]
  /\ executed = {}

(* FUC(J, J): the right-hand side and what was received are added to what  *)
(* the rank's own tasks contributed; then the diagonal solve.              *)
ForwardDiag(t, slot) ==
  LET v == PlusAll(Plus(slot.value, t.row), LandedInputs(t))
  IN [slot EXCEPT !.there = TRUE, !.value = [v EXCEPT !.solved = @ + 1]]

(* The first of the rank's tasks to contribute to a supernode of another   *)
(* rank reserves the slot until the owner has fetched it.                  *)
First(t) == Away(t) /\ SentSoFar(t) = 0

(* FUC(J, I): an absent slot is made with zeros.                           *)
ForwardOff(t, slot) ==
  [slot EXCEPT !.there = TRUE,
               !.value = Plus(@, t.col),
               !.counter = @ + (IF First(t) THEN DepCnt(t) ELSE 0)]

(* Slip: the solution is never scaled.                                     *)
NotScaled(v) == v

(* LDL: the first backward task on the owner scales the solution by D.     *)
Scaled(v) == IF LDL /\ ~v.scaled THEN [v EXCEPT !.scaled = TRUE] ELSE v

BackwardDiag(t, slot) ==
  LET v == PlusAll(Scaled(slot.value), LandedInputs(t))
  IN [slot EXCEPT !.value = [v EXCEPT !.solved = @ + 1]]

(* Slip: a slot left from the forward phase is used as it is.              *)
BackwardOffNoFill(t, slot) ==
  IF Away(t)
  THEN [slot EXCEPT !.there = TRUE,
                    !.value = Plus(slot.value, t.row),
                    !.counter = @ + (IF First(t) THEN DepCnt(t) ELSE 0)]
  ELSE [slot EXCEPT !.value = Plus(Scaled(@), t.row)]

(* BUC(J, I) away from the owner: the first one clears the slot.           *)
BackwardOff(t, slot) ==
  IF Away(t)
  THEN [slot EXCEPT !.there = TRUE,
                    !.value = Plus(IF First(t) THEN Zero ELSE @, t.row),
                    !.counter = @ + (IF First(t) THEN DepCnt(t) ELSE 0)]
  ELSE [slot EXCEPT !.value = Plus(Scaled(@), t.row)]

Computed(t, slot) ==
  CASE t.op = "FUC" /\ Diag(t)  -> ForwardDiag(t, slot)
    [] t.op = "FUC" /\ ~Diag(t) -> ForwardOff(t, slot)
    [] t.op = "BUC" /\ Diag(t)  -> BackwardDiag(t, slot)
    [] t.op = "BUC" /\ ~Diag(t) -> BackwardOff(t, slot)

(* Slip: the slot is announced by the first task to contribute.            *)
FirstToSend(t) == SentSoFar(t) = 0

LastToSend(t) == SentSoFar(t) + 1 = DepCnt(t)

Announcements(t) ==
  IF Diag(t) \/ LastToSend(t) THEN {<<t, q>> : q \in OtherRanks(t)} ELSE {}

LocalSignals(t) ==
  LET s == SetToSeq(TargetsOn(t, t.rank))
  IN [i \in DOMAIN s |-> DepLpc(s[i], 1)]

(* The body of a task.                                                     *)
Execute(r, t) ==
  /\ Run(r, t, LocalSignals(t), Announcements(t))
  /\ slots' = [slots EXCEPT ![r][Goal(t)] = Computed(t, @)]
  /\ toFree' = [toFree EXCEPT ![r] =
                  @ + (IF ~Diag(t) /\ First(t) THEN DepCnt(t) ELSE 0)]
  /\ rightCnt' = IF t.op = "FUC" /\ Away(t)
                 THEN [rightCnt EXCEPT ![r][t.row] = @ + 1] ELSE rightCnt
  /\ upCnt' = IF t.op = "BUC" /\ Away(t)
              THEN [upCnt EXCEPT ![r][t.col] = @ + 1] ELSE upCnt
  /\ executed' = executed \cup {t}
  /\ UNCHANGED <<releases, got>>

(* Slip: all the signals are satisfied when the message comes.             *)
ArrivalsAll(m) ==
  LET s == SetToSeq(TargetsOn(m[1], m[2]))
      n == Count(m)
  IN [i \in DOMAIN s |-> AvailLpc(s[i], n)]
       \o (IF n > 1 THEN [i \in DOMAIN s |-> DepLpc(s[i], n)] ELSE <<>>)

(* The rpc handler of a diagonal task tells each target of one input; that *)
(* of a contribution satisfies all but one of the signals it counts for,   *)
(* the last one comes with the data.                                       *)
Arrivals(m) ==
  LET s == SetToSeq(TargetsOn(m[1], m[2]))
      n == Count(m)
  IN [i \in DOMAIN s |-> AvailLpc(s[i], n)]
       \o (IF n > 1 THEN [i \in DOMAIN s |-> DepLpc(s[i], n - 1)] ELSE <<>>)

Deliver(m) ==
  /\ Receive(m, {m}, Arrivals(m))
  /\ UNCHANGED solveVars

(* The rget has brought what the slot held; a contribution is then given   *)
(* back to the rank it came from.                                          *)
Source(m) == slots[m[1].rank][Goal(m[1])]

Land(m) ==
  /\ Arrive(m)
  /\ got' = [got EXCEPT ![m] = Source(m).value]
  /\ releases' = IF Diag(m[1]) THEN releases ELSE releases \cup {m}
  /\ UNCHANGED <<slotVars, executed>>

(* The slot is freed when nothing reserves it any more.                    *)
Released(slot, n) ==
  IF slot.counter = n THEN NoSlot ELSE [slot EXCEPT !.counter = @ - n]

(* The handler of deallocRemote, on the rank the data came from.           *)
Release(m) ==
  LET r == m[1].rank  J == Goal(m[1])  n == DepCnt(m[1]) IN
  /\ InProgress(r) /\ m \in releases
  /\ releases' = releases \ {m}
  /\ slots' = [slots EXCEPT ![r][J] = Released(@, n)]
  /\ toFree' = [toFree EXCEPT ![r] = @ - n]
  /\ UNCHANGED <<loopVars, rightCnt, upCnt, got, executed>>

Fetch(r, t) ==
  /\ Attach(r, t, [m \in Rpcs |-> IF m \in Inputs(t) THEN 1 ELSE 0],
            Cardinality(LandedInputs(t)))
  /\ UNCHANGED solveVars

(* Slip: no wait.                                                          *)
QuietAtOnce(r) ==
  /\ pc[r] = "quiesce"
  /\ pc' = [pc EXCEPT ![r] = "barrier"]
  /\ UNCHANGED <<taskCnt, burst, taskVars, commVars, inbox>>

(* quiesceHandle_: progress until every slot of this rank is given back.   *)
Quiet(r) ==
  /\ pc[r] = "quiesce" /\ toFree[r] = 0
  /\ pc' = [pc EXCEPT ![r] = "barrier"]
  /\ UNCHANGED <<taskCnt, burst, taskVars, commVars, inbox>>

Terminated == Ended /\ UNCHANGED vars

RankStep(r) ==
  \/ \E t \in Task : Execute(r, t)
  \/ \E t \in Task : Fetch(r, t)
  \/ /\ \/ Turn(r, {t \in Task : RemoteDeps(t) > 0})
        \/ LeaveLoop(r, IF Quiesce THEN "quiesce" ELSE "barrier")
        \/ Quiet(r)
     /\ UNCHANGED solveVars

(* What the network and the other ranks bring to r.                        *)
Reached(r) ==
  \E m \in Rpcs :
    \/ m[2] = r /\ (Deliver(m) \/ Land(m))
    \/ m[1].rank = r /\ Release(m)

Next ==
  \/ \E r \in Rank : RankStep(r) \/ Reached(r)
  \/ Terminated

(* Every rank keeps running its loop, and a rank that keeps calling        *)
(* upcxx::progress() while something is on its way to it gets something.   *)
Fairness ==
  /\ \A r \in Rank : WF_vars(RankStep(r))
  /\ \A r \in Rank : SF_vars(Reached(r))

Spec == Init /\ [][Next]_vars
FairSpec == Spec /\ Fairness

-----------------------------------------------------------------------------
(* Properties.                                                             *)

(* Forward and backward substitution are carried out: every block          *)
(* operation once, none before the operations whose results it reads.      *)
S == INSTANCE Substitution WITH applied <-
       {<<t.op, t.row, t.col>> : t \in executed}

SubstitutionSpec == S!Spec

(* The assertions of satisfy_dep and avail_dep hold with counted signals,  *)
(* and no task is executed twice or before its last signal.                *)
CountersExact == CountersSound(executed)

(* What the forward phase leaves of supernode I, and the solution of I.    *)
Y(I) == [terms |-> [K \in Sup |-> IF K = I \/ I \in Struct[K] THEN 1 ELSE 0],
         solved |-> 1, scaled |-> FALSE]
X(I) == [terms |-> [K \in Sup |-> IF \/ K = I \/ I \in Struct[K]
                                    \/ K \in Struct[I] THEN 1 ELSE 0],
         solved |-> 2, scaled |-> LDL]

(* A task multiplies its cell with a finished vector, whether it reads the *)
(* slot of its rank or the copy it was sent.                               *)
ReadsFinal ==
  \A t \in ready :
    ~Diag(t) =>
      LET I == Operand(t)
          expected == IF t.op = "FUC" THEN Y(I) ELSE X(I)
      IN IF Home(I, I) = t.rank
         THEN slots[t.rank][I].there /\ slots[t.rank][I].value = expected
         ELSE \E m \in LandedInputs(t) :
                got[m] = expected /\ \A n \in Inputs(t) : n = m

(* From the announcement of a slot to the end of the rget that reads it,   *)
(* nobody writes or frees it.                                              *)
Exposed(m) == m \in net \/ data[m] = "fetching"

NoWriteUnderFetch ==
  [][\A m \in Rpcs :
       Exposed(m) =>
         LET slot == slots[m[1].rank][Goal(m[1])]
             slotAfter == slots'[m[1].rank][Goal(m[1])]
         IN slot.there /\ slotAfter.there /\ slotAfter.value = slot.value]_vars

(* A rank that leaves Solve holds the solution of its supernodes, each     *)
(* contribution and the right-hand side in it exactly once.                *)
SolutionExact ==
  \A r \in Rank : pc[r] = "end" =>
    /\ S!Solved /\ net = {} /\ inbox[r] = <<>>
    /\ \A I \in Sup : Home(I, I) = r =>
         slots[r][I].there /\ slots[r][I].value = X(I)

(* With a quiesce handle, a rank that leaves Solve has got back every slot *)
(* it lent, so that the next Solve may clear them.                         *)
NothingOwed ==
  \A r \in Rank : pc[r] = "end" =>
    /\ toFree[r] = 0
    /\ \A m \in releases : m[1].rank # r
    /\ \A I \in Sup : Home(I, I) # r => slots[r][I] = NoSlot

(* Solve returns on every rank.                                            *)
Returns == <>Ended
=============================================================================
