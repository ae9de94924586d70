------------------------ MODULE ThreadedSolve_proofs ------------------------
(***************************************************************************)
(* For any number of workers, tasks and slots, two workers never compute   *)
(* in one slot, and what a slot announces first in the forward phase is    *)
(* complete.                                                               *)
(***************************************************************************)
EXTENDS ThreadedSolve, FiniteSetTheorems, TLAPS

States == {"waiting", "delayed", "ready", "running", "reported", "done"}
InSlot == {"make", "clear?", "clear", "reserve?", "toFree", "load counter",
           "counter", "compute"}
Places == {"idle", "count", "add", "last?"} \cup InSlot

TypeOK ==
  /\ state \in [Task -> States]
  /\ locked \in [Slot -> BOOLEAN]
  /\ at \in [Worker -> Places]
  /\ doing \in [Worker -> Task \cup {Nobody}]

(* A worker that is not idle has a running task, which no other has.       *)
HoldsTask ==
  \A w \in Worker :
    /\ at[w] # "idle" => doing[w] \in Task /\ state[doing[w]] = "running"
    /\ at[w] = "idle" => doing[w] = Nobody
    /\ \A v \in Worker : doing[v] = doing[w] /\ doing[w] # Nobody => v = w

(* The tasks the flag of their slot was taken for and not cleared.         *)
Holder(t) ==
  \/ state[t] = "ready"
  \/ \E w \in Worker : doing[w] = t /\ at[w] \in InSlot

FlagHeld ==
  Locking =>
    /\ \A t \in Task : Holder(t) => locked[SlotOf[t]]
    /\ \A t, u \in Task :
         Holder(t) /\ Holder(u) /\ SlotOf[t] = SlotOf[u] => t = u

Inv == TypeOK /\ HoldsTask /\ FlagHeld

LEMMA InitInv == Init => Inv
<1> SUFFICES ASSUME Init PROVE Inv OBVIOUS
<1> USE TasksAssumption
<1>1. TypeOK BY DEF Init, TypeOK, States, Places
<1>2. HoldsTask BY DEF Init, HoldsTask
<1>3. \A t \in Task : ~Holder(t) BY DEF Init, Holder, InSlot
<1>4. FlagHeld BY <1>3 DEF FlagHeld
<1> QED BY <1>1, <1>2, <1>4 DEF Inv

(* The steps of a worker that stays in its slot, or stays out of it.       *)
LEMMA MovesOn ==
  ASSUME Inv, NEW w \in Worker, NEW place \in Places, at[w] # "idle",
         place # "idle", at' = [at EXCEPT ![w] = place],
         place \in InSlot => at[w] \in InSlot,
         UNCHANGED <<state, doing, locked>>,
         at[w] \in InSlot => place \in InSlot
  PROVE  Inv'
<1> USE TasksAssumption DEF Inv
<1>1. TypeOK' BY DEF TypeOK
<1>2. HoldsTask' BY DEF TypeOK, HoldsTask
<1>3. \A t \in Task : Holder(t)' <=> Holder(t)
  BY DEF TypeOK, Holder
<1>4. FlagHeld' BY <1>3 DEF FlagHeld, Locking
<1> QED BY <1>1, <1>2, <1>4

(* A task becomes ready with the flag of its slot.                         *)
LEMMA BecomesReady ==
  ASSUME Inv, NEW t \in Task, NEW S \in SUBSET Task,
         TakeLock(t), state[t] \in {"waiting", "delayed"},
         state' \in [Task -> States], state'[t] = "ready",
         \A u \in Task \ {t} : /\ state'[u] = "ready" => state[u] = "ready"
                               /\ state[u] = "running" => state'[u] = "running",
         UNCHANGED <<at, doing>>
  PROVE  Inv'
<1> USE TasksAssumption DEF Inv
<1>1. TypeOK' BY DEF TypeOK, TakeLock
<1>2. HoldsTask' BY DEF TypeOK, HoldsTask
<1>3. \A u \in Task \ {t} : Holder(u)' => Holder(u) BY DEF Holder
<1>4. ASSUME Locking PROVE FlagHeld'
  <2>1. locked' = [locked EXCEPT ![SlotOf[t]] = TRUE] /\ ~locked[SlotOf[t]]
    BY <1>4 DEF TakeLock
  <2>2. \A u \in Task \ {t} : Holder(u)' => SlotOf[u] # SlotOf[t]
    BY <1>3, <1>4, <2>1 DEF FlagHeld
  <2>3. \A u \in Task : Holder(u)' => locked'[SlotOf[u]]
    BY <1>3, <1>4, <2>1 DEF FlagHeld, TypeOK
  <2>4. \A u, v \in Task :
          Holder(u)' /\ Holder(v)' /\ SlotOf[u] = SlotOf[v] => u = v
    BY <1>3, <1>4, <2>2 DEF FlagHeld
  <2> QED BY <2>3, <2>4 DEF FlagHeld, Locking
<1>5. FlagHeld' BY <1>4 DEF FlagHeld, Locking
<1> QED BY <1>1, <1>2, <1>5

LEMMA ActivateInv == ASSUME Inv, NEW t \in Task, Activate(t) PROVE Inv'
<1> USE TasksAssumption DEF Inv
<1>1. state[t] = "waiting" /\ UNCHANGED <<at, doing>> BY DEF Activate
<1>2. CASE Delays(t)
  <2>1. state' = [state EXCEPT ![t] = "delayed"] /\ UNCHANGED locked
    BY <1>2 DEF Activate
  <2>2. TypeOK' BY <1>1, <2>1 DEF TypeOK, States
  <2>3. HoldsTask' BY <1>1, <2>1 DEF TypeOK, HoldsTask
  <2>4. \A u \in Task : Holder(u)' => Holder(u)
    BY <1>1, <2>1 DEF Holder, TypeOK
  <2>5. FlagHeld' BY <2>1, <2>4 DEF FlagHeld, Locking
  <2> QED BY <2>2, <2>3, <2>5
<1>3. CASE ~Delays(t)
  <2>1. state' = [state EXCEPT ![t] = "ready"] /\ TakeLock(t)
    BY <1>3 DEF Activate
  <2>2. /\ state' \in [Task -> States] /\ state'[t] = "ready"
        /\ \A u \in Task \ {t} : state'[u] = state[u]
    BY <2>1 DEF TypeOK, States
  <2> QED BY <1>1, <2>1, <2>2, BecomesReady
<1> QED BY <1>2, <1>3

LEMMA HandleReportInv ==
  ASSUME Inv, NEW t \in Task, HandleReport(t) PROVE Inv'
<1> USE TasksAssumption DEF Inv
<1> DEFINE waiting == {d \in Task : state[d] = "delayed" /\ SlotOf[d] = SlotOf[t]}
<1>1. state[t] = "reported" /\ UNCHANGED <<at, doing>> BY DEF HandleReport
<1>2. CASE waiting = {} \/ Delays(t)
  <2>1. state' = [state EXCEPT ![t] = "done"] /\ UNCHANGED locked
    BY <1>2 DEF HandleReport
  <2>2. TypeOK' BY <1>1, <2>1 DEF TypeOK, States
  <2>3. HoldsTask' BY <1>1, <2>1 DEF TypeOK, HoldsTask
  <2>4. \A u \in Task : Holder(u)' => Holder(u)
    BY <1>1, <2>1 DEF Holder, TypeOK
  <2>5. FlagHeld' BY <2>1, <2>4 DEF FlagHeld, Locking
  <2> QED BY <2>2, <2>3, <2>5
<1>3. CASE ~(waiting = {} \/ Delays(t))
  <2>1. PICK d \in waiting :
          TakeLock(d) /\ state' = [state EXCEPT ![t] = "done", ![d] = "ready"]
    BY <1>3 DEF HandleReport
  <2>2. d \in Task /\ state[d] = "delayed" OBVIOUS
  <2>3. /\ state' \in [Task -> States] /\ state'[d] = "ready"
        /\ \A u \in Task \ {d} : state'[u] = IF u = t THEN "done" ELSE state[u]
    BY <1>1, <2>1, <2>2 DEF TypeOK, States
  <2>4. \A u \in Task \ {d} : /\ state'[u] = "ready" => state[u] = "ready"
                              /\ state[u] = "running" => state'[u] = "running"
    BY <1>1, <2>3
  <2> QED BY <1>1, <2>1, <2>2, <2>3, <2>4, BecomesReady
<1> QED BY <1>2, <1>3

LEMMA BeginInv ==
  ASSUME Inv, NEW w \in Worker, NEW t \in Task, Begin(w, t) PROVE Inv'
<1> USE TasksAssumption DEF Inv
<1> DEFINE place == IF t \in Fuc THEN "make" ELSE "clear?"
<1>1. /\ at[w] = "idle" /\ state[t] = "ready" /\ UNCHANGED locked
      /\ state' = [state EXCEPT ![t] = "running"]
      /\ doing' = [doing EXCEPT ![w] = t]
      /\ at' = [at EXCEPT ![w] = place]
  BY DEF Begin, Goto
<1>2. place \in InSlot /\ place # "idle" BY DEF InSlot
<1> HIDE DEF place
<1>3. TypeOK' BY <1>1, <1>2 DEF TypeOK, States, Places
<1>4. \A v \in Worker : doing[v] # t
  BY <1>1 DEF HoldsTask, TypeOK
<1>5. HoldsTask' BY <1>1, <1>2, <1>4 DEF TypeOK, HoldsTask
<1>6. \A u \in Task : Holder(u)' => Holder(u)
  BY <1>1, <1>2 DEF TypeOK, Holder
<1>7. FlagHeld' BY <1>1, <1>6 DEF FlagHeld, Locking
<1> QED BY <1>3, <1>5, <1>7

LEMMA ComputeInv == ASSUME Inv, NEW w \in Worker, Compute(w) PROVE Inv'
<1> USE TasksAssumption DEF Inv
<1> DEFINE t == doing[w]
<1>1. /\ at[w] = "compute" /\ UNCHANGED <<state, doing>>
      /\ locked' = IF Locking THEN [locked EXCEPT ![SlotOf[t]] = FALSE] ELSE locked
      /\ at' = [at EXCEPT ![w] = "count"]
  BY DEF Compute, Goto
<1>2. t \in Task /\ state[t] = "running" BY <1>1 DEF HoldsTask
<1>3. Holder(t) BY <1>1, <1>2 DEF Holder, InSlot
<1>4. TypeOK' BY <1>1, <1>2 DEF TypeOK, Places
<1>5. HoldsTask' BY <1>1 DEF TypeOK, HoldsTask
<1>6. ~Holder(t)'
  <2>1. state'[t] # "ready" BY <1>1, <1>2
  <2>2. \A v \in Worker : doing'[v] = t => v = w
    BY <1>1, <1>2 DEF HoldsTask, TypeOK
  <2>3. at'[w] \notin InSlot BY <1>1 DEF TypeOK, InSlot
  <2>4. t' = t BY <1>1
  <2> HIDE DEF t
  <2> QED BY <2>1, <2>2, <2>3, <2>4 DEF Holder
<1>7. \A u \in Task : Holder(u)' => Holder(u) /\ u # t
  <2>1. \A u \in Task : Holder(u)' => Holder(u)
    BY <1>1 DEF TypeOK, Holder, InSlot
  <2>2. t' = t BY <1>1
  <2> HIDE DEF t
  <2> QED BY <1>6, <2>1, <2>2
<1>8. ASSUME Locking PROVE FlagHeld'
  <2>1. \A u \in Task : Holder(u)' => SlotOf[u] # SlotOf[t]
    BY <1>2, <1>3, <1>7, <1>8 DEF FlagHeld
  <2>2. \A u \in Task : Holder(u)' => locked'[SlotOf[u]]
    BY <1>1, <1>2, <1>7, <1>8, <2>1 DEF FlagHeld, TypeOK
  <2>3. \A u, v \in Task :
          Holder(u)' /\ Holder(v)' /\ SlotOf[u] = SlotOf[v] => u = v
    BY <1>7, <1>8 DEF FlagHeld
  <2> QED BY <2>2, <2>3 DEF FlagHeld, Locking
<1>9. FlagHeld' BY <1>8 DEF FlagHeld, Locking
<1> QED BY <1>4, <1>5, <1>9

LEMMA FinishInv == ASSUME Inv, NEW w \in Worker, Finish(w) PROVE Inv'
<1> USE TasksAssumption DEF Inv
<1> DEFINE t == doing[w]
<1>1. /\ at[w] = "last?" /\ UNCHANGED locked
      /\ state' = [state EXCEPT ![t] = "reported"]
      /\ doing' = [doing EXCEPT ![w] = Nobody]
      /\ at' = [at EXCEPT ![w] = "idle"]
  BY DEF Finish, Goto
<1>2. t \in Task /\ state[t] = "running" BY <1>1 DEF HoldsTask
<1>3. TypeOK' BY <1>1, <1>2 DEF TypeOK, States, Places
<1>4. \A v \in Worker \ {w} : doing[v] # t BY <1>2 DEF HoldsTask
<1> HIDE DEF t
<1>5. HoldsTask' BY <1>1, <1>2, <1>4 DEF TypeOK, HoldsTask
<1>6. \A u \in Task : Holder(u)' => Holder(u)
  BY <1>1, <1>2 DEF TypeOK, Holder, InSlot
<1>7. FlagHeld' BY <1>1, <1>6 DEF FlagHeld, Locking
<1> QED BY <1>3, <1>5, <1>7

(* The other steps of a worker move it on.                                 *)
LEMMA WorkerInv == ASSUME Inv, NEW w \in Worker, WorkerStep(w) PROVE Inv'
<1> USE DEF Goto
<1>1. ASSUME NEW t \in Task, Begin(w, t) PROVE Inv' BY <1>1, BeginInv
<1>2. CASE Make(w)
  BY <1>2, MovesOn DEF Make, InSlot, Places
<1>3. CASE TestClear(w)
  BY <1>3, MovesOn DEF TestClear, InSlot, Places
<1>4. CASE Clear(w)
  BY <1>4, MovesOn DEF Clear, InSlot, Places
<1>5. CASE TestReserve(w)
  <2>1. /\ at[w] = "reserve?" /\ UNCHANGED <<state, locked, doing>>
        /\ \/ at' = [at EXCEPT ![w] = "toFree"]
           \/ at' = [at EXCEPT ![w] = "compute"]
    BY <1>5 DEF TestReserve
  <2> QED BY <2>1, MovesOn DEF InSlot, Places
<1>6. CASE AddToFree(w)
  BY <1>6, MovesOn DEF AddToFree, InSlot, Places
<1>7. CASE LoadReserved(w)
  BY <1>7, MovesOn DEF LoadReserved, InSlot, Places
<1>8. CASE Reserve(w)
  BY <1>8, MovesOn DEF Reserve, InSlot, Places
<1>9. CASE Compute(w) BY <1>9, ComputeInv
<1>10. CASE LoadSent(w)
  BY <1>10, MovesOn DEF LoadSent, InSlot, Places
<1>11. CASE StoreSent(w)
  BY <1>11, MovesOn DEF StoreSent, InSlot, Places
<1>12. CASE Finish(w) BY <1>12, FinishInv
<1> QED
  BY <1>1, <1>2, <1>3, <1>4, <1>5, <1>6, <1>7, <1>8, <1>9, <1>10, <1>11, <1>12
     DEF WorkerStep

(* The master's other steps and the owner touch none of these.             *)
LEMMA StutterInv ==
  ASSUME Inv, UNCHANGED <<state, locked, at, doing>> PROVE Inv'
<1>1. TypeOK' BY DEF Inv, TypeOK
<1>2. HoldsTask' BY DEF Inv, HoldsTask
<1>3. FlagHeld' BY DEF Inv, FlagHeld, Holder, Locking
<1> QED BY <1>1, <1>2, <1>3 DEF Inv

LEMMA NextInv == Inv /\ [Next]_vars => Inv'
<1> SUFFICES ASSUME Inv, [Next]_vars PROVE Inv' OBVIOUS
<1>1. CASE MasterStep
  <2>1. ASSUME NEW t \in Task, Activate(t) PROVE Inv' BY <2>1, ActivateInv
  <2>2. ASSUME NEW t \in Task, HandleReport(t) PROVE Inv'
    BY <2>2, HandleReportInv
  <2>3. ASSUME NEW u \in Uses, LoadCounter(u) PROVE Inv'
    BY <2>3, StutterInv DEF LoadCounter
  <2>4. CASE StoreCounter BY <2>4, StutterInv DEF StoreCounter
  <2>5. CASE ResetSlot BY <2>5, StutterInv DEF ResetSlot
  <2>6. CASE LoadToFree BY <2>6, StutterInv DEF LoadToFree
  <2>7. CASE StoreToFree BY <2>7, StutterInv DEF StoreToFree
  <2> QED BY <1>1, <2>1, <2>2, <2>3, <2>4, <2>5, <2>6, <2>7 DEF MasterStep
<1>2. ASSUME NEW w \in Worker, WorkerStep(w) PROVE Inv' BY <1>2, WorkerInv
<1>3. ASSUME NEW u \in Uses, Fetch(u) PROVE Inv'
  BY <1>3, StutterInv DEF Fetch
<1>4. CASE Terminated BY <1>4, StutterInv DEF Terminated, vars
<1>5. CASE UNCHANGED vars BY <1>5, StutterInv DEF vars
<1> QED BY <1>1, <1>2, <1>3, <1>4, <1>5 DEF Next

(* A set without two different elements has at most one.                   *)
LEMMA AtMostOne ==
  ASSUME NEW S, \A x, y \in S : x = y PROVE Cardinality(S) <= 1
<1>1. CASE S = {} BY <1>1, FS_EmptySet
<1>2. CASE S # {}
  <2>1. PICK x : x \in S BY <1>2
  <2>2. S = {x} BY <2>1
  <2> QED BY <2>2, FS_Singleton
<1> QED BY <1>1, <1>2

LEMMA InvExclusive == Inv => SlotExclusive
<1> SUFFICES ASSUME Inv, NEW J \in Slot
             PROVE  Cardinality({w \in Worker : Computing(w, J)}) <= 1
  BY DEF SlotExclusive
<1> USE TasksAssumption
<1> DEFINE inside == {w \in Worker : Computing(w, J)}
<1>1. CASE Locking
  <2>1. \A w \in inside : doing[w] \in Task /\ SlotOf[doing[w]] = J
                         /\ Holder(doing[w])
    BY DEF Inv, TypeOK, Computing, Holder, Places
  <2>2. \A v, w \in inside : doing[v] = doing[w]
    BY <1>1, <2>1 DEF Inv, FlagHeld
  <2>3. \A v, w \in inside : v = w
    BY <2>2 DEF Inv, HoldsTask, Computing
  <2> QED BY <2>3, AtMostOne
<1>2. CASE ~Locking
  <2>1. IsFiniteSet(Worker) /\ inside \subseteq Worker OBVIOUS
  <2>2. /\ Cardinality(inside) \in Nat /\ Cardinality(Worker) \in Nat
        /\ Cardinality(inside) <= Cardinality(Worker)
    BY <2>1, FS_Subset, FS_CardinalityType
  <2> QED BY <1>2, <2>2 DEF Locking
<1> QED BY <1>1, <1>2

(* Two workers never compute in one slot, whatever the number of workers.  *)
THEOREM SlotsExclusive == Spec => []SlotExclusive
<1>1. Spec => []Inv BY InitInv, NextInv, PTL DEF Spec
<1> QED BY <1>1, InvExclusive, PTL
-----------------------------------------------------------------------------
(* What a slot holds when it is announced.                                 *)
Adding == {"count", "add", "last?"}

(* The tasks whose contribution has been added, and those whose increment  *)
(* of the count has been stored.                                           *)
Added ==
  {t \in Task : \/ state[t] \in {"reported", "done"}
                \/ \E w \in Worker : doing[w] = t /\ at[w] \in Adding}
Counted ==
  {t \in Task : \/ state[t] \in {"reported", "done"}
                \/ \E w \in Worker : doing[w] = t /\ at[w] = "last?"}
InUse(tasks, u) == {t \in tasks : Use(t) = u}

(* An increment may be lost, but a count never exceeds the number of tasks *)
(* that have counted themselves.                                           *)
CountsBounded ==
  /\ \A u \in Uses : sent[u] \in Int /\ sent[u] <= Cardinality(InUse(Counted, u))
  /\ \A w \in Worker : at[w] = "add" =>
       reg[w] \in Int /\ reg[w] <= Cardinality(InUse(Counted, Use(doing[w])))

Master == {"progress", "counter", "reset", "assert", "free"}

ValuesOK ==
  /\ there \in [Slot -> BOOLEAN] /\ content \in [Slot -> SUBSET Task]
  /\ sent \in [Uses -> Int] /\ reg \in [Worker -> Int]
  /\ announced \in [Uses -> Nat] /\ releases \in [Uses -> Nat]
  /\ availCnt \in [Uses -> Int]
  /\ \A u \in Uses : availCnt[u] <= DepCnt(u)
  /\ \A u \in Uses : announced[u] > 0 => Group(u) # {}
  /\ toFree \in Int /\ counter \in [Slot -> Int] /\ mreg \in Int
  /\ mat \in Master /\ (mat # "progress" => mslot \in Uses)
  /\ \A w \in Worker : at[w] \in {"clear?", "clear"} => doing[w] \notin Fuc

(* The owner has not fetched what the forward phase contributes to J.      *)
Open(J) ==
  /\ Group(<<"forward", J>>) # {}
  /\ availCnt[<<"forward", J>>] = DepCnt(<<"forward", J>>)

(* Until then the slot is used by the forward phase only, it holds what    *)
(* has been added, and it is not announced before everything is.           *)
ForwardOnly(J) ==
  /\ \A t \in Task \ Fuc : SlotOf[t] = J => state[t] = "waiting"
  /\ announced[<<"backward", J>>] = 0
  /\ \A u \in Uses : u[2] = J => releases[u] = 0
  /\ mat # "progress" => mslot[2] # J
  /\ content[J] = {t \in Added : SlotOf[t] = J}
  /\ content[J] # {} => there[J]
  /\ announced[<<"forward", J>>] > 0 => Group(<<"forward", J>>) \subseteq Counted

SlotInv == \A J \in Slot : Open(J) => ForwardOnly(J)

ForwardInv == Inv /\ ValuesOK /\ CountsBounded /\ SlotInv

LEMMA UseType ==
  /\ \A t \in Task : Use(t) \in Uses /\ Use(t)[2] = SlotOf[t]
  /\ \A t \in Task : Use(t)[1] = "forward" <=> t \in Fuc
  /\ \A J \in Slot : <<"forward", J>> \in Uses /\ <<"backward", J>> \in Uses
BY TasksAssumption DEF Use, Uses, Phase

LEMMA GroupFinite ==
  ASSUME NEW u \in Uses
  PROVE  /\ IsFiniteSet(Group(u)) /\ DepCnt(u) \in Nat
         /\ IsFiniteSet(InUse(Counted, u)) /\ Cardinality(InUse(Counted, u)) \in Nat
         /\ InUse(Counted, u) \subseteq Group(u)
         /\ Cardinality(InUse(Counted, u)) <= DepCnt(u)
         /\ DepCnt(u) = 0 <=> Group(u) = {}
<1>1. Group(u) \subseteq Task /\ InUse(Counted, u) \subseteq Group(u)
  BY DEF Group, InUse, Counted
<1> QED
  BY <1>1, TasksAssumption, FS_Subset, FS_CardinalityType, FS_EmptySet DEF DepCnt

LEMMA ForwardInit == Init => ValuesOK /\ CountsBounded /\ SlotInv
<1> SUFFICES ASSUME Init PROVE ValuesOK /\ CountsBounded /\ SlotInv OBVIOUS
<1> USE TasksAssumption
<1>1. \A u \in Uses : DepCnt(u) \in Int BY GroupFinite
<1>2. ValuesOK BY <1>1 DEF Init, ValuesOK, Master
<1>3. Added = {} /\ Counted = {} BY DEF Init, Added, Counted, Adding
<1>4. CountsBounded BY GroupFinite DEF Init, CountsBounded
<1>5. SlotInv BY <1>3, UseType DEF Init, SlotInv, ForwardOnly
<1> QED BY <1>2, <1>4, <1>5

(* The bounds on counts survive when no task leaves those counted.         *)
LEMMA CountsKept ==
  ASSUME ValuesOK, CountsBounded, Counted \subseteq Counted', sent' = sent,
         \A w \in Worker : at'[w] = "add" =>
           \/ at[w] = "add" /\ reg'[w] = reg[w] /\ doing'[w] = doing[w]
           \/ Use(doing'[w]) \in Uses /\ reg'[w] = sent[Use(doing'[w])],
         \A w \in Worker : at[w] = "add" => Use(doing[w]) \in Uses
  PROVE  CountsBounded'
<1>1. ASSUME NEW u \in Uses
      PROVE  /\ Cardinality(InUse(Counted, u)) \in Nat
             /\ Cardinality(InUse(Counted', u)) \in Nat
             /\ Cardinality(InUse(Counted, u)) <= Cardinality(InUse(Counted', u))
  <2>1. InUse(Counted, u) \subseteq InUse(Counted', u) BY DEF InUse
  <2>2. InUse(Counted', u) \subseteq Task BY DEF InUse, Counted
  <2> QED BY <2>1, <2>2, TasksAssumption, FS_Subset, FS_CardinalityType
<1>2. ASSUME NEW u \in Uses
      PROVE  sent'[u] \in Int /\ sent'[u] <= Cardinality(InUse(Counted', u))
  BY <1>1, <1>2 DEF CountsBounded
<1>3. ASSUME NEW w \in Worker, at'[w] = "add"
      PROVE  reg'[w] \in Int /\ reg'[w] <= Cardinality(InUse(Counted', Use(doing'[w])))
  <2>1. CASE at[w] = "add" /\ reg'[w] = reg[w] /\ doing'[w] = doing[w]
    <3>1. Use(doing[w]) \in Uses BY <2>1
    <3>2. reg[w] \in Int /\ reg[w] <= Cardinality(InUse(Counted, Use(doing[w])))
      BY <2>1 DEF CountsBounded
    <3>3. InUse(Counted', Use(doing'[w])) = InUse(Counted', Use(doing[w]))
      BY <2>1 DEF InUse
    <3> QED BY <1>1, <2>1, <3>1, <3>2, <3>3
  <2>2. CASE Use(doing'[w]) \in Uses /\ reg'[w] = sent[Use(doing'[w])]
    BY <1>1, <1>2, <2>2
  <2> QED BY <1>3, <2>1, <2>2
<1> QED
  <2>1. \A u \in Uses : sent'[u] \in Int /\ sent'[u] <= Cardinality(InUse(Counted', u))
    BY <1>2
  <2>2. \A w \in Worker : at'[w] = "add" =>
          reg'[w] \in Int /\ reg'[w] <= Cardinality(InUse(Counted', Use(doing'[w])))
    BY <1>3
  <2> QED BY <2>1, <2>2 DEF CountsBounded

(* The slots survive a step of another slot, or one that keeps what is     *)
(* said of this one.                                                       *)
LEMMA StaysOpen ==
  ASSUME ValuesOK, availCnt' = availCnt, NEW J \in Slot, Open(J)'
  PROVE  Open(J)
BY DEF Open

(* Steps of the master that leave the slots alone, and steps of a worker   *)
(* that neither add nor count.                                             *)
LEMMA SlotsKept ==
  ASSUME SlotInv, ValuesOK, availCnt' = availCnt, content' = content, there' = there,
         announced' = announced, releases' = releases, Added' = Added,
         Counted \subseteq Counted',
         \A J \in Slot : Open(J) =>
           /\ mat' # "progress" => mslot'[2] # J
           /\ \A t \in Task \ Fuc : SlotOf[t] = J => state'[t] = "waiting"
  PROVE  SlotInv'
<1> SUFFICES ASSUME NEW J \in Slot, Open(J)' PROVE ForwardOnly(J)'
  BY DEF SlotInv
<1>1. Open(J) /\ ForwardOnly(J) BY StaysOpen DEF SlotInv
<1> QED BY <1>1 DEF ForwardOnly

(* What a step that leaves the tasks in their places keeps.                *)
LEMMA PlacesKept ==
  ASSUME UNCHANGED <<state, doing, at>>
  PROVE  Added' = Added /\ Counted' = Counted
BY DEF Added, Counted, Adding

LEMMA UseOfAdd ==
  ASSUME Inv PROVE \A w \in Worker : at[w] = "add" => Use(doing[w]) \in Uses
BY UseType DEF Inv, HoldsTask, TypeOK

LEMMA ActivateForward ==
  ASSUME ForwardInv, NEW t \in Task, Activate(t) PROVE (ValuesOK /\ CountsBounded /\ SlotInv)'
<1> USE DEF ForwardInv
<1>1. /\ state[t] = "waiting" /\ mat = "progress" /\ Enabled(t)
      /\ \/ state' = [state EXCEPT ![t] = "delayed"]
         \/ state' = [state EXCEPT ![t] = "ready"]
      /\ UNCHANGED <<at, doing, reg, slotVars, sent, netVars, masterVars>>
  BY DEF Activate
<1>2. state \in [Task -> States] BY DEF Inv, TypeOK
<1>3. Added' = Added /\ Counted' = Counted
  BY <1>1, <1>2 DEF Added, Counted
<1>4. ValuesOK' BY <1>1 DEF ValuesOK, slotVars, netVars, masterVars
<1>5. CountsBounded' BY <1>1, <1>3, CountsKept, UseOfAdd
<1>6. ASSUME NEW J \in Slot, Open(J), t \notin Fuc PROVE SlotOf[t] # J
  <2>1. DepCnt(<<"forward", J>>) \in Nat \ {0}
    BY <1>6, GroupFinite, UseType DEF Open
  <2> QED BY <1>1, <1>6, <2>1 DEF Enabled, Open
<1>7. SlotInv'
  <2>1. ASSUME NEW J \in Slot, Open(J)
        PROVE  /\ mat' # "progress" => mslot'[2] # J
               /\ \A s \in Task \ Fuc : SlotOf[s] = J => state'[s] = "waiting"
    <3>1. ForwardOnly(J) BY <2>1 DEF SlotInv
    <3> QED BY <1>1, <1>2, <1>6, <2>1, <3>1 DEF ForwardOnly, masterVars
  <2> QED BY <1>1, <1>3, <2>1, SlotsKept DEF slotVars, netVars
<1> QED BY <1>4, <1>5, <1>7

LEMMA ReportForward ==
  ASSUME ForwardInv, NEW t \in Task, HandleReport(t)
  PROVE  (ValuesOK /\ CountsBounded /\ SlotInv)'
<1> USE DEF ForwardInv
<1>1. /\ state[t] = "reported" /\ mat = "progress"
      /\ UNCHANGED <<at, doing, reg, slotVars, sent, netVars, masterVars>>
      /\ \/ state' = [state EXCEPT ![t] = "done"]
         \/ \E d \in Task : state[d] = "delayed"
                            /\ state' = [state EXCEPT ![t] = "done", ![d] = "ready"]
  BY DEF HandleReport
<1>2. state \in [Task -> States] BY DEF Inv, TypeOK
<1> DEFINE Same == /\ \A s \in Task : state'[s] \in {"reported", "done"}
                                      <=> state[s] \in {"reported", "done"}
                   /\ \A s \in Task : state[s] = "waiting" => state'[s] = "waiting"
<1>3. Same
  <2>1. CASE state' = [state EXCEPT ![t] = "done"] BY <1>1, <1>2, <2>1
  <2>2. ASSUME NEW d \in Task, state[d] = "delayed",
               state' = [state EXCEPT ![t] = "done", ![d] = "ready"]
        PROVE Same
    BY <1>1, <1>2, <2>2
  <2> QED BY <1>1, <2>1, <2>2
<1>4. Added' = Added /\ Counted' = Counted
  BY <1>1, <1>3 DEF Added, Counted
<1>5. ValuesOK' BY <1>1 DEF ValuesOK, slotVars, netVars, masterVars
<1>6. CountsBounded' BY <1>1, <1>4, CountsKept, UseOfAdd
<1>7. SlotInv'
  <2>1. ASSUME NEW J \in Slot, Open(J)
        PROVE  /\ mat' # "progress" => mslot'[2] # J
               /\ \A s \in Task \ Fuc : SlotOf[s] = J => state'[s] = "waiting"
    <3>1. ForwardOnly(J) BY <2>1 DEF SlotInv
    <3> QED BY <1>1, <1>3, <3>1 DEF ForwardOnly, masterVars
  <2> QED BY <1>1, <1>4, <2>1, SlotsKept DEF slotVars, netVars
<1> QED BY <1>5, <1>6, <1>7

(* The master inside deallocRemote.                                        *)
LEMMA MasterForward ==
  ASSUME ForwardInv,
         \/ \E u \in Uses : LoadCounter(u)
         \/ StoreCounter \/ ResetSlot \/ LoadToFree \/ StoreToFree
  PROVE  (ValuesOK /\ CountsBounded /\ SlotInv)'
<1> USE DEF ForwardInv
<1>1. /\ UNCHANGED <<state, at, doing, reg, sent, announced, availCnt>>
  BY DEF LoadCounter, StoreCounter, ResetSlot, LoadToFree, StoreToFree, netVars
<1>2. Added' = Added /\ Counted' = Counted BY <1>1, PlacesKept
<1>3. CountsBounded' BY <1>1, <1>2, CountsKept, UseOfAdd
<1>4. \A u \in Uses : u[2] \in Slot /\ DepCnt(u) \in Nat
  BY GroupFinite DEF Uses
<1>5. ASSUME NEW u \in Uses, LoadCounter(u) PROVE (ValuesOK /\ SlotInv)'
  <2>1. /\ releases[u] > 0 /\ releases' = [releases EXCEPT ![u] = @ - 1]
        /\ mslot' = u /\ mreg' = counter[u[2]] /\ mat' = "counter"
        /\ UNCHANGED <<slotVars, announced, availCnt>>
    BY <1>5 DEF LoadCounter
  <2>2. ValuesOK' BY <1>1, <1>4, <2>1 DEF ValuesOK, Master, slotVars
  <2>3. SlotInv'
    <3> SUFFICES ASSUME NEW J \in Slot, Open(J)' PROVE ForwardOnly(J)'
      BY DEF SlotInv
    <3>1. Open(J) /\ ForwardOnly(J) BY <1>1, StaysOpen DEF SlotInv
    <3>2. u[2] # J BY <2>1, <3>1 DEF ForwardOnly
    <3>3. \A v \in Uses : v[2] = J => releases'[v] = 0
      BY <2>1, <3>1, <3>2 DEF ForwardOnly, ValuesOK
    <3> QED BY <1>1, <1>2, <2>1, <3>1, <3>2, <3>3 DEF ForwardOnly, slotVars
  <2> QED BY <2>2, <2>3
<1>6. CASE StoreCounter
  <2>1. /\ mat = "counter" /\ mat' \in {"reset", "assert"}
        /\ counter' = [counter EXCEPT ![mslot[2]] = mreg - DepCnt(mslot)]
        /\ UNCHANGED <<there, content, toFree, releases, mslot, mreg>>
    BY <1>6 DEF StoreCounter, netVars
  <2>2. ValuesOK' BY <1>1, <1>4, <2>1 DEF ValuesOK, Master
  <2>3. SlotInv'
    BY <1>1, <1>2, <2>1, SlotsKept DEF SlotInv, ForwardOnly
  <2> QED BY <1>3, <2>2, <2>3
<1>7. CASE ResetSlot
  <2>1. /\ mat = "reset" /\ mat' = "assert"
        /\ there' = [there EXCEPT ![mslot[2]] = FALSE]
        /\ content' = [content EXCEPT ![mslot[2]] = {}]
        /\ UNCHANGED <<counter, toFree, releases, mslot, mreg>>
    BY <1>7 DEF ResetSlot, netVars
  <2>2. ValuesOK' BY <1>1, <1>4, <2>1 DEF ValuesOK, Master
  <2>3. SlotInv'
    <3> SUFFICES ASSUME NEW J \in Slot, Open(J)' PROVE ForwardOnly(J)'
      BY DEF SlotInv
    <3>1. Open(J) /\ ForwardOnly(J) BY <1>1, StaysOpen DEF SlotInv
    <3>2. mslot[2] # J BY <2>1, <3>1 DEF ForwardOnly
    <3>3. there'[J] = there[J] /\ content'[J] = content[J]
      BY <2>1, <3>2 DEF ValuesOK
    <3> QED BY <1>1, <1>2, <2>1, <3>1, <3>2, <3>3 DEF ForwardOnly
  <2> QED BY <1>3, <2>2, <2>3
<1>8. CASE LoadToFree
  <2>1. /\ mat = "assert" /\ mat' = "free" /\ mreg' = toFree
        /\ UNCHANGED <<slotVars, releases, mslot>>
    BY <1>8 DEF LoadToFree, netVars
  <2>2. ValuesOK' BY <1>1, <2>1 DEF ValuesOK, Master, slotVars
  <2>3. SlotInv'
    BY <1>1, <1>2, <2>1, SlotsKept DEF SlotInv, ForwardOnly, slotVars
  <2> QED BY <1>3, <2>2, <2>3
<1>9. CASE StoreToFree
  <2>1. /\ mat = "free" /\ mat' = "progress" /\ toFree' = mreg - DepCnt(mslot)
        /\ UNCHANGED <<there, content, counter, releases, mslot, mreg>>
    BY <1>9 DEF StoreToFree, netVars
  <2>2. ValuesOK' BY <1>1, <1>4, <2>1 DEF ValuesOK, Master
  <2>3. SlotInv'
    BY <1>1, <1>2, <2>1, SlotsKept DEF SlotInv, ForwardOnly
  <2> QED BY <1>3, <2>2, <2>3
<1> QED BY <1>3, <1>5, <1>6, <1>7, <1>8, <1>9

(* The owner.                                                              *)
LEMMA FetchForward ==
  ASSUME ForwardInv, NEW u \in Uses, Fetch(u)
  PROVE  (ValuesOK /\ CountsBounded /\ SlotInv)'
<1> USE DEF ForwardInv
<1>1. /\ announced[u] > 0 /\ announced' = [announced EXCEPT ![u] = @ - 1]
      /\ availCnt' = [availCnt EXCEPT ![u] = @ - DepCnt(u)]
      /\ releases' = [releases EXCEPT ![u] = @ + 1]
      /\ UNCHANGED <<state, locked, at, doing, reg, slotVars, sent, masterVars>>
  BY DEF Fetch
<1>2. Added' = Added /\ Counted' = Counted BY <1>1, PlacesKept
<1>3. CountsBounded' BY <1>1, <1>2, CountsKept, UseOfAdd
<1>4. DepCnt(u) \in Nat \ {0} /\ u[2] \in Slot
  BY <1>1, GroupFinite DEF ValuesOK, Uses
<1>5. \A v \in Uses : DepCnt(v) \in Nat BY GroupFinite
<1>6. ValuesOK'
  <2>1. \A v \in Uses : availCnt'[v] \in Int /\ availCnt'[v] <= DepCnt(v)
    BY <1>1, <1>4, <1>5 DEF ValuesOK
  <2>2. \A v \in Uses : /\ announced'[v] \in Nat /\ releases'[v] \in Nat
                        /\ announced'[v] > 0 => announced[v] > 0
    BY <1>1 DEF ValuesOK
  <2>3. /\ availCnt' \in [Uses -> Int] /\ announced' \in [Uses -> Nat]
        /\ releases' \in [Uses -> Nat]
    BY <1>1, <2>1, <2>2 DEF ValuesOK
  <2>4. \A v \in Uses : announced'[v] > 0 => Group(v) # {}
    BY <2>2 DEF ValuesOK
  <2> QED BY <1>1, <2>1, <2>3, <2>4 DEF ValuesOK, slotVars, masterVars
<1>7. SlotInv'
  <2> SUFFICES ASSUME NEW J \in Slot, Open(J)' PROVE ForwardOnly(J)'
    BY DEF SlotInv
  <2>1. u # <<"forward", J>>
    BY <1>1, <1>4 DEF Open, ValuesOK
  <2>2. Open(J) BY <1>1, <2>1, UseType DEF Open, ValuesOK
  <2>3. ForwardOnly(J) BY <2>2 DEF SlotInv
  <2>4. u # <<"backward", J>> BY <1>1, <2>3 DEF ForwardOnly
  <2>5. u[2] # J BY <2>1, <2>4 DEF Uses
  <2>6. /\ \A v \in Uses : v[2] = J => releases'[v] = 0
        /\ announced'[<<"backward", J>>] = 0
        /\ announced'[<<"forward", J>>] = announced[<<"forward", J>>]
    BY <1>1, <2>1, <2>3, <2>4, <2>5, UseType DEF ForwardOnly, ValuesOK
  <2> QED BY <1>1, <1>2, <2>3, <2>6 DEF ForwardOnly, slotVars, masterVars
<1> QED BY <1>3, <1>6, <1>7

(* A worker on its way to the computation, which neither adds nor counts.  *)
LEMMA BeginForward ==
  ASSUME ForwardInv, NEW w \in Worker, NEW t \in Task, Begin(w, t)
  PROVE  (ValuesOK /\ CountsBounded /\ SlotInv)'
<1> USE DEF ForwardInv
<1> DEFINE place == IF t \in Fuc THEN "make" ELSE "clear?"
<1>1. /\ at[w] = "idle" /\ state[t] = "ready"
      /\ state' = [state EXCEPT ![t] = "running"]
      /\ doing' = [doing EXCEPT ![w] = t]
      /\ at' = [at EXCEPT ![w] = place]
      /\ UNCHANGED <<reg, slotVars, sent, netVars, masterVars>>
  BY DEF Begin, Goto
<1>2. /\ state \in [Task -> States] /\ doing \in [Worker -> Task \cup {Nobody}]
      /\ at \in [Worker -> Places]
  BY DEF Inv, TypeOK
<1>3. place \notin Adding /\ place # "last?" /\ place # "add" BY DEF Adding
<1>4. at[w] \notin Adding /\ at[w] # "last?" BY <1>1 DEF Adding
<1>5. ValuesOK'
  <2>1. \A v \in Worker : at'[v] \in {"clear?", "clear"} => doing'[v] \notin Fuc
    BY <1>1, <1>2 DEF ValuesOK
  <2> QED BY <1>1, <2>1 DEF ValuesOK, slotVars, netVars, masterVars
<1> HIDE DEF place
<1>6. \A v \in Worker : \/ v # w /\ at'[v] = at[v] /\ doing'[v] = doing[v]
                        \/ v = w /\ at'[v] = place
  BY <1>1, <1>2
<1>7. \A s \in Task : state'[s] \in {"reported", "done"}
                        <=> state[s] \in {"reported", "done"}
  BY <1>1, <1>2
<1>8. Added' = Added /\ Counted' = Counted
  BY <1>3, <1>4, <1>6, <1>7 DEF Added, Counted
<1>9. CountsBounded'
  BY <1>1, <1>3, <1>6, <1>8, CountsKept, UseOfAdd
<1>10. SlotInv'
  <2>1. ASSUME NEW J \in Slot, Open(J)
        PROVE  /\ mat' # "progress" => mslot'[2] # J
               /\ \A s \in Task \ Fuc : SlotOf[s] = J => state'[s] = "waiting"
    <3>1. ForwardOnly(J) BY <2>1 DEF SlotInv
    <3> QED BY <1>1, <1>2, <3>1 DEF ForwardOnly, masterVars
  <2> QED BY <1>1, <1>8, <2>1, SlotsKept DEF slotVars, netVars
<1> QED BY <1>5, <1>9, <1>10

(* The moves that change at most the registers, the counters and a slot    *)
(* that is not open.                                                       *)
LEMMA MoveForward ==
  ASSUME ForwardInv, NEW w \in Worker, NEW place, at[w] \in InSlot, place \in InSlot,
         at' = [at EXCEPT ![w] = place],
         UNCHANGED <<state, doing, sent, announced, releases, availCnt>>,
         UNCHANGED masterVars,
         ValuesOK', reg' = reg \/ \E x : reg' = [reg EXCEPT ![w] = x],
         \A J \in Slot : Open(J) => /\ content'[J] = content[J]
                                    /\ there[J] => there'[J]
  PROVE  (ValuesOK /\ CountsBounded /\ SlotInv)'
<1> USE DEF ForwardInv
<1>1. at \in [Worker -> Places] BY DEF Inv, TypeOK
<1>2. \A v \in Worker : v # w => at'[v] = at[v] /\ reg'[v] = reg[v]
  BY <1>1 DEF ValuesOK
<1>3. at'[w] = place BY <1>1
<1>4. /\ place \notin Adding /\ place # "last?" /\ place # "add"
      /\ at[w] \notin Adding /\ at[w] # "last?"
  BY DEF InSlot, Adding
<1>5. \A v \in Worker : /\ at'[v] \in Adding <=> at[v] \in Adding
                        /\ at'[v] = "last?" <=> at[v] = "last?"
                        /\ at'[v] = "add" => v # w
  BY <1>2, <1>3, <1>4
<1>6. Added' = Added /\ Counted' = Counted
  BY <1>5 DEF Added, Counted
<1>7. CountsBounded'
  BY <1>2, <1>5, <1>6, CountsKept, UseOfAdd
<1>8. SlotInv'
  <2> SUFFICES ASSUME NEW J \in Slot, Open(J)' PROVE ForwardOnly(J)'
    BY DEF SlotInv
  <2>1. Open(J) /\ ForwardOnly(J) BY StaysOpen DEF SlotInv
  <2> QED BY <1>6, <2>1 DEF ForwardOnly, masterVars
<1> QED BY <1>7, <1>8

(* A slot that is open is not being cleared.                               *)
LEMMA OpenWorker ==
  ASSUME ForwardInv, NEW w \in Worker, at[w] # "idle", Open(SlotOf[doing[w]])
  PROVE  doing[w] \in Fuc
<1>1. doing[w] \in Task /\ state[doing[w]] = "running"
  BY DEF ForwardInv, Inv, HoldsTask
<1>2. ForwardOnly(SlotOf[doing[w]])
  BY <1>1, TasksAssumption DEF ForwardInv, SlotInv
<1> QED BY <1>1, <1>2 DEF ForwardOnly

LEMMA ReserveForward ==
  ASSUME ForwardInv, NEW w \in Worker,
         \/ Make(w) \/ TestClear(w) \/ Clear(w)
         \/ TestReserve(w) \/ AddToFree(w) \/ LoadReserved(w) \/ Reserve(w)
  PROVE  (ValuesOK /\ CountsBounded /\ SlotInv)'
<1> USE DEF ForwardInv
<1> DEFINE t == doing[w]  J == SlotOf[t]
<1>1. /\ at[w] \in InSlot /\ t \in Task /\ J \in Slot
      /\ UNCHANGED <<state, doing, sent, netVars, masterVars>>
  BY TasksAssumption
     DEF Make, TestClear, Clear, TestReserve, AddToFree, LoadReserved, Reserve,
         InSlot, Inv, HoldsTask, masterVars
<1>2. at \in [Worker -> Places] /\ Use(t) \in Uses /\ DepCnt(Use(t)) \in Nat
  BY <1>1, UseType, GroupFinite DEF Inv, TypeOK
<1> HIDE DEF t, J
<1>3. ASSUME NEW place, at' = [at EXCEPT ![w] = place],
             place \in {"clear?", "clear"} => t \notin Fuc
      PROVE  \A v \in Worker : at'[v] \in {"clear?", "clear"} => doing'[v] \notin Fuc
  BY <1>1, <1>2, <1>3 DEF ValuesOK, t
<1>4. CASE Make(w)
  <2> DEFINE place == IF t \in Fuc THEN "reserve?" ELSE "clear"
  <2>1. /\ there' = [there EXCEPT ![J] = TRUE]
        /\ content' = [content EXCEPT ![J] = IF there[J] THEN @ ELSE {}]
        /\ at' = [at EXCEPT ![w] = place]
        /\ UNCHANGED <<reg, counter, toFree>>
    BY <1>4 DEF Make, Goto, t, J
  <2>2. place \in InSlot /\ (place \in {"clear?", "clear"} => t \notin Fuc)
    BY DEF InSlot
  <2> HIDE DEF place
  <2>3. \A v \in Worker : at'[v] \in {"clear?", "clear"} => doing'[v] \notin Fuc
    BY <1>3, <2>1, <2>2
  <2>4. ValuesOK' BY <1>1, <2>1, <2>3 DEF ValuesOK, netVars, masterVars
  <2>5. ASSUME NEW K \in Slot, Open(K)
        PROVE  content'[K] = content[K] /\ (there[K] => there'[K])
    <3>1. ForwardOnly(K) BY <2>5 DEF SlotInv
    <3> QED BY <1>1, <2>1, <3>1 DEF ForwardOnly, ValuesOK
  <2> QED BY <1>1, <2>1, <2>2, <2>4, <2>5, MoveForward DEF netVars
<1>5. CASE TestClear(w)
  <2> DEFINE place == IF sent[Use(t)] = 0 THEN "make" ELSE "reserve?"
  <2>1. at' = [at EXCEPT ![w] = place] /\ UNCHANGED <<reg, slotVars>>
    BY <1>5 DEF TestClear, Goto, t
  <2>2. place \in InSlot /\ place \notin {"clear?", "clear"} BY DEF InSlot
  <2> HIDE DEF place
  <2>3. \A v \in Worker : at'[v] \in {"clear?", "clear"} => doing'[v] \notin Fuc
    BY <1>3, <2>1, <2>2
  <2>4. ValuesOK' BY <1>1, <2>1, <2>3 DEF ValuesOK, netVars, masterVars, slotVars
  <2> QED BY <1>1, <2>1, <2>2, <2>4, MoveForward DEF netVars, slotVars
<1>6. CASE Clear(w)
  <2>1. /\ at[w] = "clear" /\ content' = [content EXCEPT ![J] = {}]
        /\ at' = [at EXCEPT ![w] = "reserve?"]
        /\ UNCHANGED <<reg, there, counter, toFree>>
    BY <1>6 DEF Clear, Goto, t, J
  <2>2. "reserve?" \in InSlot BY DEF InSlot
  <2>3. \A v \in Worker : at'[v] \in {"clear?", "clear"} => doing'[v] \notin Fuc
    BY <1>3, <2>1
  <2>4. ValuesOK' BY <1>1, <2>1, <2>3 DEF ValuesOK, netVars, masterVars
  <2>5. ~Open(J)
    <3>1. t \notin Fuc BY <2>1 DEF ValuesOK, t
    <3> QED BY <2>1, <3>1, OpenWorker DEF t, J
  <2>6. ASSUME NEW K \in Slot, Open(K)
        PROVE  content'[K] = content[K] /\ (there[K] => there'[K])
    BY <1>1, <2>1, <2>5, <2>6 DEF ValuesOK
  <2> QED BY <1>1, <2>1, <2>2, <2>4, <2>6, MoveForward DEF netVars
<1>7. CASE TestReserve(w)
  <2>1. /\ UNCHANGED slotVars
        /\ \/ reg' = [reg EXCEPT ![w] = toFree] /\ at' = [at EXCEPT ![w] = "toFree"]
           \/ reg' = reg /\ at' = [at EXCEPT ![w] = "compute"]
    BY <1>7 DEF TestReserve, Goto, Load
  <2>2. PICK place \in {"toFree", "compute"} : at' = [at EXCEPT ![w] = place]
    BY <2>1
  <2>3. place \in InSlot BY DEF InSlot
  <2>4. \A v \in Worker : at'[v] \in {"clear?", "clear"} => doing'[v] \notin Fuc
    BY <1>3, <2>2
  <2>5. reg' \in [Worker -> Int] BY <2>1 DEF ValuesOK
  <2>6. ValuesOK' BY <1>1, <2>1, <2>4, <2>5 DEF ValuesOK, netVars, masterVars, slotVars
  <2> QED BY <1>1, <2>1, <2>2, <2>3, <2>6, MoveForward DEF netVars, slotVars
<1>8. CASE AddToFree(w)
  <2>1. /\ toFree' = reg[w] + DepCnt(Use(t)) /\ at' = [at EXCEPT ![w] = "load counter"]
        /\ UNCHANGED <<reg, there, content, counter>>
    BY <1>8 DEF AddToFree, Goto, t
  <2>2. "load counter" \in InSlot BY DEF InSlot
  <2>3. \A v \in Worker : at'[v] \in {"clear?", "clear"} => doing'[v] \notin Fuc
    BY <1>3, <2>1
  <2>5. reg[w] + DepCnt(Use(t)) \in Int BY <1>2 DEF ValuesOK
  <2>4. ValuesOK' BY <1>1, <2>1, <2>3, <2>5 DEF ValuesOK, netVars, masterVars
  <2> QED BY <1>1, <2>1, <2>2, <2>4, MoveForward DEF netVars
<1>9. CASE LoadReserved(w)
  <2>1. /\ reg' = [reg EXCEPT ![w] = counter[J]] /\ at' = [at EXCEPT ![w] = "counter"]
        /\ UNCHANGED slotVars
    BY <1>9 DEF LoadReserved, Goto, Load, t, J
  <2>2. "counter" \in InSlot BY DEF InSlot
  <2>3. \A v \in Worker : at'[v] \in {"clear?", "clear"} => doing'[v] \notin Fuc
    BY <1>3, <2>1
  <2>4. reg' \in [Worker -> Int] BY <1>1, <2>1 DEF ValuesOK
  <2>5. ValuesOK' BY <1>1, <2>1, <2>3, <2>4 DEF ValuesOK, netVars, masterVars, slotVars
  <2> QED BY <1>1, <2>1, <2>2, <2>5, MoveForward DEF netVars, slotVars
<1>10. CASE Reserve(w)
  <2>1. /\ counter' = [counter EXCEPT ![J] = reg[w] + DepCnt(Use(t))]
        /\ at' = [at EXCEPT ![w] = "compute"]
        /\ UNCHANGED <<reg, there, content, toFree>>
    BY <1>10 DEF Reserve, Goto, t, J
  <2>2. "compute" \in InSlot BY DEF InSlot
  <2>3. \A v \in Worker : at'[v] \in {"clear?", "clear"} => doing'[v] \notin Fuc
    BY <1>3, <2>1
  <2>4. reg[w] + DepCnt(Use(t)) \in Int BY <1>2 DEF ValuesOK
  <2>5. counter' \in [Slot -> Int] BY <1>1, <2>1, <2>4 DEF ValuesOK
  <2>6. ValuesOK' BY <1>1, <2>1, <2>3, <2>5 DEF ValuesOK, netVars, masterVars
  <2> QED BY <1>1, <2>1, <2>2, <2>6, MoveForward DEF netVars
<1> QED BY <1>4, <1>5, <1>6, <1>7, <1>8, <1>9, <1>10

(* The contribution is added.                                              *)
LEMMA ComputeForward ==
  ASSUME ForwardInv, NEW w \in Worker, Compute(w)
  PROVE  (ValuesOK /\ CountsBounded /\ SlotInv)'
<1> USE DEF ForwardInv
<1> DEFINE t == doing[w]  J == SlotOf[t]
<1>1. /\ at[w] = "compute" /\ there[J] /\ t \in Task /\ J \in Slot
      /\ content' = [content EXCEPT ![J] = @ \cup {t}]
      /\ at' = [at EXCEPT ![w] = "count"]
      /\ UNCHANGED <<state, doing, reg, there, counter, toFree, sent, netVars,
                     masterVars>>
  BY TasksAssumption DEF Compute, Goto, Inv, HoldsTask
<1>2. at \in [Worker -> Places] /\ "compute" \notin Adding /\ "count" \in Adding
  BY DEF Inv, TypeOK, Adding
<1> HIDE DEF t, J
<1>3. \A v \in Worker : at'[v] = IF v = w THEN "count" ELSE at[v]
  BY <1>1, <1>2
<1>4. Counted' = Counted BY <1>1, <1>3 DEF Counted
<1>5. Added' = Added \cup {t}
  BY <1>1, <1>2, <1>3 DEF Added, t
<1>6. ValuesOK'
  <2>1. \A v \in Worker : at'[v] \in {"clear?", "clear"} => doing'[v] \notin Fuc
    BY <1>1, <1>3 DEF ValuesOK
  <2>2. content' \in [Slot -> SUBSET Task] BY <1>1 DEF ValuesOK
  <2> QED BY <1>1, <2>1, <2>2 DEF ValuesOK, netVars, masterVars
<1>7. CountsBounded'
  BY <1>1, <1>3, <1>4, CountsKept, UseOfAdd
<1>8. SlotInv'
  <2> SUFFICES ASSUME NEW K \in Slot, Open(K)' PROVE ForwardOnly(K)'
    BY DEF SlotInv
  <2>1. Open(K) /\ ForwardOnly(K) BY <1>1, StaysOpen DEF SlotInv, netVars
  <2>2. content'[K] = {s \in Added' : SlotOf[s] = K}
    <3>1. CASE K = J BY <1>1, <1>5, <2>1, <3>1 DEF ForwardOnly, ValuesOK, J
    <3>2. CASE K # J BY <1>1, <1>5, <2>1, <3>2 DEF ForwardOnly, ValuesOK, J
    <3> QED BY <3>1, <3>2
  <2>3. content'[K] # {} => there'[K]
    BY <1>1, <2>1 DEF ForwardOnly, ValuesOK
  <2> QED BY <1>1, <1>4, <2>1, <2>2, <2>3 DEF ForwardOnly, netVars, masterVars
<1> QED BY <1>6, <1>7, <1>8

(* The increment of the count is a load and a store.                       *)
LEMMA CountForward ==
  ASSUME ForwardInv, NEW w \in Worker, LoadSent(w) \/ StoreSent(w)
  PROVE  (ValuesOK /\ CountsBounded /\ SlotInv)'
<1> USE DEF ForwardInv
<1> DEFINE t == doing[w]  u == Use(t)
<1>1. /\ at[w] \in {"count", "add"} /\ t \in Task /\ u \in Uses
      /\ state[t] = "running"
      /\ \A v \in Worker : doing[v] = t => v = w
      /\ UNCHANGED <<state, doing, slotVars, netVars, masterVars>>
  <2>1. /\ at[w] \in {"count", "add"}
        /\ UNCHANGED <<state, doing, slotVars, netVars, masterVars>>
    BY DEF LoadSent, StoreSent
  <2>2. t \in Task /\ state[t] = "running" BY <2>1 DEF Inv, HoldsTask
  <2>3. \A v \in Worker : doing[v] = t => v = w
    BY <2>2, TasksAssumption DEF Inv, HoldsTask
  <2>4. u \in Uses BY <2>2, UseType
  <2> QED BY <2>1, <2>2, <2>3, <2>4
<1>2. at \in [Worker -> Places] BY DEF Inv, TypeOK
<1> HIDE DEF t, u
<1>3. ASSUME NEW place \in {"add", "last?"}, at' = [at EXCEPT ![w] = place],
             reg' \in [Worker -> Int], sent' \in [Uses -> Int]
      PROVE  /\ \A v \in Worker : at'[v] = IF v = w THEN place ELSE at[v]
             /\ ValuesOK' /\ Added' = Added /\ Counted \subseteq Counted' /\ SlotInv'
  <2>1. \A v \in Worker : at'[v] = IF v = w THEN place ELSE at[v]
    BY <1>2, <1>3
  <2>2. \A v \in Worker : at'[v] \in {"clear?", "clear"} => doing'[v] \notin Fuc
    BY <1>1, <2>1 DEF ValuesOK
  <2>3. ValuesOK'
    BY <1>1, <1>3, <2>2 DEF ValuesOK, slotVars, netVars, masterVars
  <2>4. Added' = Added BY <1>1, <2>1 DEF Added, Adding
  <2>5. Counted \subseteq Counted' BY <1>1, <2>1 DEF Counted
  <2>6. SlotInv'
    BY <1>1, <2>4, <2>5, SlotsKept
       DEF SlotInv, ForwardOnly, slotVars, netVars, masterVars
  <2> QED BY <2>1, <2>3, <2>4, <2>5, <2>6
<1>4. CASE LoadSent(w)
  <2>1. /\ at[w] = "count" /\ reg' = [reg EXCEPT ![w] = sent[u]]
        /\ at' = [at EXCEPT ![w] = "add"] /\ sent' = sent
    BY <1>4 DEF LoadSent, Goto, Load, t, u
  <2>2. /\ reg' \in [Worker -> Int]
        /\ \A v \in Worker : reg'[v] = IF v = w THEN sent[u] ELSE reg[v]
    BY <1>1, <2>1 DEF ValuesOK
  <2>3. sent' \in [Uses -> Int] BY <2>1 DEF ValuesOK
  <2>4. /\ \A v \in Worker : at'[v] = IF v = w THEN "add" ELSE at[v]
        /\ ValuesOK' /\ Counted \subseteq Counted' /\ SlotInv'
    BY <1>3, <2>1, <2>2, <2>3
  <2>5. \A v \in Worker : at'[v] = "add" =>
          \/ at[v] = "add" /\ reg'[v] = reg[v] /\ doing'[v] = doing[v]
          \/ Use(doing'[v]) \in Uses /\ reg'[v] = sent[Use(doing'[v])]
    BY <1>1, <2>2, <2>4 DEF t, u
  <2>6. CountsBounded' BY <2>1, <2>4, <2>5, CountsKept, UseOfAdd
  <2> QED BY <2>4, <2>6
<1>5. CASE StoreSent(w)
  <2>1. /\ at[w] = "add" /\ sent' = [sent EXCEPT ![u] = reg[w] + 1]
        /\ at' = [at EXCEPT ![w] = "last?"] /\ reg' = reg
    BY <1>5 DEF StoreSent, Goto, t, u
  <2>2. reg[w] \in Int /\ reg[w] <= Cardinality(InUse(Counted, u))
    BY <2>1 DEF CountsBounded, t, u
  <2>3. sent' \in [Uses -> Int] /\ reg' \in [Worker -> Int]
    <3>1. reg[w] + 1 \in Int BY <2>2
    <3> QED BY <2>1, <3>1 DEF ValuesOK
  <2>4. /\ \A v \in Worker : at'[v] = IF v = w THEN "last?" ELSE at[v]
        /\ ValuesOK' /\ Counted \subseteq Counted' /\ SlotInv'
    BY <1>3, <2>1, <2>3
  <2>5. t \notin Counted
    BY <1>1, <2>1 DEF Counted
  <2>6. t \in Counted'
    BY <1>1, <2>4 DEF Counted, t
  <2>7. ASSUME NEW s \in Uses
        PROVE  /\ Cardinality(InUse(Counted, s)) \in Nat
               /\ Cardinality(InUse(Counted', s)) \in Nat
               /\ Cardinality(InUse(Counted, s)) <= Cardinality(InUse(Counted', s))
               /\ s = u => Cardinality(InUse(Counted, s)) + 1
                             <= Cardinality(InUse(Counted', s))
    <3>1. InUse(Counted, s) \subseteq InUse(Counted', s) BY <2>4 DEF InUse
    <3>2. InUse(Counted', s) \subseteq Task BY DEF InUse, Counted
    <3>3. IsFiniteSet(InUse(Counted', s)) BY <3>2, TasksAssumption, FS_Subset
    <3>4. /\ IsFiniteSet(InUse(Counted, s)) /\ Cardinality(InUse(Counted, s)) \in Nat
          /\ Cardinality(InUse(Counted', s)) \in Nat
          /\ Cardinality(InUse(Counted, s)) <= Cardinality(InUse(Counted', s))
      BY <3>1, <3>3, FS_Subset, FS_CardinalityType
    <3>5. CASE s = u
      <4>1. t \in InUse(Counted', s) \ InUse(Counted, s)
        BY <2>5, <2>6, <3>5 DEF InUse, u
      <4>2. InUse(Counted, s) # InUse(Counted', s) BY <4>1
      <4>3. Cardinality(InUse(Counted, s)) # Cardinality(InUse(Counted', s))
        BY <3>1, <3>3, <4>2, FS_Subset
      <4> QED BY <3>4, <4>3
    <3> QED BY <3>4, <3>5
  <2>8. ASSUME NEW s \in Uses
        PROVE  sent'[s] \in Int /\ sent'[s] <= Cardinality(InUse(Counted', s))
    <3>1. CASE s = u
      <4>1. sent'[s] = reg[w] + 1 BY <1>1, <2>1, <3>1 DEF ValuesOK
      <4> QED BY <2>2, <2>7, <3>1, <4>1
    <3>2. CASE s # u
      <4>1. sent'[s] = sent[s] BY <1>1, <2>1, <3>2 DEF ValuesOK
      <4>2. sent[s] \in Int /\ sent[s] <= Cardinality(InUse(Counted, s))
        BY DEF CountsBounded
      <4> QED BY <2>7, <4>1, <4>2
    <3> QED BY <3>1, <3>2
  <2>9. ASSUME NEW v \in Worker, at'[v] = "add"
        PROVE  reg'[v] \in Int /\ reg'[v] <= Cardinality(InUse(Counted', Use(doing'[v])))
    <3>1. v # w /\ at[v] = "add" BY <2>4, <2>9
    <3>2. Use(doing[v]) \in Uses BY <3>1, UseOfAdd
    <3>3. reg[v] \in Int /\ reg[v] <= Cardinality(InUse(Counted, Use(doing[v])))
      BY <3>1 DEF CountsBounded
    <3>4. doing'[v] = doing[v] /\ reg'[v] = reg[v] BY <1>1, <2>1
    <3> QED BY <2>7, <3>2, <3>3, <3>4
  <2>10. CountsBounded' BY <2>8, <2>9 DEF CountsBounded
  <2> QED BY <2>4, <2>10
<1> QED BY <1>4, <1>5

(* A slot is announced by a task that has counted all of them.             *)
LEMMA FinishForward ==
  ASSUME ForwardInv, NEW w \in Worker, Finish(w)
  PROVE  (ValuesOK /\ CountsBounded /\ SlotInv)'
<1> USE DEF ForwardInv
<1> DEFINE t == doing[w]  u == Use(t)
<1>1. /\ at[w] = "last?" /\ t \in Task /\ u \in Uses /\ state[t] = "running"
      /\ \A v \in Worker : doing[v] = t => v = w
      /\ announced' = [announced EXCEPT ![u] = @ + (IF Last(u) THEN 1 ELSE 0)]
      /\ state' = [state EXCEPT ![t] = "reported"]
      /\ doing' = [doing EXCEPT ![w] = Nobody]
      /\ at' = [at EXCEPT ![w] = "idle"]
      /\ UNCHANGED <<reg, slotVars, sent, availCnt, got, releases, masterVars>>
  <2>1. /\ at[w] = "last?"
        /\ announced' = [announced EXCEPT ![u] = @ + (IF Last(u) THEN 1 ELSE 0)]
        /\ state' = [state EXCEPT ![t] = "reported"]
        /\ doing' = [doing EXCEPT ![w] = Nobody]
        /\ at' = [at EXCEPT ![w] = "idle"]
        /\ UNCHANGED <<reg, slotVars, sent, availCnt, got, releases, masterVars>>
    BY DEF Finish, Goto
  <2>2. t \in Task /\ state[t] = "running" BY <2>1 DEF Inv, HoldsTask
  <2>3. \A v \in Worker : doing[v] = t => v = w
    BY <2>2, TasksAssumption DEF Inv, HoldsTask
  <2>4. u \in Uses BY <2>2, UseType
  <2> QED BY <2>1, <2>2, <2>3, <2>4
<1>2. /\ at \in [Worker -> Places] /\ state \in [Task -> States]
      /\ doing \in [Worker -> Task \cup {Nobody}]
  BY DEF Inv, TypeOK
<1>3. t \in Group(u) BY <1>1 DEF Group, u
<1>4. u[2] = SlotOf[t] /\ (u[1] = "forward" <=> t \in Fuc)
  BY <1>1, UseType DEF u
<1> HIDE DEF t, u
<1>5. \A v \in Worker : /\ at'[v] = IF v = w THEN "idle" ELSE at[v]
                        /\ v # w => doing'[v] = doing[v]
  BY <1>1, <1>2
<1>6. \A s \in Task : state'[s] = IF s = t THEN "reported" ELSE state[s]
  BY <1>1, <1>2
<1>7. ~("idle" \in Adding) /\ "last?" \in Adding BY DEF Adding
<1>8. \A s \in Task, v \in Worker : s # t => (doing[v] = s => v # w)
  BY DEF t
<1>9. \A s \in Task : doing'[w] # s BY <1>1, <1>2, TasksAssumption
<1>10. Added' = Added
  <2>1. t \in Added BY <1>1, <1>7 DEF Added, t
  <2>2. t \in Added' BY <1>1, <1>6 DEF Added
  <2>3. \A s \in Task \ {t} : s \in Added' <=> s \in Added
    BY <1>5, <1>6, <1>8, <1>9 DEF Added
  <2> QED BY <2>1, <2>2, <2>3 DEF Added
<1>11. Counted' = Counted
  <2>1. t \in Counted BY <1>1 DEF Counted, t
  <2>2. t \in Counted' BY <1>1, <1>6 DEF Counted
  <2>3. \A s \in Task \ {t} : s \in Counted' <=> s \in Counted
    BY <1>5, <1>6, <1>8, <1>9 DEF Counted
  <2> QED BY <2>1, <2>2, <2>3 DEF Counted
<1>12. CountsBounded'
  BY <1>1, <1>5, <1>11, CountsKept, UseOfAdd
<1>13. \A s \in Uses : /\ announced'[s] \in Nat
                       /\ s # u => announced'[s] = announced[s]
                       /\ announced'[s] > 0 => announced[s] > 0 \/ (s = u /\ Last(u))
  <2>1. announced \in [Uses -> Nat] BY DEF ValuesOK
  <2>2. CASE Last(u) BY <1>1, <2>1, <2>2
  <2>3. CASE ~Last(u)
    <3>1. announced' = [announced EXCEPT ![u] = @ + 0] BY <1>1, <2>3
    <3>2. \A s \in Uses : announced'[s] = announced[s] BY <2>1, <3>1
    <3>3. \A s \in Uses : announced[s] \in Nat BY <2>1
    <3>4. \A s \in Uses : announced'[s] \in Nat BY <3>2, <3>3
    <3>5. \A s \in Uses : announced'[s] > 0 => announced[s] > 0 BY <3>2
    <3> QED BY <3>2, <3>4, <3>5
  <2> QED BY <2>2, <2>3
<1>14. ValuesOK'
  <2>1. announced' \in [Uses -> Nat] BY <1>1, <1>13 DEF ValuesOK
  <2>2. \A s \in Uses : announced'[s] > 0 => Group(s) # {}
    BY <1>3, <1>13 DEF ValuesOK
  <2>3. \A v \in Worker : at'[v] \in {"clear?", "clear"} => doing'[v] \notin Fuc
    BY <1>5 DEF ValuesOK
  <2> QED BY <1>1, <2>1, <2>2, <2>3 DEF ValuesOK, slotVars, masterVars
<1>15. Last(u) => Group(u) \subseteq Counted
  <2> SUFFICES ASSUME Last(u) PROVE Group(u) \subseteq Counted OBVIOUS
  <2>1. sent[u] = DepCnt(u) /\ sent[u] <= Cardinality(InUse(Counted, u))
    BY <1>1 DEF Last, CountsBounded
  <2>2. /\ IsFiniteSet(Group(u)) /\ InUse(Counted, u) \subseteq Group(u)
        /\ Cardinality(InUse(Counted, u)) = Cardinality(Group(u))
    BY <1>1, <2>1, GroupFinite DEF DepCnt
  <2>3. InUse(Counted, u) = Group(u) BY <2>2, FS_Subset
  <2> QED BY <2>3 DEF InUse
<1>16. SlotInv'
  <2> SUFFICES ASSUME NEW J \in Slot, Open(J)' PROVE ForwardOnly(J)'
    BY DEF SlotInv
  <2>1. Open(J) /\ ForwardOnly(J) BY <1>1, StaysOpen DEF SlotInv
  <2>2. u # <<"backward", J>>
    <3> SUFFICES ASSUME u = <<"backward", J>> PROVE FALSE OBVIOUS
    <3>1. SlotOf[t] = J /\ t \notin Fuc BY <1>4
    <3> QED BY <1>1, <2>1, <3>1 DEF ForwardOnly
  <2>3. announced'[<<"backward", J>>] = 0
    BY <1>13, <2>1, <2>2, UseType DEF ForwardOnly
  <2>4. announced'[<<"forward", J>>] > 0 => Group(<<"forward", J>>) \subseteq Counted
    BY <1>13, <1>15, <2>1, UseType DEF ForwardOnly
  <2>5. \A s \in Task \ Fuc : SlotOf[s] = J => state'[s] = "waiting"
    BY <1>1, <1>6, <2>1 DEF ForwardOnly
  <2> QED
    BY <1>1, <1>10, <1>11, <2>1, <2>3, <2>4, <2>5 DEF ForwardOnly, slotVars, masterVars
<1> QED BY <1>12, <1>14, <1>16

LEMMA ForwardNext == ForwardInv /\ [Next]_vars => ForwardInv'
<1> SUFFICES ASSUME ForwardInv, [Next]_vars PROVE ForwardInv' OBVIOUS
<1> DEFINE Values == ValuesOK /\ CountsBounded /\ SlotInv
<1>1. Inv' BY NextInv DEF ForwardInv
<1>2. ASSUME MasterStep PROVE Values'
  <2>1. ASSUME NEW t \in Task, Activate(t) PROVE Values' BY <2>1, ActivateForward
  <2>2. ASSUME NEW t \in Task, HandleReport(t) PROVE Values'
    BY <2>2, ReportForward
  <2> QED BY <1>2, <2>1, <2>2, MasterForward DEF MasterStep
<1>3. ASSUME NEW w \in Worker, WorkerStep(w) PROVE Values'
  <2>1. ASSUME NEW t \in Task, Begin(w, t) PROVE Values' BY <2>1, BeginForward
  <2> QED
    BY <1>3, <2>1, ReserveForward, ComputeForward, CountForward, FinishForward
       DEF WorkerStep
<1>4. ASSUME NEW u \in Uses, Fetch(u) PROVE Values' BY <1>4, FetchForward
<1>5. ASSUME Terminated \/ UNCHANGED vars PROVE Values'
  <2>1. /\ UNCHANGED <<state, at, doing, reg, slotVars, sent, netVars, masterVars>>
    BY <1>5 DEF Terminated, vars
  <2>2. Added' = Added /\ Counted' = Counted BY <2>1, PlacesKept
  <2>3. ValuesOK'
    BY <2>1 DEF ForwardInv, ValuesOK, slotVars, netVars, masterVars
  <2>4. CountsBounded' BY <2>1, <2>2, CountsKept, UseOfAdd DEF ForwardInv
  <2>5. SlotInv'
    BY <2>1, <2>2, SlotsKept
       DEF ForwardInv, SlotInv, ForwardOnly, slotVars, netVars, masterVars
  <2> QED BY <2>3, <2>4, <2>5
<1>6. Values'
  BY <1>2, <1>3, <1>4, <1>5 DEF Next
<1> QED BY <1>1, <1>6 DEF ForwardInv

LEMMA ForwardFollows == ForwardInv => ForwardComplete
<1> SUFFICES ASSUME ForwardInv, NEW J \in Slot,
                    announced[<<"forward", J>>] > 0,
                    availCnt[<<"forward", J>>] = DepCnt(<<"forward", J>>)
             PROVE  content[J] = Group(<<"forward", J>>)
  BY DEF ForwardComplete
<1> DEFINE u == <<"forward", J>>
<1>1. u \in Uses /\ Group(u) # {} BY UseType DEF ForwardInv, ValuesOK
<1>2. Open(J) BY <1>1 DEF Open
<1>3. ForwardOnly(J) BY <1>2 DEF ForwardInv, SlotInv
<1>4. \A t \in Task : SlotOf[t] = J /\ t \in Added <=> t \in content[J]
  BY <1>3 DEF ForwardOnly
<1>5. Counted \subseteq Added BY DEF Counted, Added, Adding
<1>6. \A t \in Task \ Fuc : SlotOf[t] = J => t \notin Added
  BY <1>3 DEF ForwardOnly, Added, Adding, ForwardInv, Inv, HoldsTask
<1>7. \A t \in Task : t \in Group(u) <=> t \in Fuc /\ SlotOf[t] = J
  BY DEF Group, Use, Phase
<1>8. content[J] \subseteq Task /\ Group(u) \subseteq Task
  BY DEF ForwardInv, ValuesOK, Group
<1> QED BY <1>3, <1>4, <1>5, <1>6, <1>7, <1>8 DEF ForwardOnly

(* Although increments of the counts may be lost, a slot that is announced *)
(* for the first time in the forward phase holds everything this rank      *)
(* contributes to it.                                                      *)
THEOREM ForwardIsComplete == Spec => []ForwardComplete
<1>1. Init => ForwardInv BY InitInv, ForwardInit DEF ForwardInv
<1>2. Spec => []ForwardInv BY <1>1, ForwardNext, PTL DEF Spec
<1> QED BY <1>2, ForwardFollows, PTL
=============================================================================
