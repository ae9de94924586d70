---------------------------- MODULE ThreadedSolve ----------------------------
(***************************************************************************)
(* The contribs slots of one rank when its FUC and BUC tasks are run by    *)
(* worker threads, at the grain of the accesses to shared memory.  The     *)
(* slots are those of supernodes other ranks own.  The flag                *)
(* contribs_lock[J] covers the computation in slot J only; the counters    *)
(* update_right_cnt and update_up_cnt are incremented after it is cleared, *)
(* remoteDeallocCounter is shared by all slots, and the master thread runs *)
(* the handler of deallocRemote without any lock.  An increment of a plain *)
(* integer is a load and a store.  Which worker gets a task, in which      *)
(* order, is left open: Scheduler2D says more about that.                  *)
(***************************************************************************)
EXTENDS Integers, FiniteSets

CONSTANTS
  Task,     \* the off-diagonal FUC and BUC tasks of this rank
  Fuc,      \* those of the forward phase
  Slot,     \* supernodes other ranks own
  SlotOf,   \* the slot a task computes into
  Worker,   \* worker threads: max(1, NumThread - 1)
  Nobody    \* no task

ASSUME TasksAssumption ==
  /\ Fuc \subseteq Task /\ SlotOf \in [Task -> Slot]
  /\ IsFiniteSet(Task) /\ Nobody \notin Task
  /\ IsFiniteSet(Worker) /\ Worker # {}

VARIABLES
  state,      \* of each task, as far as the master sees it
  locked,     \* contribs_lock
  at,         \* where each worker is
  doing,      \* the task of each worker
  reg,        \* what a worker has loaded
  there,      \* the slot holds an object
  content,    \* tasks whose contributions are in the object
  counter,    \* the counter of the slot
  sent,       \* update_right_cnt and update_up_cnt
  toFree,     \* remoteDeallocCounter
  announced,  \* rpcs of contributions on their way to the owner
  availCnt,   \* in_avail_counter of the diagonal task on the owner
  got,        \* what the owner has fetched
  releases,   \* deallocRemote rpcs on their way back
  mat, mslot, mreg  \* the master: where, for which slot, what it loaded

slotVars == <<there, content, counter, toFree>>
netVars == <<announced, availCnt, got, releases>>
masterVars == <<mat, mslot, mreg>>
vars == <<state, locked, at, doing, reg, slotVars, sent, netVars, masterVars>>

Phase(t) == IF t \in Fuc THEN "forward" ELSE "backward"
Use(t)   == <<Phase(t), SlotOf[t]>>
Uses     == {"forward", "backward"} \X Slot

(* All the tasks of this rank that contribute to a slot in one phase, and  *)
(* dep_cnt.                                                                *)
Group(u)  == {t \in Task : Use(t) = u}
DepCnt(u) == Cardinality(Group(u))

(* extraTaskHandle_ is set when there are several workers.                 *)
Locking == Cardinality(Worker) > 1

Init ==
  /\ state = [t \in Task |-> "waiting"]
  /\ locked = [J \in Slot |-> FALSE]
  /\ at = [w \in Worker |-> "idle"]
  /\ doing = [w \in Worker |-> Nobody]
  /\ reg = [w \in Worker |-> 0]
  /\ there = [J \in Slot |-> FALSE]
  /\ content = [J \in Slot |-> {}]
  /\ counter = [J \in Slot |-> 0]
  /\ sent = [u \in Uses |-> 0]
  /\ toFree = 0
  /\ announced = [u \in Uses |-> 0]
  /\ availCnt = [u \in Uses |-> DepCnt(u)]
  /\ got = [u \in Uses |-> {}]
  /\ releases = [u \in Uses |-> 0]
  /\ mat = "progress" /\ mslot = <<>> /\ mreg = 0

-----------------------------------------------------------------------------
(* The master.                                                             *)

(* Slip: the flag is tested but not set.                                   *)
TestLockOnly(t) == ~locked[SlotOf[t]] /\ UNCHANGED locked

(* extraTaskHandle_ takes the flag of the slot.                            *)
TakeLock(t) ==
  IF Locking
  THEN ~locked[SlotOf[t]] /\ locked' = [locked EXCEPT ![SlotOf[t]] = TRUE]
  ELSE UNCHANGED locked

Delays(t) == Locking /\ locked[SlotOf[t]]

(* The backward phase of a supernode comes after its owner has used what   *)
(* the forward phase sent (ForwardFirst in SolveGraph2D).                  *)
Enabled(t) ==
  t \in Fuc \/ Group(<<"forward", SlotOf[t]>>) = {}
            \/ availCnt[<<"forward", SlotOf[t]>>] <= 0

(* The last input of a task has come.                                      *)
Activate(t) ==
  /\ mat = "progress" /\ state[t] = "waiting" /\ Enabled(t)
  /\ IF Delays(t)
     THEN state' = [state EXCEPT ![t] = "delayed"] /\ UNCHANGED locked
     ELSE state' = [state EXCEPT ![t] = "ready"] /\ TakeLock(t)
  /\ UNCHANGED <<at, doing, reg, slotVars, sent, netVars, masterVars>>

(* The lpc of a worker that has executed t; it retries one delayed task.   *)
HandleReport(t) ==
  LET waiting == {d \in Task : state[d] = "delayed" /\ SlotOf[d] = SlotOf[t]} IN
  /\ mat = "progress" /\ state[t] = "reported"
  /\ IF waiting = {} \/ Delays(t)
     THEN state' = [state EXCEPT ![t] = "done"] /\ UNCHANGED locked
     ELSE \E d \in waiting :
            /\ TakeLock(d)
            /\ state' = [state EXCEPT ![t] = "done", ![d] = "ready"]
  /\ UNCHANGED <<at, doing, reg, slotVars, sent, netVars, masterVars>>

(* deallocRemote: counter -= dep_cnt, ...                                  *)
LoadCounter(u) ==
  /\ mat = "progress" /\ releases[u] > 0
  /\ releases' = [releases EXCEPT ![u] = @ - 1]
  /\ mslot' = u
  /\ mreg' = counter[u[2]]
  /\ mat' = "counter"
  /\ UNCHANGED <<state, locked, at, doing, reg, slotVars, sent, announced,
                 availCnt, got>>

StoreCounter ==
  /\ mat = "counter"
  /\ counter' = [counter EXCEPT ![mslot[2]] = mreg - DepCnt(mslot)]
  /\ mat' = IF mreg = DepCnt(mslot) THEN "reset" ELSE "assert"
  /\ UNCHANGED <<state, locked, at, doing, reg, there, content, toFree, sent,
                 netVars, mslot, mreg>>

(* ... the slot is reset if that left zero, ...                            *)
ResetSlot ==
  /\ mat = "reset"
  /\ there' = [there EXCEPT ![mslot[2]] = FALSE]
  /\ content' = [content EXCEPT ![mslot[2]] = {}]
  /\ mat' = "assert"
  /\ UNCHANGED <<state, locked, at, doing, reg, counter, toFree, sent, netVars,
                 mslot, mreg>>

(* ... and remoteDeallocCounter -= dep_cnt.                                *)
LoadToFree ==
  /\ mat = "assert"
  /\ mreg' = toFree
  /\ mat' = "free"
  /\ UNCHANGED <<state, locked, at, doing, reg, slotVars, sent, netVars, mslot>>

StoreToFree ==
  /\ mat = "free"
  /\ toFree' = mreg - DepCnt(mslot)
  /\ mat' = "progress"
  /\ UNCHANGED <<state, locked, at, doing, reg, there, content, counter, sent,
                 netVars, mslot, mreg>>

MasterStep ==
  \/ \E t \in Task : Activate(t) \/ HandleReport(t)
  \/ \E u \in Uses : LoadCounter(u)
  \/ StoreCounter \/ ResetSlot \/ LoadToFree \/ StoreToFree

-----------------------------------------------------------------------------
(* A worker, in task t = doing[w] with slot J = SlotOf[t].                 *)

Goto(w, place) == at' = [at EXCEPT ![w] = place]
Load(w, value) == reg' = [reg EXCEPT ![w] = value]

Begin(w, t) ==
  /\ at[w] = "idle" /\ state[t] = "ready"
  /\ state' = [state EXCEPT ![t] = "running"]
  /\ doing' = [doing EXCEPT ![w] = t]
  /\ Goto(w, IF t \in Fuc THEN "make" ELSE "clear?")
  /\ UNCHANGED <<locked, reg, slotVars, sent, netVars, masterVars>>

(* FUC, or BUC that has found update_up_cnt zero: make the slot if it is   *)
(* not there.                                                              *)
Make(w) ==
  LET t == doing[w]  J == SlotOf[t] IN
  /\ at[w] = "make"
  /\ there' = [there EXCEPT ![J] = TRUE]
  /\ content' = [content EXCEPT ![J] = IF there[J] THEN @ ELSE {}]
  /\ Goto(w, IF t \in Fuc THEN "reserve?" ELSE "clear")
  /\ UNCHANGED <<state, locked, doing, reg, counter, toFree, sent, netVars,
                 masterVars>>

(* BUC: the first one clears the slot, the others expect it to be there.   *)
TestClear(w) ==
  LET t == doing[w] IN
  /\ at[w] = "clear?"
  /\ Goto(w, IF sent[Use(t)] = 0 THEN "make" ELSE "reserve?")
  /\ UNCHANGED <<state, locked, doing, reg, slotVars, sent, netVars, masterVars>>

Clear(w) ==
  LET J == SlotOf[doing[w]] IN
  /\ at[w] = "clear" /\ there[J]
  /\ content' = [content EXCEPT ![J] = {}]
  /\ Goto(w, "reserve?")
  /\ UNCHANGED <<state, locked, doing, reg, there, counter, toFree, sent, netVars,
                 masterVars>>

(* The first one reserves the slot until the owner has fetched it.         *)
TestReserve(w) ==
  LET t == doing[w] IN
  /\ at[w] = "reserve?"
  /\ IF sent[Use(t)] = 0 THEN Load(w, toFree) /\ Goto(w, "toFree")
     ELSE UNCHANGED reg /\ Goto(w, "compute")
  /\ UNCHANGED <<state, locked, doing, slotVars, sent, netVars, masterVars>>

AddToFree(w) ==
  /\ at[w] = "toFree"
  /\ toFree' = reg[w] + DepCnt(Use(doing[w]))
  /\ Goto(w, "load counter")
  /\ UNCHANGED <<state, locked, doing, reg, there, content, counter, sent, netVars,
                 masterVars>>

LoadReserved(w) ==
  /\ at[w] = "load counter"
  /\ Load(w, counter[SlotOf[doing[w]]])
  /\ Goto(w, "counter")
  /\ UNCHANGED <<state, locked, doing, slotVars, sent, netVars, masterVars>>

Reserve(w) ==
  LET t == doing[w] IN
  /\ at[w] = "counter"
  /\ counter' = [counter EXCEPT ![SlotOf[t]] = reg[w] + DepCnt(Use(t))]
  /\ Goto(w, "compute")
  /\ UNCHANGED <<state, locked, doing, reg, there, content, toFree, sent, netVars,
                 masterVars>>

(* The contribution is added, then the destructor of cell_lock runs.       *)
Compute(w) ==
  LET t == doing[w]  J == SlotOf[t] IN
  /\ at[w] = "compute" /\ there[J]
  /\ content' = [content EXCEPT ![J] = @ \cup {t}]
  /\ locked' = IF Locking THEN [locked EXCEPT ![J] = FALSE] ELSE locked
  /\ Goto(w, "count")
  /\ UNCHANGED <<state, doing, reg, there, counter, toFree, sent, netVars,
                 masterVars>>

(* update_right_cnt[J]++ or update_up_cnt[J]++                             *)
LoadSent(w) ==
  /\ at[w] = "count"
  /\ Load(w, sent[Use(doing[w])])
  /\ Goto(w, "add")
  /\ UNCHANGED <<state, locked, doing, slotVars, sent, netVars, masterVars>>

StoreSent(w) ==
  /\ at[w] = "add"
  /\ sent' = [sent EXCEPT ![Use(doing[w])] = reg[w] + 1]
  /\ Goto(w, "last?")
  /\ UNCHANGED <<state, locked, doing, reg, slotVars, netVars, masterVars>>

(* Slip: the last but one announces too.                                   *)
NearlyLast(u) == sent[u] + 1 >= DepCnt(u)

Last(u) == sent[u] = DepCnt(u)

(* The one that brings the count to dep_cnt announces the slot.            *)
Finish(w) ==
  LET t == doing[w] IN
  /\ at[w] = "last?"
  /\ announced' = [announced EXCEPT ![Use(t)] = @ + (IF Last(Use(t)) THEN 1 ELSE 0)]
  /\ state' = [state EXCEPT ![t] = "reported"]
  /\ doing' = [doing EXCEPT ![w] = Nobody]
  /\ Goto(w, "idle")
  /\ UNCHANGED <<locked, reg, slotVars, sent, availCnt, got, releases, masterVars>>

WorkerStep(w) ==
  \/ \E t \in Task : Begin(w, t)
  \/ Make(w) \/ TestClear(w) \/ Clear(w)
  \/ TestReserve(w) \/ AddToFree(w) \/ LoadReserved(w) \/ Reserve(w)
  \/ Compute(w) \/ LoadSent(w) \/ StoreSent(w) \/ Finish(w)

-----------------------------------------------------------------------------
(* The owner of a slot gets the announcement, counts it, fetches the slot  *)
(* and gives it back.                                                      *)
Fetch(u) ==
  /\ announced[u] > 0
  /\ announced' = [announced EXCEPT ![u] = @ - 1]
  /\ availCnt' = [availCnt EXCEPT ![u] = @ - DepCnt(u)]
  /\ got' = [got EXCEPT ![u] = content[u[2]]]
  /\ releases' = [releases EXCEPT ![u] = @ + 1]
  /\ UNCHANGED <<state, locked, at, doing, reg, slotVars, sent, masterVars>>

Terminated ==
  /\ \A t \in Task : state[t] = "done"
  /\ \A u \in Uses : announced[u] = 0 /\ releases[u] = 0
  /\ mat = "progress"
  /\ UNCHANGED vars

Next ==
  \/ MasterStep
  \/ \E w \in Worker : WorkerStep(w)
  \/ \E u \in Uses : Fetch(u)
  \/ Terminated

Spec == Init /\ [][Next]_vars

-----------------------------------------------------------------------------
(* Properties.                                                             *)

Computing(w, J) ==
  /\ doing[w] # Nobody /\ SlotOf[doing[w]] = J
  /\ at[w] \notin {"idle", "count", "add", "last?"}

(* The flag does its part: no two workers compute in one slot.             *)
SlotExclusive ==
  \A J \in Slot : Cardinality({w \in Worker : Computing(w, J)}) <= 1

(* Whatever happens to the counters, when a slot is first announced in the *)
(* forward phase everything this rank has to contribute is in it.          *)
ForwardComplete ==
  \A J \in Slot :
    LET u == <<"forward", J>> IN
    announced[u] > 0 /\ availCnt[u] = DepCnt(u) => content[J] = Group(u)

(* The owner gets from each rank the product of all its cells of the       *)
(* column: no contribution to x(I) is lost.                                *)
BackwardKept ==
  \A J \in Slot :
    LET u == <<"backward", J>> IN
    announced[u] > 0 /\ availCnt[u] = DepCnt(u) => content[J] = Group(u)

(* A worker that computes in a slot finds the object there.                *)
SlotPresent ==
  \A w \in Worker : at[w] \in {"clear", "compute"} => there[SlotOf[doing[w]]]

=============================================================================
