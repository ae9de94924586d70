---------------------------- MODULE Scheduler2D ----------------------------
(***************************************************************************)
(* Scheduler2D::execute of symPACK with SP_THREADS, on one rank: the       *)
(* master thread hands ready tasks to worker threads through two-slot      *)
(* rings (worker_ptrs, refined in module WorkerPtrs to the bounded queues  *)
(* used here), and owns all bookkeeping: workers report to it only with    *)
(* lpcs on the master persona.                                             *)
(*                                                                         *)
(* A task that writes a matrix cell must hold that cell's in_use flag.     *)
(* The flag is taken by extraTaskHandle_ when the last dependency of the   *)
(* task is satisfied, before the task enters the ready queue; if it cannot *)
(* be taken the task waits in delayedTasks_ under that cell.               *)
(***************************************************************************)
EXTENDS Integers, Sequences, FiniteSets

CONSTANTS
  Task,     \* the tasks of task_graph owned by this rank
  Order,    \* task_graph as the vector it is: the tasks, each once
  Prio,     \* rank of a task under rdy_comp and avail_comp
  Out,      \* Out[t]: targets of t on this rank, one entry per signal
  Cell,     \* cells (or contribs_lock entries) that tasks write
  NoCell,   \* _lock_ptr == nullptr
  LockOf,   \* the flag extraTaskHandle_ takes for a task, or NoCell
  Msg,      \* rpcs that other ranks send to this one
  MsgTo,    \* MsgTo[m]: the tasks rpc m lists as targets
  Worker,   \* worker threads, NumThread - 1 of them
  None      \* nullptr, for a task

ASSUME SchedAssumption ==
  /\ IsFiniteSet(Task) /\ IsFiniteSet(Worker) /\ IsFiniteSet(Msg)
  /\ Order \in Seq(Task)
  /\ Prio \in [Task -> Nat]
  /\ Out \in [Task -> Seq(Task)]
  /\ NoCell \notin Cell /\ IsFiniteSet(Cell)
  /\ LockOf \in [Task -> Cell \cup {NoCell}]
  /\ MsgTo \in [Msg -> Seq(Task)]
  /\ None \notin Task

(* Every task appears in the vector exactly once.                          *)
ASSUME OrderIsTaskGraph ==
  /\ Len(Order) = Cardinality(Task)
  /\ {Order[i] : i \in DOMAIN Order} = Task

VARIABLES
  mpc,       \* where the master thread is
  pos,       \* setup: index of the next task of task_graph
  taskCnt,   \* local_task_cnt: tasks not yet handed to a worker
  burst,     \* lpcs the running upcxx::progress() still has to run
  ready,     \* ready_tasks
  avail,     \* avail_tasks
  inCnt,     \* in_counter
  availCnt,  \* in_avail_counter
  msg,       \* rpc and rget of each message: away, fetching or landed
  thens,     \* tasks whose callback is attached to on_fetch_future
  inUse,     \* in_use (contribs_lock) flags
  delayed,   \* delayedTasks_
  inbox,     \* lpcs posted to the master persona, oldest first
  free,      \* free_workers_
  load,      \* worker_loads_
  ring,      \* work_pointers_, oldest task first
  wpc, cur,  \* where each worker is, and the task it holds
  todo,      \* targets the worker's task has yet to signal
  ran,       \* history: how many times each task was executed
  done       \* the flag that lets the workers leave

masterVars == <<mpc, pos, taskCnt, burst>>
queueVars  == <<ready, avail, inCnt, availCnt>>
commVars   == <<msg, thens>>
lockVars   == <<inUse, delayed>>
poolVars   == <<free, load, ring>>
workerVars == <<wpc, cur, todo, ran>>
vars == <<masterVars, queueVars, commVars, lockVars, inbox, poolVars,
          workerVars, done>>

RingSize == 2

-----------------------------------------------------------------------------
(* The dependency counts SymbolicFactorization stored in the tasks.        *)

(* The entries for t in a family of lists.                                 *)
Entries(t, lists) ==
  UNION {{x} \X {i \in DOMAIN lists[x] : lists[x][i] = t} : x \in DOMAIN lists}

RemoteDeps(t) == Cardinality(Entries(t, MsgTo))
LocalDeps(t)  == Cardinality(Entries(t, Out))

Elems(s) == {s[i] : i \in 1..Len(s)}

(* The sequences that hold each element of S once.                         *)
Listings(S) ==
  {s \in [1..Cardinality(S) -> S] :
     Elems(s) = S /\ \A i, j \in 1..Len(s) : s[i] = s[j] => i = j}

DepLpc(t)     == [kind |-> "dep", task |-> t]
AvailLpc(t)   == [kind |-> "avail", task |-> t]
DoneLpc(w, c) == [kind |-> "done", worker |-> w, cell |-> c]

Lpc == [kind : {"dep", "avail"}, task : Task]
         \cup [kind : {"done"}, worker : Worker, cell : Cell \cup {NoCell}]

(* One lpc per element of s, in its order.                                 *)
DepLpcs(s)   == [i \in 1..Len(s) |-> DepLpc(s[i])]
AvailLpcs(s) == [i \in 1..Len(s) |-> AvailLpc(s[i])]

Top(queue, t) == t \in queue /\ \A u \in queue : Prio[u] <= Prio[t]

(* Slip: a task enters ready_tasks whatever the flag says.                 *)
AlwaysLockable(t) == TRUE

(* extraTaskHandle_ returns false: nothing to lock, or the compare-and-    *)
(* exchange succeeded.                                                     *)
Lockable(t) == LockOf[t] \in Cell => ~inUse[LockOf[t]]

TakeLock(t) ==
  inUse' = IF LockOf[t] = NoCell THEN inUse
           ELSE [inUse EXCEPT ![LockOf[t]] = TRUE]

(* The continuation of in_prom: the task enters ready_tasks holding its    *)
(* lock, or the list of the tasks delayed on that lock.                    *)
Activate(t) ==
  \/ /\ Lockable(t)
     /\ TakeLock(t)
     /\ ready' = ready \cup {t}
     /\ UNCHANGED delayed
  \/ /\ ~Lockable(t)
     /\ delayed' = [delayed EXCEPT ![LockOf[t]] = Append(@, t)]
     /\ UNCHANGED <<ready, inUse>>

-----------------------------------------------------------------------------
Init ==
  /\ mpc = "setup" /\ pos = 1 /\ burst = 0
  /\ taskCnt = Len(Order)
  /\ ready = {} /\ avail = {}
  /\ inCnt = [t \in Task |-> LocalDeps(t) + RemoteDeps(t)]
  /\ availCnt = [t \in Task |-> RemoteDeps(t)]
  /\ msg = [m \in Msg |-> "away"]
  /\ thens = [m \in Msg |-> <<>>]
  /\ inUse = [c \in Cell |-> FALSE]
  /\ delayed = [c \in Cell |-> <<>>]
  /\ inbox = <<>>
  /\ free \in Listings(Worker)
  /\ load = [w \in Worker |-> 0]
  /\ ring = [w \in Worker |-> <<>>]
  /\ wpc = [w \in Worker |-> "get"]
  /\ cur = [w \in Worker |-> None]
  /\ todo = [w \in Worker |-> <<>>]
  /\ ran = [t \in Task |-> 0]
  /\ done = FALSE

-----------------------------------------------------------------------------
(* The master thread.                                                      *)

(* The promises of the next task of the vector are finalized: without      *)
(* dependencies its continuation runs at once.                             *)
Setup ==
  /\ mpc = "setup" /\ pos <= Len(Order)
  /\ pos' = pos + 1
  /\ IF inCnt[Order[pos]] = 0 THEN Activate(Order[pos])
     ELSE UNCHANGED <<ready, inUse, delayed>>
  /\ UNCHANGED <<mpc, taskCnt, burst, avail, inCnt, availCnt, commVars, inbox,
                 poolVars, workerVars, done>>

StartWorkers ==
  /\ mpc = "setup" /\ pos > Len(Order)
  /\ mpc' = "assign"
  /\ UNCHANGED <<pos, taskCnt, burst, queueVars, commVars, lockVars, inbox,
                 poolVars, workerVars, done>>

FreeAfterAssign(w) ==
  IF load[w] + 1 = RingSize THEN Tail(free) ELSE free

(* assignWork: the top ready task goes to the first free worker, which     *)
(* leaves the list when it holds two tasks.  The task counts as done for   *)
(* the loop from now on.                                                   *)
Assign(t) ==
  LET w == Head(free) IN
  /\ mpc = "assign" /\ taskCnt > 0 /\ free # <<>>
  /\ Top(ready, t)
  /\ Len(ring[w]) < RingSize
  /\ ring' = [ring EXCEPT ![w] = Append(@, t)]
  /\ load' = [load EXCEPT ![w] = @ + 1]
  /\ free' = FreeAfterAssign(w)
  /\ taskCnt' = taskCnt - 1
  /\ ready' = ready \ {t}
  /\ UNCHANGED <<mpc, pos, burst, avail, inCnt, availCnt, commVars, lockVars,
                 inbox, workerVars, done>>

(* Nothing more to assign (no ready task, no free worker, or set refused): *)
(* upcxx::progress() is entered with the lpcs that are there.              *)
EnterProgress ==
  /\ mpc = "assign" /\ taskCnt > 0
  /\ ready = {} \/ (free # <<>> => Len(ring[Head(free)]) = RingSize)
  /\ mpc' = "progress"
  /\ burst' = Len(inbox)
  /\ UNCHANGED <<pos, taskCnt, queueVars, commVars, lockVars, inbox, poolVars,
                 workerVars, done>>

InProgress == mpc \in {"progress", "drain", "final"}

NextLpc(kind) == InProgress /\ inbox # <<>> /\ Head(inbox).kind = kind

PopLpc == /\ inbox' = Tail(inbox)
          /\ burst' = IF burst > 0 THEN burst - 1 ELSE 0

(* The lpc of satisfy_dep.                                                 *)
HandleDep ==
  LET t == Head(inbox).task IN
  /\ NextLpc("dep")
  /\ PopLpc
  /\ inCnt' = [inCnt EXCEPT ![t] = @ - 1]
  /\ IF inCnt[t] = 1 THEN Activate(t) ELSE UNCHANGED <<ready, inUse, delayed>>
  /\ UNCHANGED <<mpc, pos, taskCnt, avail, availCnt, commVars, poolVars,
                 workerVars, done>>

(* The lpc of avail_dep.                                                   *)
HandleAvail ==
  LET t == Head(inbox).task IN
  /\ NextLpc("avail")
  /\ PopLpc
  /\ availCnt' = [availCnt EXCEPT ![t] = @ - 1]
  /\ avail' = IF availCnt[t] = 1 THEN avail \cup {t} ELSE avail
  /\ UNCHANGED <<mpc, pos, taskCnt, ready, inCnt, commVars, lockVars, poolVars,
                 workerVars, done>>

(* Slip: the tasks delayed on the released cell are not looked at.         *)
WakeNobody(c) == UNCHANGED <<ready, inUse, delayed>>

(* The oldest task delayed on the released cell retries the lock.          *)
WakeDelayed(c) ==
  \/ /\ c = NoCell
     /\ UNCHANGED <<ready, inUse, delayed>>
  \/ /\ c # NoCell /\ delayed[c] = <<>>
     /\ UNCHANGED <<ready, inUse, delayed>>
  \/ /\ c # NoCell /\ delayed[c] # <<>>
     /\ IF Lockable(Head(delayed[c]))
        THEN /\ TakeLock(Head(delayed[c]))
             /\ ready' = ready \cup {Head(delayed[c])}
             /\ delayed' = [delayed EXCEPT ![c] = Tail(@)]
        ELSE UNCHANGED <<ready, inUse, delayed>>

(* Slips: the worker re-enters free_workers_ with each report, or never.   *)
FreeAgainAlways(w) == Append(free, w)
FreeNeverAgain(w)  == free

FreeAfterReport(w) == IF load[w] - 1 = 1 THEN Append(free, w) ELSE free

(* The lpc a worker posts after each task.                                 *)
HandleDone ==
  LET w == Head(inbox).worker IN
  /\ NextLpc("done")
  /\ PopLpc
  /\ WakeDelayed(Head(inbox).cell)
  /\ load' = [load EXCEPT ![w] = @ - 1]
  /\ free' = FreeAfterReport(w)
  /\ UNCHANGED <<mpc, pos, taskCnt, avail, inCnt, availCnt, commVars, ring,
                 workerVars, done>>

(* The rpc handler: one shared incoming_data_t, an avail_dep for every     *)
(* target, and the eager rget.                                             *)
Deliver(m) ==
  /\ InProgress /\ msg[m] = "away"
  /\ msg' = [msg EXCEPT ![m] = "fetching"]
  /\ inbox' = inbox \o AvailLpcs(MsgTo[m])
  /\ UNCHANGED <<masterVars, queueVars, thens, lockVars, poolVars, workerVars,
                 done>>

(* The rget completes: on_fetch is fulfilled and the attached callbacks    *)
(* run.                                                                    *)
Land(m) ==
  /\ InProgress /\ msg[m] = "fetching"
  /\ msg' = [msg EXCEPT ![m] = "landed"]
  /\ inbox' = inbox \o DepLpcs(thens[m])
  /\ thens' = [thens EXCEPT ![m] = <<>>]
  /\ UNCHANGED <<masterVars, queueVars, lockVars, poolVars, workerVars, done>>

LeaveProgress ==
  /\ mpc = "progress" /\ burst = 0
  /\ mpc' = "comm"
  /\ UNCHANGED <<pos, taskCnt, burst, queueVars, commVars, lockVars, inbox,
                 poolVars, workerVars, done>>

(* input_msg: an entry for each time an rpc lists the task.                *)
Inputs(t) == Entries(t, MsgTo)

(* Slip: an announced message counts as landed.                            *)
AnnouncedInputs(t) == {x \in Inputs(t) : msg[x[1]] # "away"}

LandedInputs(t) == {x \in Inputs(t) : msg[x[1]] = "landed"}

UsesOf(t, m) == {i \in DOMAIN MsgTo[m] : MsgTo[m][i] = t}

(* The top avail task attaches a satisfy_dep to every entry of input_msg;  *)
(* the callback of a message that has landed runs at once.                 *)
Fetch(t) ==
  /\ mpc = "comm" /\ Top(avail, t)
  /\ avail' = avail \ {t}
  /\ thens' = [m \in Msg |->
                 IF msg[m] = "fetching"
                 THEN thens[m] \o [i \in 1..Cardinality(UsesOf(t, m)) |-> t]
                 ELSE thens[m]]
  /\ inbox' =
       inbox \o [i \in 1..Cardinality(LandedInputs(t)) |-> DepLpc(t)]
  /\ UNCHANGED <<masterVars, ready, inCnt, availCnt, msg, lockVars, poolVars,
                 workerVars, done>>

LoopBack ==
  /\ mpc = "comm" /\ avail = {}
  /\ mpc' = "assign"
  /\ UNCHANGED <<pos, taskCnt, burst, queueVars, commVars, lockVars, inbox,
                 poolVars, workerVars, done>>

(* Every task has been handed over: progress, discharge.                   *)
LeaveLoop ==
  /\ mpc = "assign" /\ taskCnt = 0
  /\ mpc' = "drain"
  /\ burst' = Len(inbox)
  /\ UNCHANGED <<pos, taskCnt, queueVars, commVars, lockVars, inbox, poolVars,
                 workerVars, done>>

SetDone ==
  /\ mpc = "drain" /\ burst = 0
  /\ done' = TRUE
  /\ mpc' = "join"
  /\ UNCHANGED <<pos, taskCnt, burst, queueVars, commVars, lockVars, inbox,
                 poolVars, workerVars>>

(* Slip: no upcxx::progress() after the threads are joined.                *)
JoinOnly ==
  /\ mpc = "join" /\ \A w \in Worker : wpc[w] = "exit"
  /\ mpc' = "final"
  /\ UNCHANGED <<pos, taskCnt, burst, queueVars, commVars, lockVars, inbox,
                 poolVars, workerVars, done>>

Join ==
  /\ mpc = "join" /\ \A w \in Worker : wpc[w] = "exit"
  /\ mpc' = "final"
  /\ burst' = Len(inbox)
  /\ UNCHANGED <<pos, taskCnt, queueVars, commVars, lockVars, inbox, poolVars,
                 workerVars, done>>

Barrier ==
  /\ mpc = "final" /\ burst = 0
  /\ mpc' = "end"
  /\ UNCHANGED <<pos, taskCnt, burst, queueVars, commVars, lockVars, inbox,
                 poolVars, workerVars, done>>

-----------------------------------------------------------------------------
(* A worker thread.                                                        *)

Started == mpc # "setup"

(* w_p.get()                                                               *)
Get(w) ==
  /\ Started /\ wpc[w] = "get"
  /\ \/ /\ ring[w] = <<>>
        /\ wpc' = [wpc EXCEPT ![w] = "check"]
        /\ UNCHANGED <<cur, ring>>
     \/ /\ ring[w] # <<>>
        /\ wpc' = [wpc EXCEPT ![w] = "run"]
        /\ cur' = [cur EXCEPT ![w] = Head(ring[w])]
        /\ ring' = [ring EXCEPT ![w] = Tail(@)]
  /\ UNCHANGED <<masterVars, queueVars, commVars, lockVars, inbox, free, load,
                 todo, ran, done>>

(* get() returned nullptr: leave if done is set, otherwise yield and retry *)
Check(w) ==
  /\ wpc[w] = "check"
  /\ wpc' = [wpc EXCEPT ![w] = IF done THEN "exit" ELSE "get"]
  /\ UNCHANGED <<masterVars, queueVars, commVars, lockVars, inbox, poolVars,
                 cur, todo, ran, done>>

(* The computation ends: the destructor of cell_lock clears in_use.        *)
Run(w) ==
  LET t == cur[w] IN
  /\ wpc[w] = "run"
  /\ wpc' = [wpc EXCEPT ![w] = "signal"]
  /\ inUse' = IF LockOf[t] = NoCell THEN inUse
              ELSE [inUse EXCEPT ![LockOf[t]] = FALSE]
  /\ todo' = [todo EXCEPT ![w] = Out[t]]
  /\ ran' = [ran EXCEPT ![t] = @ + 1]
  /\ UNCHANGED <<masterVars, queueVars, commVars, delayed, inbox, poolVars,
                 cur, done>>

(* satisfy_dep on the next target.                                         *)
Signal(w) ==
  /\ wpc[w] = "signal" /\ todo[w] # <<>>
  /\ inbox' = Append(inbox, DepLpc(Head(todo[w])))
  /\ todo' = [todo EXCEPT ![w] = Tail(@)]
  /\ UNCHANGED <<masterVars, queueVars, commVars, lockVars, poolVars, wpc, cur,
                 ran, done>>

(* Slips: only tasks that held a lock report; the lock is read after reset *)
(* has cleared it.                                                         *)
PostIfLocked(w) ==
  inbox' = IF LockOf[cur[w]] = NoCell THEN inbox
           ELSE Append(inbox, DoneLpc(w, LockOf[cur[w]]))
PostNoLock(w) == inbox' = Append(inbox, DoneLpc(w, NoCell))

PostDone(w) == inbox' = Append(inbox, DoneLpc(w, LockOf[cur[w]]))

(* The task is reset and the master told that the worker has room.         *)
Report(w) ==
  /\ wpc[w] = "signal" /\ todo[w] = <<>>
  /\ PostDone(w)
  /\ cur' = [cur EXCEPT ![w] = None]
  /\ wpc' = [wpc EXCEPT ![w] = "get"]
  /\ UNCHANGED <<masterVars, queueVars, commVars, lockVars, poolVars, todo,
                 ran, done>>

-----------------------------------------------------------------------------
Work(w) == Get(w) \/ Check(w) \/ Run(w) \/ Signal(w) \/ Report(w)

Handle == HandleDep \/ HandleAvail \/ HandleDone

MasterStep ==
  \/ Setup \/ StartWorkers
  \/ \E t \in Task : Assign(t)
  \/ EnterProgress \/ Handle \/ LeaveProgress
  \/ \E t \in Task : Fetch(t)
  \/ LoopBack \/ LeaveLoop \/ SetDone \/ Join \/ Barrier

(* Other ranks may still be running when this one is through.              *)
Terminated == mpc = "end" /\ UNCHANGED vars

Next ==
  \/ MasterStep
  \/ \E m \in Msg : Deliver(m) \/ Land(m)
  \/ \E w \in Worker : Work(w)
  \/ Terminated

(* Every thread is scheduled again and again, and the network delivers     *)
(* what is sent: a delivery is possible whenever the master is inside      *)
(* upcxx::progress(), which it leaves and enters for ever.                 *)
Fairness ==
  /\ WF_vars(MasterStep)
  /\ \A w \in Worker : WF_vars(Work(w))
  /\ \A m \in Msg : SF_vars(Deliver(m)) /\ SF_vars(Land(m))

Spec == Init /\ [][Next]_vars
FairSpec == Spec /\ Fairness

-----------------------------------------------------------------------------
(* Properties.                                                             *)

(* A worker holds a task exactly while it runs it and signals.             *)
HoldsTask ==
  \A w \in Worker : wpc[w] \in {"run", "signal"} <=> cur[w] \in Task

(* The delayed tasks of a cell are those that need it.                     *)
DelayedInPlace ==
  \A c \in Cell : \A i \in 1..Len(delayed[c]) : LockOf[delayed[c][i]] = c

(* Each variable stays within its type; the program counters name the      *)
(* points of execute where another thread can intervene.                   *)
TypeOK ==
  /\ mpc \in {"setup", "assign", "progress", "comm", "drain", "join",
              "final", "end"}
  /\ pos \in Nat \ {0} /\ burst \in Nat /\ taskCnt \in Int
  /\ ready \in SUBSET Task /\ avail \in SUBSET Task
  /\ inCnt \in [Task -> Int] /\ availCnt \in [Task -> Int]
  /\ msg \in [Msg -> {"away", "fetching", "landed"}]
  /\ thens \in [Msg -> Seq(Task)]
  /\ inUse \in [Cell -> BOOLEAN]
  /\ delayed \in [Cell -> Seq(Task)]
  /\ inbox \in Seq(Lpc)
  /\ free \in Seq(Worker)
  /\ load \in [Worker -> 0..RingSize]
  /\ ring \in [Worker -> Seq(Task)]
  /\ wpc \in [Worker -> {"get", "check", "run", "signal", "exit"}]
  /\ cur \in [Worker -> Task \cup {None}]
  /\ todo \in [Worker -> Seq(Task)]
  /\ ran \in [Task -> Nat]
  /\ done \in BOOLEAN

(* The assertions of assignWork and of the workers' lpc: a worker is in    *)
(* free_workers_ (once) exactly when it has fewer than two tasks.          *)
FreeListExact ==
  /\ \A w \in Worker : w \in Elems(free) <=> load[w] < RingSize
  /\ \A i, j \in 1..Len(free) : free[i] = free[j] => i = j

Reports(s, w) == {i \in 1..Len(s) : s[i].kind = "done" /\ s[i].worker = w}

Busy(w) == IF wpc[w] \in {"run", "signal"} THEN 1 ELSE 0

(* worker_loads_ counts the tasks in the worker's ring, the one it is      *)
(* executing, and those whose report the master has not handled: a report  *)
(* always finds a positive load, and set never meets a full ring.          *)
LoadExact ==
  \A w \in Worker :
    load[w] = Len(ring[w]) + Busy(w) + Cardinality(Reports(inbox, w))

(* The flag of a cell is set exactly while one task holds it, from the     *)
(* moment it becomes ready until its computation ends: as the program has  *)
(* no owner for a flag, this is what makes the unlock of one task never    *)
(* free the cell of another.                                               *)
InReady(c)   == {t \in ready : LockOf[t] = c}
InRing(c)    == {x \in Worker \X (1..RingSize) :
                   x[2] <= Len(ring[x[1]]) /\ LockOf[ring[x[1]][x[2]]] = c}
Computing(c) == {w \in Worker : wpc[w] = "run" /\ LockOf[cur[w]] = c}

AtMostOne(S) == \A x, y \in S : x = y

CellHeld(c) ==
  /\ inUse[c] <=> InReady(c) # {} \/ InRing(c) # {} \/ Computing(c) # {}
  /\ AtMostOne(InReady(c)) /\ AtMostOne(InRing(c)) /\ AtMostOne(Computing(c))
  /\ InReady(c) = {} \/ InRing(c) = {}
  /\ InReady(c) = {} \/ Computing(c) = {}
  /\ InRing(c) = {} \/ Computing(c) = {}

LockHeld == \A c \in Cell : CellHeld(c)

(* Two workers never compute into the same cell at the same time.          *)
CellExclusive ==
  \A v, w \in Worker :
    /\ v # w /\ wpc[v] = "run" /\ wpc[w] = "run"
    /\ LockOf[cur[v]] # NoCell
    => LockOf[cur[v]] # LockOf[cur[w]]

(* A task delayed on a cell is never forgotten: the cell is held, or a     *)
(* report that will retry it is on its way.                                *)
Signalling(c) == \E w \in Worker : wpc[w] = "signal" /\ LockOf[cur[w]] = c

ReportFor(s, c) == \E i \in 1..Len(s) : s[i].kind = "done" /\ s[i].cell = c

DelayedIsWoken ==
  \A c \in Cell :
    delayed[c] # <<>> => inUse[c] \/ Signalling(c) \/ ReportFor(inbox, c)

Sources(t) == {s \in Task : \E i \in DOMAIN Out[s] : Out[s][i] = t}

(* A task runs only after every local task it depends on has run and every *)
(* message it takes has landed.                                            *)
InputsFirst ==
  \A w \in Worker : wpc[w] = "run" =>
    /\ \A s \in Sources(cur[w]) : ran[s] = 1
    /\ \A x \in Inputs(cur[w]) : msg[x[1]] = "landed"

(* When execute returns, nothing is left behind on the master: no lpc, no  *)
(* delayed, ready or available task, and every worker back at load 0 or    *)
(* still charged with a task it never ran.                                 *)
CleanExit ==
  mpc = "end" =>
    /\ inbox = <<>> /\ ready = {} /\ avail = {}
    /\ \A c \in Cell : delayed[c] = <<>>
    /\ \A w \in Worker : load[w] = Len(ring[w])

(* The assertion of ~worker_ptrs: both slots are empty when the rings are  *)
(* destroyed.  The code breaks it: see README, finding 1.                  *)
RingsEmptyAtExit ==
  mpc = "end" => \A w \in Worker : ring[w] = <<>>

(* Every task is eventually handed to a worker and execute returns.        *)
Returns == <>(mpc = "end")

(* A task that was delayed on a cell eventually gets it.                   *)
DelayedRuns ==
  \A t \in Task : (\E c \in Cell : t \in Elems(delayed[c])) ~> t \in ready
=============================================================================
