--------------------------- MODULE ThreadedRun1D ---------------------------
(***************************************************************************)
(* Scheduler::run of the 1D code with worker threads, on the tasks of      *)
(* FactorizationFanBoth, for a single rank: no message, no aggregate.  The *)
(* main thread takes the ready tasks and deals them in turn to the queues  *)
(* of a WorkQueue; the workers execute them, and give their signals        *)
(* themselves: a task leaves the graph in updateTask and enters the        *)
(* scheduler in push, two calls.                                           *)
(***************************************************************************)
EXTENDS Integers, Sequences, FiniteSets, SequencesExt

CONSTANTS
  NS,         \* supernodes are 1..NS
  Struct,     \* Struct[I]: the supernodes below I with a row in it
  NumThread,  \* Multithreading::NumThread; 3 or more, see README
  None        \* nullptr, for a task

Sup == 1..NS

(* Beside the workers there are the main and the progress thread, which    *)
(* has nothing to do for a single rank.                                    *)
NW == NumThread - 2
Worker == 0..(NW - 1)

(* A task is <<src, tgt>>: FACTOR if they are equal, otherwise UPDATE.     *)
Factors == {<<J, J>> : J \in Sup}
Updates == {<<I, J>> \in Sup \X Sup : J \in Struct[I]}
Task    == Factors \cup Updates

VARIABLES
  mpc,       \* where the main thread is in run
  graph,     \* the tasks in the taskGraph
  deps,      \* local_deps of a task
  ready,     \* readyTasks_
  delayed,   \* delayedTasks_
  at,        \* taskit, the task of delayedTasks_ that is looked at
  inUse,     \* the supernodes whose in_use is set
  queue,     \* workQueues_
  slot,      \* prev_slot_
  done,      \* WorkQueue::done
  wpc,       \* where each worker is
  cur,       \* the task it executes
  todo,      \* the tasks it has yet to signal
  executed   \* history: the tasks whose computation has ended

mainVars   == <<mpc, delayed, at, slot, done>>
graphVars  == <<graph, deps>>
workerVars == <<wpc, cur, todo, executed>>
vars == <<mainVars, graphVars, ready, inUse, queue, workerVars>>

(* The tasks a task signals: a factor in the order of FindNextUpdate.      *)
Targets(t) ==
  IF t \in Factors
  THEN LET below == SetToSortSeq(Struct[t[1]], <)
       IN [i \in 1..Len(below) |-> <<t[1], below[i]>>]
  ELSE << <<t[2], t[2]>> >>

LocalDeps(t) ==
  IF t \in Factors THEN Cardinality({u \in Updates : u[2] = t[1]}) ELSE 1

(* The tasks without dependencies have left the graph before the loop.     *)
Init ==
  /\ mpc = "graph" /\ delayed = <<>> /\ at = 1 /\ slot = 0 /\ done = FALSE
  /\ deps = [t \in Task |-> LocalDeps(t)]
  /\ graph = {t \in Task : LocalDeps(t) > 0}
  /\ ready = Task \ graph
  /\ inUse = {}
  /\ queue = [w \in Worker |-> <<>>]
  /\ wpc = [w \in Worker |-> "pop"]
  /\ cur = [w \in Worker |-> None]
  /\ todo = [w \in Worker |-> <<>>]
  /\ executed = {}

-----------------------------------------------------------------------------
(* The main thread.                                                        *)

(* The loop test reads the size of the graph, under the lock of the graph, *)
(* then, if it was 0, the queue and the delayed tasks.                     *)
TestGraph ==
  /\ mpc = "graph"
  /\ mpc' = IF graph # {} THEN "delayed" ELSE "queue"
  /\ at' = 1
  /\ UNCHANGED <<delayed, slot, done, graphVars, ready, inUse, queue, workerVars>>

TestQueue ==
  /\ mpc = "queue"
  /\ mpc' = IF ready # {} \/ delayed # <<>> THEN "delayed" ELSE "left"
  /\ UNCHANGED <<delayed, at, slot, done, graphVars, ready, inUse, queue,
                 workerVars>>

(* extraTaskHandle_ returns false.                                         *)
Claim(t) ==
  \/ t \in Factors /\ UNCHANGED inUse
  \/ t \in Updates /\ t[2] \notin inUse /\ inUse' = inUse \cup {t[2]}

(* It returns true: the exchange fails, without reason if it is weak.      *)
Refuse(t) == t \in Updates /\ UNCHANGED inUse

PushTask(t) ==
  /\ queue' = [queue EXCEPT ![slot] = Append(@, t)]
  /\ slot' = (slot + 1) % NW

RetryDelayed ==
  /\ mpc = "delayed" /\ at <= Len(delayed)
  /\ LET t == delayed[at] IN
       \/ /\ Claim(t) /\ PushTask(t)
          /\ delayed' = RemoveAt(delayed, at)
          /\ UNCHANGED at
       \/ /\ Refuse(t)
          /\ at' = at + 1
          /\ UNCHANGED <<delayed, queue, slot>>
  /\ UNCHANGED <<mpc, done, graphVars, ready, workerVars>>

DelayedRetried ==
  /\ mpc = "delayed" /\ at > Len(delayed)
  /\ mpc' = "take"
  /\ UNCHANGED <<delayed, at, slot, done, graphVars, ready, inUse, queue,
                 workerVars>>

(* top and pop, in any order: see Scheduler1D.                             *)
Take(t) ==
  /\ mpc = "take" /\ t \in ready
  /\ ready' = ready \ {t}
  /\ \/ Claim(t) /\ PushTask(t) /\ UNCHANGED delayed
     \/ Refuse(t) /\ delayed' = Append(delayed, t) /\ UNCHANGED <<queue, slot>>
  /\ UNCHANGED <<mpc, at, done, graphVars, workerVars>>

NothingReady ==
  /\ mpc = "take" /\ ready = {}
  /\ mpc' = "graph"
  /\ UNCHANGED <<delayed, at, slot, done, graphVars, ready, inUse, queue,
                 workerVars>>

(* The progress thread is joined and the barrier passed; the WorkQueue is  *)
(* destroyed at the end of the block.                                      *)
SetDone ==
  /\ mpc = "left"
  /\ mpc' = "join" /\ done' = TRUE
  /\ UNCHANGED <<delayed, at, slot, graphVars, ready, inUse, queue, workerVars>>

Join ==
  /\ mpc = "join" /\ \A w \in Worker : wpc[w] = "exit"
  /\ mpc' = "end"
  /\ UNCHANGED <<delayed, at, slot, done, graphVars, ready, inUse, queue,
                 workerVars>>

-----------------------------------------------------------------------------
(* A worker: consume, and the tasks.                                       *)

Pop(w) ==
  /\ wpc[w] = "pop" /\ queue[w] # <<>>
  /\ cur' = [cur EXCEPT ![w] = Head(queue[w])]
  /\ queue' = [queue EXCEPT ![w] = Tail(@)]
  /\ wpc' = [wpc EXCEPT ![w] = "run"]
  /\ UNCHANGED <<mainVars, graphVars, ready, inUse, todo, executed>>

Exit(w) ==
  /\ wpc[w] = "pop" /\ queue[w] = <<>> /\ done
  /\ wpc' = [wpc EXCEPT ![w] = "exit"]
  /\ UNCHANGED <<mainVars, graphVars, ready, inUse, queue, cur, todo, executed>>

(* Factorize, or UpdateAggregate on the target itself.                     *)
Compute(w) ==
  /\ wpc[w] = "run"
  /\ wpc' = [wpc EXCEPT ![w] = "update"]
  /\ todo' = [todo EXCEPT ![w] = Targets(cur[w])]
  /\ executed' = executed \cup {cur[w]}
  /\ UNCHANGED <<mainVars, graphVars, ready, inUse, queue, cur>>

(* updateTask, under the lock of the graph.                                *)
UpdateTask(w) ==
  LET t == Head(todo[w]) IN
  /\ wpc[w] = "update" /\ todo[w] # <<>>
  /\ deps' = [deps EXCEPT ![t] = @ - 1]
  /\ IF deps[t] = 1
     THEN /\ graph' = graph \ {t}
          /\ wpc' = [wpc EXCEPT ![w] = "push"]
          /\ UNCHANGED todo
     ELSE /\ todo' = [todo EXCEPT ![w] = Tail(@)]
          /\ UNCHANGED <<graph, wpc>>
  /\ UNCHANGED <<mainVars, ready, inUse, queue, cur, executed>>

(* push, under the lock of the scheduler.                                  *)
Push(w) ==
  /\ wpc[w] = "push"
  /\ ready' = ready \cup {Head(todo[w])}
  /\ todo' = [todo EXCEPT ![w] = Tail(@)]
  /\ wpc' = [wpc EXCEPT ![w] = "update"]
  /\ UNCHANGED <<mainVars, graphVars, inUse, queue, cur, executed>>

(* The end of the task: the destructor of supernode_lock, and reset.       *)
Finish(w) ==
  /\ wpc[w] = "update" /\ todo[w] = <<>>
  /\ inUse' = IF cur[w] \in Updates THEN inUse \ {cur[w][2]} ELSE inUse
  /\ cur' = [cur EXCEPT ![w] = None]
  /\ wpc' = [wpc EXCEPT ![w] = "pop"]
  /\ UNCHANGED <<mainVars, graphVars, ready, queue, todo, executed>>

-----------------------------------------------------------------------------
MainStep ==
  \/ TestGraph \/ TestQueue \/ RetryDelayed \/ DelayedRetried
  \/ \E t \in Task : Take(t)
  \/ NothingReady \/ SetDone \/ Join

Work(w) ==
  \/ Pop(w) \/ Exit(w) \/ Compute(w) \/ UpdateTask(w) \/ Push(w) \/ Finish(w)

Terminated == mpc = "end" /\ UNCHANGED vars

Next == MainStep \/ (\E w \in Worker : Work(w)) \/ Terminated

Spec == Init /\ [][Next]_vars

-----------------------------------------------------------------------------
(* When run returns, every supernode has been factored and every update    *)
(* made.  The code breaks it: a worker has taken the last task out of the  *)
(* graph and not yet pushed it when the main thread finds the graph, the   *)
(* queue and the delayed tasks empty.  See README, finding 4.              *)
AllExecuted == mpc = "end" => executed = Task
=============================================================================
