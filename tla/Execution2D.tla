---------------------------- MODULE Execution2D ----------------------------
(***************************************************************************)
(* The single-threaded loop of Scheduler2D::execute on every rank, for any *)
(* task graph: what the loop does with a task, its counters, the lpcs they *)
(* are decremented by, and the rpcs and rgets of incoming data.  What a    *)
(* task computes and whom it signals is said by the module that extends    *)
(* this one.                                                               *)
(***************************************************************************)
EXTENDS Distribution2D, Sequences, SequencesExt

VARIABLES
  pc,        \* where the rank is in execute
  taskCnt,   \* local_task_cnt
  burst,     \* lpcs the running upcxx::progress() still has to run
  ready,     \* ready_tasks of all ranks
  avail,     \* avail_tasks of all ranks
  inCnt,     \* in_counter of each task
  availCnt,  \* in_avail_counter of each task
  net,       \* rpcs on their way, <<task, rank>>
  data,      \* incoming_data_t: absent, fetching or landed
  thens,     \* tasks attached to each incoming_data_t, one entry per callback
  inbox      \* lpcs posted to the master persona of each rank

commVars == <<net, data, thens>>
taskVars == <<ready, avail, inCnt, availCnt>>
loopVars == <<pc, taskCnt, burst, taskVars, commVars, inbox>>

OnRank(r, tasks) == {t \in tasks : t.rank = r}

(* satisfy_dep and avail_dep post an lpc that takes n off a counter.       *)
DepLpc(t, n)   == [kind |-> "dep", task |-> t, count |-> n]
AvailLpc(t, n) == [kind |-> "avail", task |-> t, count |-> n]

LoopInit(tasks, incoming, local, remote) ==
  /\ pc = [r \in Rank |-> "before"]
  /\ taskCnt = [r \in Rank |-> Cardinality(OnRank(r, tasks))]
  /\ burst = [r \in Rank |-> 0]
  /\ ready = {} /\ avail = {}
  /\ inCnt = [t \in tasks |-> local[t] + remote[t]]
  /\ availCnt = [t \in tasks |-> remote[t]]
  /\ net = {}
  /\ data = [d \in incoming |-> "absent"]
  /\ thens = [d \in incoming |-> <<>>]
  /\ inbox = [r \in Rank |-> <<>>]

(* Entering execute: the promises of the rank's tasks are finalized, which *)
(* runs the continuations of those already fulfilled.                      *)
(* fetchers: the tasks with a dependency on another rank.                  *)
Start(r, fetchers) ==
  /\ pc[r] = "before"
  /\ pc' = [pc EXCEPT ![r] = "loop"]
  /\ ready' = ready \cup {t \in OnRank(r, DOMAIN inCnt) : inCnt[t] = 0}
  /\ avail' = avail \cup {t \in OnRank(r, fetchers) : availCnt[t] = 0}
  /\ UNCHANGED <<taskCnt, burst, inCnt, availCnt, commVars, inbox>>

(* The top ready task is executed: it posts lpcs for its successors on     *)
(* this rank and sends rpcs to the others.                                 *)
Run(r, t, lpcs, rpcs) ==
  /\ pc[r] = "loop" /\ taskCnt[r] > 0
  /\ t \in Top(OnRank(r, ready))
  /\ inbox' = [inbox EXCEPT ![r] = @ \o lpcs]
  /\ net' = net \cup rpcs
  /\ ready' = ready \ {t}
  /\ taskCnt' = [taskCnt EXCEPT ![r] = @ - 1]
  /\ burst' = [burst EXCEPT ![r] = Len(inbox'[r])]
  /\ pc' = [pc EXCEPT ![r] = "progress"]
  /\ UNCHANGED <<avail, inCnt, availCnt, data, thens>>

(* No task is ready: the loop goes straight to upcxx::progress().          *)
Idle(r) ==
  /\ pc[r] = "loop" /\ taskCnt[r] > 0
  /\ OnRank(r, ready) = {}
  /\ burst' = [burst EXCEPT ![r] = Len(inbox[r])]
  /\ pc' = [pc EXCEPT ![r] = "progress"]
  /\ UNCHANGED <<taskCnt, taskVars, commVars, inbox>>

(* upcxx::progress() is also called before execute (by the collectives of  *)
(* the distribution), after the loop and inside the final barrier.         *)
InProgress(r) == pc[r] # "loop" /\ pc[r] # "comm" /\ pc[r] # "end"

NextLpc(r, kind) ==
  InProgress(r) /\ inbox[r] # <<>> /\ Head(inbox[r]).kind = kind

PopLpc(r) ==
  /\ inbox' = [inbox EXCEPT ![r] = Tail(@)]
  /\ burst' = [burst EXCEPT ![r] = IF @ > 0 THEN @ - 1 ELSE 0]

(* The lpc of satisfy_dep; the continuation needs the promise finalized.   *)
HandleDep(r) ==
  LET lpc == Head(inbox[r])  t == lpc.task IN
  /\ NextLpc(r, "dep")
  /\ PopLpc(r)
  /\ inCnt' = [inCnt EXCEPT ![t] = @ - lpc.count]
  /\ ready' = IF inCnt[t] = lpc.count /\ pc[r] # "before" THEN ready \cup {t}
              ELSE ready
  /\ UNCHANGED <<pc, taskCnt, avail, availCnt, commVars>>

(* The lpc of avail_dep.                                                   *)
HandleAvail(r) ==
  LET lpc == Head(inbox[r])  t == lpc.task IN
  /\ NextLpc(r, "avail")
  /\ PopLpc(r)
  /\ availCnt' = [availCnt EXCEPT ![t] = @ - lpc.count]
  /\ avail' = IF availCnt[t] = lpc.count /\ pc[r] # "before" THEN avail \cup {t}
              ELSE avail
  /\ UNCHANGED <<pc, taskCnt, ready, inCnt, commVars>>

(* The rpc handler: incoming_data_t are made and their rgets started, and  *)
(* the targets told that one more of their inputs is available.            *)
Receive(m, made, lpcs) ==
  /\ InProgress(m[2]) /\ m \in net
  /\ net' = net \ {m}
  /\ data' = [d \in DOMAIN data |-> IF d \in made THEN "fetching" ELSE data[d]]
  /\ inbox' = [inbox EXCEPT ![m[2]] = @ \o lpcs]
  /\ UNCHANGED <<pc, taskCnt, burst, taskVars, thens>>

(* The rget completes and the callbacks attached so far run.               *)
Arrive(d) ==
  /\ InProgress(d[2]) /\ data[d] = "fetching"
  /\ data' = [data EXCEPT ![d] = "landed"]
  /\ inbox' = [inbox EXCEPT ![d[2]] =
                 @ \o [i \in DOMAIN thens[d] |-> DepLpc(thens[d][i], 1)]]
  /\ thens' = [thens EXCEPT ![d] = <<>>]
  /\ UNCHANGED <<pc, taskCnt, burst, taskVars, net>>

LeaveProgress(r) ==
  /\ pc[r] = "progress" /\ burst[r] = 0
  /\ pc' = [pc EXCEPT ![r] = "comm"]
  /\ UNCHANGED <<taskCnt, burst, taskVars, commVars, inbox>>

(* The top avail task attaches to each of its messages, once per entry of  *)
(* input_msg (uses); the callback of a message that has landed, among      *)
(* done, runs at once.  One task per turn of the loop.                     *)
Attach(r, t, uses, done) ==
  /\ pc[r] = "comm" /\ t \in Top(OnRank(r, avail))
  /\ avail' = avail \ {t}
  /\ thens' = [d \in DOMAIN data |->
                 IF data[d] = "fetching"
                 THEN thens[d] \o [i \in 1..uses[d] |-> t] ELSE thens[d]]
  /\ inbox' = [inbox EXCEPT ![r] = @ \o [i \in 1..done |-> DepLpc(t, 1)]]
  /\ pc' = [pc EXCEPT ![r] = "loop"]
  /\ UNCHANGED <<taskCnt, burst, ready, inCnt, availCnt, net, data>>

NothingToFetch(r) ==
  /\ pc[r] = "comm" /\ OnRank(r, avail) = {}
  /\ pc' = [pc EXCEPT ![r] = "loop"]
  /\ UNCHANGED <<taskCnt, burst, taskVars, commVars, inbox>>

(* Every local task is executed: discharge, then what next names.          *)
LeaveLoop(r, next) ==
  /\ pc[r] = "loop" /\ taskCnt[r] = 0
  /\ pc' = [pc EXCEPT ![r] = next]
  /\ UNCHANGED <<taskCnt, burst, taskVars, commVars, inbox>>

(* Slip: a rank leaves once its own tasks are done.                        *)
LeaveAlone(r) ==
  /\ pc[r] = "barrier"
  /\ pc' = [pc EXCEPT ![r] = "end"]
  /\ UNCHANGED <<taskCnt, burst, taskVars, commVars, inbox>>

PassBarrier(r) ==
  /\ pc[r] = "barrier"
  /\ \A q \in Rank : pc[q] \in {"barrier", "end"}
  /\ pc' = [pc EXCEPT ![r] = "end"]
  /\ UNCHANGED <<taskCnt, burst, taskVars, commVars, inbox>>

(* The turns of the loop that touch nothing but the loop's own variables.  *)
Turn(r, fetchers) ==
  \/ Start(r, fetchers) \/ Idle(r)
  \/ HandleDep(r) \/ HandleAvail(r) \/ LeaveProgress(r)
  \/ NothingToFetch(r) \/ PassBarrier(r)

Ended == \A r \in Rank : pc[r] = "end"

-----------------------------------------------------------------------------
(* Properties.                                                             *)

(* The assertions of satisfy_dep and avail_dep, and no task executed twice *)
(* or started while a signal to it is still to come.                       *)
CountersSound(executed) ==
  \A t \in DOMAIN inCnt :
    /\ inCnt[t] >= 0 /\ availCnt[t] >= 0
    /\ t \in ready => t \notin executed
    /\ t \in ready \cup executed => inCnt[t] = 0 /\ availCnt[t] = 0
=============================================================================
