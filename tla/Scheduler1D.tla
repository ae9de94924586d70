---------------------------- MODULE Scheduler1D ----------------------------
(***************************************************************************)
(* Scheduler::run of the 1D code with one thread per rank, for any task    *)
(* graph, with supernodalTaskGraph and CommPull under it.  What is sent is *)
(* an announcement (signal_data): the receiver reads the data with an      *)
(* rget, at once if it has fewer than gMaxIrecv of them under way,         *)
(* otherwise when there is room or nothing else to do.  What the tasks do  *)
(* is said by the modules that extend this one.                            *)
(*                                                                         *)
(* A task is <<type, src, tgt, rank>>; a message <<src, task>> comes from  *)
(* a supernode and is read for a task.  Ready tasks are taken in any       *)
(* order: there are four schedulers.                                       *)
(***************************************************************************)
EXTENDS Distribution1D, Sequences

CONSTANT MaxIrecv   \* gMaxIrecv; -1: no limit

ASSUME SchedulerAssumption == MaxIrecv \in Nat \cup {-1}

RankOf(t)   == t[4]
Mine(r, S)  == {t \in S : RankOf(t) = r}
OnRank(r, S) == {m \in S : RankOf(m[2]) = r}

VARIABLES
  call,        \* call[r]: which call of run rank r is in, or after
  pc,          \* pc[r]: where it is in it
  graph,       \* the tasks in the taskGraphs
  ready,       \* the tasks in the schedulers' queues
  localDeps,   \* local_deps of a task
  remoteDeps,  \* remote_deps of a task
  net,         \* announcements that have not arrived
  async,       \* gIncomingRecvAsync of all ranks
  blocking,    \* blocking[r]: gIncomingRecv
  got          \* got[m]: the data of a message handled and still in use

placeVars == <<call, pc>>
graphVars == <<graph, ready, localDeps, remoteDeps>>
commVars  == <<net, async, blocking>>
runVars   == <<placeVars, graphVars, commVars, got>>

(* The loop test of run: something waits or is ready.                      *)
Loop(r, waiting, queued) ==
  IF Mine(r, waiting \cup queued) # {} THEN "check" ELSE "drain"

(* Tasks without dependencies leave the graph before the loop.             *)
Free(tasks) == {t \in tasks : localDeps[t] = 0 /\ remoteDeps[t] = 0}

(* Before the first call, which all ranks make with the tasks given.       *)
RunInit(tasks) ==
  /\ call = [r \in Rank |-> 1]
  /\ graph = tasks \ Free(tasks) /\ ready = Free(tasks)
  /\ pc = [r \in Rank |-> Loop(r, graph, ready)]
  /\ net = {} /\ async = {} /\ blocking = [r \in Rank |-> <<>>]
  /\ got = <<>>

(* Rank r calls run again, with other tasks.                               *)
RunAgain(r, tasks) ==
  /\ pc[r] = "end"
  /\ call' = [call EXCEPT ![r] = @ + 1]
  /\ graph' = graph \cup (tasks \ Free(tasks))
  /\ ready' = ready \cup Free(tasks)
  /\ pc' = [pc EXCEPT ![r] = Loop(r, graph', ready')]
  /\ UNCHANGED <<localDeps, remoteDeps, commVars, got>>

-----------------------------------------------------------------------------
(* updateTask and dec_ref: a task that has had its last signal leaves the  *)
(* graph for the queue; here for the tasks that get a local and those that *)
(* get a remote one.                                                       *)
Signal(local, remote, executed) ==
  LET due == {t \in local \cup remote : localDeps'[t] = 0 /\ remoteDeps'[t] = 0}
  IN /\ localDeps'  = [t \in DOMAIN localDeps |->
                         localDeps[t] - IF t \in local THEN 1 ELSE 0]
     /\ remoteDeps' = [t \in DOMAIN remoteDeps |->
                         remoteDeps[t] - IF t \in remote THEN 1 ELSE 0]
     /\ graph' = graph \ due
     /\ ready' = (ready \ executed) \cup due

-----------------------------------------------------------------------------
(* signal_data at the receiver, inside upcxx::progress(), which a rank     *)
(* does not call between two calls of run.                                 *)

Room(r) == MaxIrecv = -1 \/ Cardinality(OnRank(r, async)) < MaxIrecv

Arrive(m) ==
  LET r == RankOf(m[2]) IN
  /\ pc[r] # "end" /\ m \in net
  /\ net' = net \ {m}
  /\ IF Room(r) THEN async' = async \cup {m} /\ UNCHANGED blocking
                ELSE blocking' = [blocking EXCEPT ![r] = Append(@, m)]
                     /\ UNCHANGED async
  /\ UNCHANGED <<placeVars, graphVars, got>>

-----------------------------------------------------------------------------
(* checkIncomingMessages_.  What the rget of m reads is data, and atOnce   *)
(* holds if msgHandle makes a task for m, which the message makes ready.   *)

Received(m, data, atOnce) ==
  /\ got' = [k \in DOMAIN got \cup {m} |-> IF k = m THEN data ELSE got[k]]
  /\ IF atOnce
     THEN ready' = ready \cup {m[2]} /\ UNCHANGED <<graph, localDeps, remoteDeps>>
     ELSE Signal({}, {m[2]}, {})

(* The rget of m has completed.                                            *)
TakeAsync(r, m, data, atOnce) ==
  /\ pc[r] = "check" /\ m \in OnRank(r, async)
  /\ async' = async \ {m}
  /\ Received(m, data, atOnce)
  /\ UNCHANGED <<placeVars, net, blocking>>

(* Nothing has completed and nothing is ready: wait for the oldest message *)
(* that has no buffer.                                                     *)
NothingReady(r) == Mine(r, ready) = {}

TakeBlocking(r, m, data, atOnce) ==
  /\ pc[r] = "check" /\ NothingReady(r)
  /\ m = Head(blocking[r])
  /\ blocking' = [blocking EXCEPT ![r] = Tail(@)]
  /\ Received(m, data, atOnce)
  /\ UNCHANGED <<placeVars, net, async>>

(* No message to handle: messages move to the buffers that are free.       *)
Moved(r) ==
  LET len  == Len(blocking[r])
      room == MaxIrecv - Cardinality(OnRank(r, async))
  IN IF MaxIrecv = -1 \/ room >= len THEN len
     ELSE IF room > 0 THEN room ELSE 0

Promote(r) ==
  /\ pc[r] = "check"
  /\ blocking[r] = <<>> \/ ~NothingReady(r)
  /\ async' = async \cup {blocking[r][i] : i \in 1..Moved(r)}
  /\ blocking' = [blocking EXCEPT ![r] = SubSeq(@, Moved(r) + 1, Len(@))]
  /\ pc' = [pc EXCEPT ![r] = "work"]
  /\ UNCHANGED <<call, graphVars, net, got>>

-----------------------------------------------------------------------------
(* The rest of run.                                                        *)

(* Task t is executed and reset: it gives some tasks of its rank their     *)
(* signals, announces data, and hands its own to other tasks, as handed.   *)
Run(r, t, local, remote, sent, handed) ==
  /\ pc[r] = "work" /\ t \in Mine(r, ready)
  /\ Signal(local, remote, {t})
  /\ net' = net \cup sent
  /\ got' = [m \in {k \in DOMAIN got : k[2] # t} \cup DOMAIN handed |->
               IF m \in DOMAIN handed THEN handed[m] ELSE got[m]]
  /\ UNCHANGED <<placeVars, async, blocking>>

LoopBack(r) ==
  /\ pc[r] = "work" /\ NothingReady(r)
  /\ pc' = [pc EXCEPT ![r] = Loop(r, graph, {})]
  /\ UNCHANGED <<call, graphVars, commVars, got>>

(* The drain: progress() while remDealloc is positive.                     *)
LeaveDrain(r, drained) ==
  /\ pc[r] = "drain" /\ drained
  /\ pc' = [pc EXCEPT ![r] = "barrier"]
  /\ UNCHANGED <<call, graphVars, commVars, got>>

(* Slip: the ranks do not wait for each other.                             *)
PassAlone(r) ==
  /\ pc[r] = "barrier"
  /\ pc' = [pc EXCEPT ![r] = "end"]
  /\ UNCHANGED <<call, graphVars, commVars, got>>

(* All have reached the barrier of this call.  Some may have left it, and  *)
(* be in the next call.                                                    *)
PassBarrier(r) ==
  /\ pc[r] = "barrier"
  /\ \A s \in Rank :
       \/ call[s] > call[r]
       \/ call[s] = call[r] /\ pc[s] \in {"barrier", "end"}
  /\ pc' = [pc EXCEPT ![r] = "end"]
  /\ UNCHANGED <<call, graphVars, commVars, got>>

-----------------------------------------------------------------------------
Blocked(r) == {blocking[r][i] : i \in DOMAIN blocking[r]}
Pending(r) == OnRank(r, net \cup async) \cup Blocked(r)

(* Whatever task t waits for it is in the graph for, and no longer.        *)
Unexecuted(t, callNo) == call[RankOf(t)] < callNo \/ t \in graph \cup ready
=============================================================================
