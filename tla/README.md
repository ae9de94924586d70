# A TLA+ model of symPACK

symPACK factors a sparse symmetric matrix in parallel (Cholesky `LL`, or `LDL`)
over UPC++ ranks, optionally with several threads per rank, and solves with the
factor.  It exists twice: a two-dimensional code (`symPACKMatrix2D`), which
distributes blocks, and an older one-dimensional code (`symPACKMatrix`), which
distributes supernodes and sends updates as aggregates (fan-both).  This directory
models both where they can go wrong in ways a test hardly reaches: the symbolic
analysis, the task graphs, the dynamic scheduling of tasks, the messages and
one-sided reads between ranks, and the locks between threads.

Paths are relative to `src/symPACK/`.  Short names: `2D.hpp` is
`include/sympack/symPACKMatrix2D.hpp`, `Base` is
`include/sympack/impl/symPACKMatrixBase_impl.hpp`, `Sched` is
`include/sympack/impl/Scheduler_impl.hpp`, `FB` is
`include/sympack/impl/symPACKMatrix_impl_FB_pull.hpp`, `Impl` is
`include/sympack/impl/symPACKMatrix_impl.hpp`.

## 1. Inventory

| component | state | operations | interacts with |
|---|---|---|---|
| elimination tree and supernodes (`src/ETree.cpp`, Base) | parent, post-order, column counts, `xsuper` | `ConstructETree`, `PostOrderTree`, `SortChildren`, `getLColRowCount`, `findSupernodes`, `relaxSupernodes` | symbolic factorization |
| symbolic factorization (Base:786) | `lindx` of each rank, `XsuperDist_`, messages of rows | `symbolicFactorizationRelaxedDist` | mapping, task graphs |
| mapping (Mapping.hpp, LoadBalancer.hpp, 2D.hpp) | costs, groups of processes, owners | cyclic mappings, `SubtreeToSubcube(Volume)`, the cells of the 2D code | task graphs |
| 2D task graph (2D.hpp:3870-5700) | tasks with `out_dependencies` and input counts | SEND and RECV messages of `SymbolicFactorization`, for the factorization and the solve | Scheduler2D |
| `worker_ptrs` (Sched:13) | two atomic slots, a private index per side | `set` (master), `get` (worker) | Scheduler2D |
| `Scheduler2D` (2D.hpp:435, 6870-7152) | `ready_tasks`, `avail_tasks`, `delayedTasks_`, `free_workers_`, `worker_loads_`, rings, `done`; per task counters and promises; per cell `in_use` | `execute`, `assignWork`, the loop of the workers, the lpcs of `satisfy_dep` and `avail_dep` | task bodies, UPC++ |
| 2D factorization (2D.hpp:4590-5130, 6579) | cells, `incoming_data_t`, `_bufLDL`, `local_pivot` | FACTOR, TRSM, DLT2D_COMP, UPDATE2D_COMP; rpc handlers, rget callbacks | other ranks |
| 2D solve (2D.hpp:5701-6325, 6643) | `contribs` slots with a counter and a lock, `update_right_cnt`, `update_up_cnt`, `remoteDeallocCounter` | FUC, BUC, `deallocRemote`, `Solve` | Scheduler2D |
| 1D scheduler (Sched:132, supernodalTaskGraph.hpp, CommPull) | task graph, ready queue, `gIncomingRecvAsync`, `gIncomingRecv` | `run`, `checkIncomingMessages_`, `updateTask`, `signal_data` | tasks of the 1D code |
| 1D factorization (FB) | `UpdatesToDo`, aggregate vectors, `remDealloc` | `generateTaskGraph`, `FBGetUpdateCount`, FACTOR, UPDATE, AGGREGATE, `DeallocRemote` | 1D scheduler |
| 1D solve (symPACKMatrix_impl_solve.hpp) | `Contributions2_` | FUC, BUC, BU | 1D scheduler |
| interval tree, dense kernels, GPU wrappers, orderings, distributed matrices, drivers | arrays | sequential, numerical code and I/O | everything |

What makes it hard:

* **Interleaving.** In the 2D code a rank is one master thread, which alone runs
  lpcs, rpc handlers and rget callbacks (all inside `upcxx::progress()`), and worker
  threads that run task bodies.  They share the rings, the `in_use` and
  `contribs_lock` flags, the lpc queue of the master and, in the solve, counters
  that no lock covers.
* **Ordering.** Everything a rank learns from another arrives in any order and
  at any time: before it has entered `execute`, in the barrier of the call before,
  in the phase after.
* **Two ends.** A dependency exists twice, in what one task signals and in a
  counter of another, computed by different formulas on different ranks.
* **One-sided reads.** Data is announced by address and read at any later time;
  what keeps the owner from writing or freeing it is a path through the task graph
  or an answer that comes back later.
* **Exit.** Tasks count as finished for the master's loop when they are
  *assigned*, not when they have run; counters of storage lent out decide when a
  call may return.

There is no persistence and no recovery: crashes are out of scope, as are lost
messages, since UPC++ and MPI deliver reliably.  `PROJECT.json` lists the hazards
one by one, with the line where each bites and the properties aimed at it.

## 2. Modules

| module | models | by |
|---|---|---|
| `ETree` | the sequential analysis, from a graph to supernodes | operators, some recursive |
| `SymbolicFactorization` | the ranks that compute the rows of each supernode | actions; extends `ETree` |
| `SubtreeMapping` | costs, groups of processes, owners | operators |
| `Mapping` | the cyclic mappings of the 1D code | operators |
| `Distribution2D` | structure, owners, shape of tasks and signals | operators |
| `TaskGraph2D`, `SolveGraph2D` | the two 2D graphs, for any structure, owners and decomposition | operators |
| `BoundedFifo` | what a ring promises | abstract specification |
| `WorkerPtrs` | `worker_ptrs`, one action per atomic access | refines `BoundedFifo` |
| `Scheduler2D` | `execute` with threads on one rank, over any task graph | uses the rings as queues |
| `Execution2D` | the single-threaded `execute` on every rank, rpcs and rgets | actions for the next two |
| `RightLooking` | the operations of a block factorization and their order | abstract specification |
| `Factorize2D` | `Factorize` on all ranks | extends `TaskGraph2D`, `Execution2D`; refines `RightLooking` |
| `Substitution` | the operations of a triangular solve and their order | abstract specification |
| `Solve2D` | `Solve` on all ranks, with the slots | extends `SolveGraph2D`, `Execution2D`; refines `Substitution` |
| `ThreadedSolve` | the slots of one rank under worker threads, one action per load or store | |
| `Distribution1D` | structure and map of the 1D code | operators |
| `Scheduler1D` | `Scheduler::run` on every rank, over any task graph | actions for the next two |
| `SupernodalFactorization` | the operations of a supernodal factorization | abstract specification |
| `FanBoth1D` | the first call of `run`: the factorization | extends `Scheduler1D`; refines `SupernodalFactorization` |
| `Solve1D` | the second call: the solve | extends `Scheduler1D` |
| `SymPACK1D` | both calls, on every rank | composes `FanBoth1D` and `Solve1D` |
| `ThreadedRun1D` | `Scheduler::run` of one rank with a `WorkQueue`, on the tasks of the factorization | |
| `MC*` | instances for TLC; `MCAnalysis` also composes the analysis with the two 2D graphs, `MCSymPACK1D` the 1D code with its mappings | |
| `Counting` | lemmas on finite sets, places of a sequence and weights of its entries | used by the proofs of `Factorize2D`, `Solve2D` and `SymPACK1D` |
| `*_proofs` | theorems, one module per component; `Solve2D_proofs` also has those of `SolveGraph2D` | |

**The analysis.**  `ETree` follows the code array by array: the union-find forest
with path compression, the post-order, the children sorted by size, the column
counts by first descendants and previous leaves, the supernodes and their
relaxation with the thresholds of `symPACKOptions` scaled down.
In `SymbolicFactorization` the first step runs the sequential part, which every rank has;
then `RankStep` computes the rows of a rank's next supernode.  A parent that has as
many rows as the counts announce posts a receive for each child it skips and
cancels it: the message is taken or left.
`MCAnalysis` goes on from the rows found: blocks, costs and groups of
`SubtreeMapping`; the supernodes each supernode touches, as the structure; every
distribution of that structure; the edges of both graphs.

**The task graphs.**  `Struct[I]` is the set of supernodes with a row below the
diagonal of `I`, `Owner` the map of cells to ranks.  Each `case` of the two loops
of the code is one set: the edges a SEND adds, the units of a counter a
RECV adds.  Edges carry the message they come from, so that two signals between
the same tasks stay two.

**`WorkerPtrs`.**  `SetLoad/SetStore/SetFlip` are the load, the store and the index
toggle of `set`, `GetLoad/GetClear/GetFlip` those of `get`.  Accesses to one
slot are taken in a single order; the release store and the acquire load justify
reading the task after the slot.  (`get` clears the slot with a relaxed store and
`set` reads it relaxed: `set` then touches nothing the worker wrote.)

**`Scheduler2D`.**  The master's program counter `mpc` names the places where
another thread can intervene: `setup` (promises are finalized), `assign` (the
inner loop of `assignWork`), `progress`, `comm` (the loop over `avail_tasks`), then
`drain`, `join`, `final`, `end`.  A worker gets, runs, signals and reports, or finds
its ring empty and tests `done`.  `inbox` is the lpc queue of the master; `burst`
makes a call of `progress()` handle at least the lpcs queued when it was entered.
A message lists its target tasks as the rpc does: `Deliver` is the handler with
its `avail_dep`s and the eager `rget`, `Land` the completion of the `rget`, `Fetch` one turn
of the communication loop.  `LockOf` says which flag a task takes: FACTOR and
DLT2D_COMP none, the others that of the cell they write; with a single worker
nobody takes any (`extraTaskHandle_` is then null).

**`Execution2D`, `Factorize2D`, `Solve2D`.**  All ranks, one thread each.  `Run`
executes the top ready task with the signals and announcements the task module
computes, `Turn` is the rest of a turn of the loop, `Receive`, `Arrive`, `Attach`
are the rpc handler, the end of an rget and the communication loop, `LeaveLoop`
and `PassBarrier` the exit.  In `Factorize2D` the numbers are the set of
operations executed; in `Solve2D` a slot is a count of each contribution in it.
`Release` is the handler of `deallocRemote`, `Quiet` the `quiesceHandle_`.

**`ThreadedSolve`.**  Tasks of one rank that write the slots of supernodes other ranks
own; an increment of a plain integer is a load and a store, `deallocRemote` is five
steps of the master between those of the workers.

**The 1D code.**  `Arrive` is `signal_data` at the receiver: the message goes to the
asynchronous list if fewer than `gMaxIrecv` reads are under way, else to the blocking
one.  `TakeAsync` and `TakeBlocking` are the two ways `checkIncomingMessages_`
takes a message, `Promote` moves messages to free buffers, `Run` executes a task
with its signals.  Ready tasks are taken in any order, as there are four
schedulers.  A rank goes through `check`, `work`, `drain`, `barrier`, `end`, once
per call; `Solve` is the second call.  Nothing in a message says which call it
belongs to.

**`ThreadedRun1D`.**  The main thread tests (`TestGraph`, then `TestQueue`, as the loop
condition reads them), retries the delayed tasks one by one, takes the ready ones and
deals them to the workers in turn; a worker computes and gives its signals itself,
each an `UpdateTask` under the lock of the graph and, if it was the last one, a `Push`
under that of the scheduler.  With a single rank the progress thread has nothing to
do, and `checkIncomingMessages_` is not called.  The exchange on `in_use` may fail for no
reason: a delayed task is tried again whatever happens.

Definitions introduced by a comment that begins "Slip" are not part of the model:
each is the variant of the definition below it that a plausible mistake in the
code would give, and `PROJECT.json` says which property notices it.

## 3. Runs

| run | instance | states | time | shows |
|---|---|---|---|---|
| `analysis` | all graphs of 5 vertices, 3 option sets, 3 ranks; then all distributions over 2 ranks, LL and LDL | 40 107 | 70 s | counts, structure, blocks, groups; the two ends agree, no cycle |
| `worker_ptrs` | 3 tasks | 1 732 | 1 s | ring is a FIFO queue; one slot tells its state |
| `threads` | 1 master, 2 workers, 5 tasks, 2 cells, 1 message, fair | 242 308 | 124 s | locks, loads, dependencies, exit; `execute` returns, delayed tasks run |
| `last_task` | the same with a last task for all | violation | | finding 1 |
| `factor_ll` | 2 ranks, 4 supernodes, sparse, cyclic rows, fair | 54 006 | 26 s | refinement of `RightLooking`; `Factorize` returns |
| `factor_ldl` | 2 ranks, 3 supernodes, dense | 32 379 | 5 s | counters, announcements, buffers of D times L |
| `solve_ldl` | 2 ranks, 4 supernodes, dense, diagonal on one rank, fair | 108 854 | 96 s | refinement of `Substitution`; slots; `Solve` returns |
| `threaded_two` | 2 workers, 2 forward tasks and 1 backward task on a slot | 101 867 | 2 s | what the lock does protect |
| `threaded_erased` | 2 workers, 2 backward tasks | violation | | finding 2 |
| `threaded_freed` | 1 worker, 1 forward and 1 backward task | violation | | finding 3 |
| `fan_both` | 4 ranks, 6 supernodes, WRAP2D, one receive buffer, fair | 11 886 | 40 s | both calls of the 1D code |
| `last_factor` | 2 workers, two leaves and a root | violation | | finding 4 |

*Bounds.*  Five vertices give every shape of elimination tree up to five nodes, two
levels of merging, skipped children (a parent whose rows are complete before its
last child is read) and, with the relaxed options, supernodes whose columns differ
in structure; three ranks let a parent have children on two other ranks.
Structures of more than four supernodes are not distributed: the number of
distributions grows too fast, and four is the least with two updates of one cell
from different sources and a supernode without a common ancestor row.  Three
supernodes are the least with an update of an off-diagonal cell (K > J > I).  Two
ranks make every pair of owners equal or different, which is all the 2D code
tests.  In `threads` three tasks compete for one cell, so that the list of delayed
tasks reaches length two and a report can find the cell taken again; one source and
one message signal one target twice, as TRSM(J,I) does UPDATE(J,J,I); two workers with two
places each hold four of the five tasks, so that both are full while the fifth is
ready.  In `solve_ldl` the second rank uses its slots in both phases and messages
count for up to three signals.  In `fan_both` a supernode has three children, two
on one remote rank and one local; aggregates are made of several updates; one
buffer sends messages to the blocking list.  Every state space is finite without a
state constraint: nothing is cut off.

*Deadlock* is checked except in the three runs of `ThreadedSolve`: there the system
may really stop (see the observations).

*Fairness.*  Threads and ranks are scheduled (weak fairness of the master, of each
worker, of each rank).  In the 2D code a delivery can only happen while its receiver is inside
`progress()`, which it leaves and enters again and again: hence strong fairness of
deliveries (`Deliver`, `Land`, `Reached`).  In the 1D code `Complete`, the end of
an rget that the rank tests for, is only possible at the head of the loop: strong
fairness; what the network brings (`Reached`) stays possible until it happens:
weak fairness.  Nothing is assumed of the order of deliveries.

*What the properties say.*

* Analysis: `CountsAreExact` and `StructureIsExact` compare the counts and rows with
  the columns of the filled graph, computed by elimination; the second also says that
  the structure is closed under fill, which is what the task graphs assume of it.
  `BlocksTile`: the blocks are the rows, each once.  `GroupsFair`: a child's group lies
  inside its parent's and shares processes with another child's only when the parent's are
  all given out; it is the share of its subtree, its supernodes counted one by one, rounded
  to the nearest, but at least one process and at most those up to the end of the
  parent's group, and all of these if no child costs anything; each supernode or cell goes to
  a process of its group that has least to do.  `SignalsMatchDeps`,
  `EdgesSound`, `ForwardFirst`: what tasks expect is what tasks signal, and what
  messages that stand for several signals count adds up to it; edges join existing
  tasks without a cycle; a backward phase comes after the forward phase it needs.
* `Scheduler2D`: `FreeListExact` and `LoadExact` are the `bassert`s of `assignWork`
  and of the workers' lpc as state invariants; `CellExclusive`: two workers never
  compute in one cell; `DelayedIsWoken` is the safety half of "no lost wakeup",
  `DelayedRuns` the liveness half; `InputsFirst`: no task is ready before its data
  has landed; `CleanExit`: `execute` leaves nothing for the next call.
* `Factorize2D`, `Solve2D`, `SymPACK1D`: `CountersExact` (counters reach zero neither
  early, late nor twice), `AnnouncedIsFinal`, `NoWriteUnderFetch` and `ReadsFinal` (what makes a
  one-sided read safe), `PivotBufferPresent`, `NothingOwed`, `CleanReturn`,
  `CleanExit` (storage lent out is back when it may be freed), `SolutionExact` (every contribution
  exactly once), `PhasesApart` (the two calls of the 1D code do not overlap), and
  the refinements: whatever the schedule, what is carried out is a right-looking
  factorization, a supernodal factorization, a substitution.

### Finding 1: the last task can be lost (`last_task`)

With `SP_THREADS` and more than one thread.  A worker's `get()` finds its ring
empty; before it tests `done` (2D.hpp:7038) the master assigns it the last task
(7066), `local_task_cnt` becomes zero at once (7067), the master runs `progress`,
sets `done` (7106) and joins; the worker reads `done` and breaks.  The task stays
in the ring and never runs, against the assertion of `~worker_ptrs` (Sched:24-27)
that both slots are empty.  The result is wrong without a message in a build with
`NDEBUG`; if another rank waits for that task's signal, it waits for ever.
`CleanExit` therefore describes the rest of the state at exit and leaves that one
task out.

### Finding 2: a contribution of the backward phase is erased (`threaded_erased`)

A backward task clears the slot it writes if `update_up_cnt` is zero (2D.hpp:6165),
under the lock of the slot; the count is incremented after the lock is released
(6245).  A second worker that takes the lock in between clears the contribution of
the first.

### Finding 3: a slot is freed under a worker (`threaded_freed`)

`deallocRemote` resets a slot on the master thread without its lock
(2D.hpp:2502-2503).  If it answers the forward use of the slot late, it finds
`counter` at its own count while a worker has found the object (6166) and not yet
added its reservation (6186): the object is reset under the worker.  One worker is
enough.

### Finding 4: run leaves before the last task (`last_factor`)

With threads in the 1D code.  The last signal of a task takes it out of the graph
(`updateTask`, supernodalTaskGraph.hpp:80-83) and the worker pushes it afterwards
(FB:972-974).  In between it is in no list: if no other task is left on the rank,
the main thread finds the graph, the queue and the delayed tasks empty (Sched:303)
and `run` returns.  The task, the root of the tree on a single rank, is
never executed; with several ranks, those that wait for it would wait for ever.
Only the last task of a rank can be lost: every other one has a successor that
keeps the graph from being empty.  `dec_ref` (FB:130-131), which the factorization no
longer calls, pushes before it removes.

### Observations that are not findings

* The forward phase of the threaded solve: `update_right_cnt` is a plain `int`
  incremented by several workers outside the lock (2D.hpp:5940).  If an update is
  lost, nobody announces the slot and the owner waits for ever: this is where
  `threaded_two` stops.  If both workers read the final value, the slot is announced
  twice.  `remoteDeallocCounter` (5897, 2506) can lose an update in the same way.
* `local_pivot` counts UPDATE(J,J,I) once per signal, twice if it is local
  (2D.hpp:4871-4885), and every update decrements it once: for such panels
  `_bufLDL` is freed by the destructor of the cell only.  The count is never too
  low, which is what `PivotBufferPresent` needs.
* `reset()` (2D.hpp:334) gives a task new promises but not their counts, so
  `execute` cannot run twice over one threaded task graph.
* Messages of skipped children in the symbolic factorization (Base:914) are taken or
  left; what is left stays until the communicator is freed.
* An unknown name of a mapping falls back to `modwrap2D` on all processes
  (Impl:1269), which may name a process that does not exist if their number is not a
  product of the grid; the names in the options list cannot.
* `Scheduler::run` with two threads makes a `WorkQueue` of no worker at all (Sched:302),
  and `pushTask` takes a remainder by zero (Sched:85): `ThreadedRun1D` assumes three.
* `FIFOScheduler` (Scheduler.hpp:231) has no lock, although workers push into it, and
  `done()` and `size()` of `DLScheduler` read the queue without its lock.
* If no child of a supernode costs anything, the share of each is 0/0
  (LoadBalancer.hpp:329); only the order of the arguments of `std::min(1.0, NaN)`
  makes it 1.  The other way round NaN would be converted to an integer, which C++ does
  not define.

## 4. Proofs

All proofs are for arbitrary constants that satisfy the named assumptions of the
modules: `NoneIsNoTask`, `SchedAssumption`, `OrderIsTaskGraph`, `GraphAssumption`, `TasksAssumption`,
`DistributionAssumption`, `SchedulerAssumption`.

* `WorkerPtrs_proofs`: `RingInv` is inductive with `TypeOK`: the read and write
  indices, corrected for a step in progress, differ exactly when one slot is
  occupied.  From it follow `SlotTellsQueue` and the refinement: `SetStore` maps to
  `Put`, `GetClear` to `Take`, the other steps to stutters.
* `Scheduler2D_proofs`, first part, the loads: the inductive invariant is `Book == TypeOK /\ HoldsTask /\
  FreeListExact /\ LoadExact`.  The two bookkeeping invariants need each other: a
  report in the inbox implies a positive load, by `LoadExact`; the worker that
  comes back was not in the list, by `FreeListExact`; and a worker in the list has
  at most one task, so that a load never exceeds two.
* `Scheduler2D_proofs`, second part, the flags: `LockHeld`, which says who owns a flag that records no
  owner, is inductive with `TypeOK` and `HoldsTask`: a flag is set only by a task
  that enters `ready_tasks`, the task carries it through ready, ring and
  computation, the release finds no other holder.  `CellExclusive` is a corollary.
  `DelayedIsWoken` is inductive with `DelayedInPlace`: a flag is released only by a
  worker that is then signalling, a signalling worker then posts a report, and the
  report retries the oldest delayed task, which empties the list, takes the flag or
  finds it taken.
* `Scheduler2D_proofs`, third part, the counts: `IInv` adds to `Book` what makes the
  counters exact.  `DepExact`: `in_counter` is the signals of local tasks not yet
  sent, those a worker is sending, the uses of messages whose callback has not run
  and the lpcs queued; `AvailExact` the same for `in_avail_counter`.
  `CallbacksExact`: a message being fetched holds one callback for each time it lists a
  task that has left `avail_tasks`.  `PlaceExact`: a task whose counter is zero is in exactly
  one of ready, delayed, ring, running, run, any other in none; it rests on
  `DepExact`, because a second release would need a second last signal.  `LoopExact`: `local_task_cnt`
  is the tasks never handed out, so that the loop ends only when there is none.
  `ExitExact`: nothing is posted once the workers are joined, and the last progress
  handles all that is queued.  `InputsFirst` follows from the zero counter of a
  running task (`Satisfied`), `CleanExit` from the zero task count, which leaves no
  task to be ready, delayed or available (`AllHandedOver`).  It uses `OrderIsTaskGraph`, that the
  vector of tasks holds each once.  TLC checked `IInv` on the states of `threads` before the proof.
* `Factorize2D_proofs`, first part, and `Solve2D_proofs`, first part, the task graphs: no
  cycle (`EdgesClimb`, by a height of
  tasks), every signal lands on a task (`EdgesJoinTasks`, for the factorization under
  closure of the structure by fill), the two ends agree (`SignalsMatchDeps`, one case
  per kind of message), only panels travel, and a rank that contributes to a supernode of another
  rank announces its slot (`ContributionsAreSent`).
* `Factorize2D_proofs`, second part, the execution of the factorization.  All its
  theorems have the hypothesis `FillClosed`, the closure of the structure by fill;
  `StructureIsExact` checks that the symbolic factorization delivers it, and without
  it a signal could go to a task that does not exist.  The inductive invariant `IInv`
  says where every signal is on its way: the count of a task is the number of
  local senders that have not run, plus the remote ones whose callback has not run,
  plus the calls in the inbox of its rank (`DepExact`); the same for the count of
  announcements (`AvailExact`); a message being fetched holds one callback for each use by
  a task that attached to it (`CallbacksExact`); a message exists once its sender has run, and once only
  (`AnnouncedOnce`); the ready and executed tasks are those whose count is zero
  (`ReadyExact`); the loop counts what has not run (`LoopExact`); a panel counts at least the updates
  that still need its `_bufLDL` (`PivotsExact`).  None of these is inductive alone:
  a call may lower a count because `DepExact` counts the call itself, and it may make
  the task ready because `ReadyExact` tells a zero that was already there from a new one.
  Each action has a lemma (`QuietStep` for those that leave the data alone,
  `LoopStep`, `StartStep`, `HandleDepStep`, `HandleAvailStep`, `DeliverStep`,
  `LandStep`, `FetchStep`, `ExecuteStep`).  `CountersExact`, `AnnouncedIsFinal`,
  `PivotBufferPresent` and `CleanReturn` follow from `IInv`, the second because a
  task that has run has had the signals of all its senders (`SendersRan`); and so does the refinement: a step
  either applies one operation whose predecessors are all applied, or none (`RefinementStep`).
  Counting is done without induction: `Times(x, s)` is the cardinality of the places
  of `x` in `s`, and the lemmas about appending and removing follow from those on finite sets.
  TLC has checked `IInv` on the instances of `factor_ll` and `factor_ldl`.
* `Solve2D_proofs`, second part, the execution of the solve.  `SolveInvariant` and
  `SolveCountersExact` need no hypothesis on the structure: a signal of the solve
  always has a task to go to.  The inductive invariant `IInv` has the shape of the
  factorization's, with two differences.  A message is announced by the *last* of the local tasks
  it stands for, and counts for all of them: the count of a task is the
  number of its local senders that have not run (`Unsignalled`), plus the signals
  that remote senders have not had delivered (`Undelivered`), plus the sum of the counts of the calls in
  the inbox (`Posted`, a weight), and `SentExact` ties `update_right_cnt` and
  `update_up_cnt` to the senders that have run.  And there are the slots, `SlotsExact`: a contribution is *lent* from the first
  task that adds to it until the answer of the owner has been handled (`Lent`,
  `GivenBack`); the counter of a slot is the number of contributions of both phases
  lent for its supernode, the slot is there as long as there are any, and
  `remoteDeallocCounter` is the number of all.
  From `IInv` follow `CountersExact` and, with a quiescence handle (the hypothesis
  `Quiesce`; without it the code does not wait), `NothingOwed`.
  The order of the phases needs more: that a backward task runs after every forward task whose
  slot it may touch (`BackwardAfterForward`) and after the reads of the forward phase have ended
  (`BackwardAfterReads`).  It is a path through the graph over the root of the tree, found
  without induction, from the greatest supernode for which it fails; closure of the structure by fill
  (`FillClosed`) is what makes the path exist.  The refinement of `Substitution` and
  `NoWriteUnderFetch` follow: while a slot is exposed to a reader no task that
  writes it is ready, and the answer to a message of the other phase leaves the slot lent.
  TLC has checked `IInv` on the instance of `solve_ldl`.
* `Solve2D_proofs`, third part, what the slots hold.  `VInv` makes it a function of the
  tasks executed.  On the owner of a supernode (`OwnValue`): the contributions of the rank's own
  tasks until the diagonal forward task, which adds those of the other ranks and
  the right-hand side; the same again in the backward phase, with how often the slot has been
  solved for and whether it has been scaled.  On another rank (`AwayValue`): what the rank has
  contributed in the forward phase and, from the first backward task on, in that phase only, and
  this only while the slot is there: freeing it in between changes nothing that counts.  And what an rget
  has brought is what the task that announced it stands for (`Sent`), the
  same in every execution.  `VInv` is inductive together with `IInv`.  A task finds its slot in
  the right phase by the order of the tasks that compute into it (`PhaseOrder`,
  `BackwardAfterReads`), and a slot it has to make is one to which none of its peers has contributed
  (`FreshSlot`).  The diagonal task adds the messages it received, a sum the model takes with a fold:
  of each supernode at most one message has the contribution, because one rank has its
  cell and announces it once (`ReceivedSum`), and for such a sum no induction is needed (`AddedOnce`; that the
  fold has one value only follows from a smallest set where two would differ, `SumUnique`).
  An rget reads the value announced because nothing is written while it is under way
  (`ExposedValue`).  `ReadsFinal` and `SolutionExact` follow, the second because a rank leaves
  the barrier when every task has been executed, so that what is still in transit would
  belong to a task that has started without it (`NothingInTransit`).  `FillClosed` is used where the order of the phases
  is.  TLC has checked `VInv` on the instance of `solve_ldl`.
  Last, two facts of the graph alone, which the run `analysis` checks on the structures it
  finds.  `SolveForwardFirst`: what `Causes` collects by rounds is closed under senders,
  because a sender is lower than its target and `4 * NS` rounds are more than the greatest
  difference of heights (`CausesClosed`); in a set closed under senders the chains of the
  two phases can be followed down to the forward task (`CausalTurn`, `CausalReads`).
  `SolveCountsAddUp`: the function that sends a set of ranks to the number of signals from it
  satisfies the recursion of the sum, and there is only one such function (`SumUnique`).
* `ThreadedSolve_proofs`: `SlotExclusive` for any tasks, slots, workers and counts, from
  `TypeOK /\ HoldsTask /\ FlagHeld`: a flag that is set is held by exactly one task
  that is ready or computing.  The counters may be anything: the lock does its
  part, and the findings are about what it does not cover.
  `ForwardComplete` for any number of workers, tasks and slots, from `ForwardInv`: a
  count never exceeds the number of tasks that counted themselves
  (`CountsBounded`: an increment may be lost, none is made up), so a count that reaches `dep_cnt` means that all did,
  and until the owner has fetched, the forward phase alone uses the slot and what is in it
  is what has been added (`SlotInv`).  TLC has checked `ForwardInv` on the instances of the three
  threaded runs.
* `Mapping_proofs`: every cyclic mapping the options list gives a process that takes
  part, for any number of processes and supernodes, by the arithmetic of quotients
  and remainders.
* `SymPACK1D_proofs`: every update of the 1D factorization is computed by exactly one
  task and its counts agree with the signals of its source (`UpdatesAreShared`,
  `FactorReachesUpdates`), although one task stands for one update on the owner and for
  all updates of a rank elsewhere; and `CallsStayApart`: `PhasesApart` follows from the inductive
  `CallsInv`, which joins three parts: where the ranks are relative to each other
  (`PlacesInv`: a rank leaves the barrier only when all have reached it), which
  tasks exist (`TasksInv`), and which messages (`MessagesInv`: none of the solve
  while nobody is in it).  That sets of supernodes have a least and a greatest element is proved
  without induction, by counting lower bounds (`LeastNatural`).
* `SymPACK1D_proofs`, second part, both calls of `run`: the inductive invariant
  `Inv1D`.  Nothing in the code says which contributions an aggregate or a supernode
  holds, so the invariant derives it: an update has been *computed* when its task is gone, an
  aggregate is *full* when all updates of its rank are, *added* when it is full and no
  longer under way, *freed* when the rpc has run.  Then every variable is a function
  of the tasks that are gone and the messages under way: the vectors (`SumExact`), the
  updates to do (`TodoExact`), the counts of FACTOR (`FactorCounts`) and of UPDATE
  (`UpdateStatus`), and `remDealloc` (`LentExact`: the aggregates full and not freed).  An
  aggregate is under way once, by the name of its last source, and what has been read
  of it is whole (`CarrierExact`).  For the solve the same: what a FUC task has not
  had from its children, a BU task from its parent or from the sibling that hands it on
  (`Blocks`); a message is kept exactly as long as its task waits (`GotExact`,
  `GotOnly`).  A message handed on is what makes `Blocks` speak of all the siblings
  before a task, and not of the next one only.
  Each task, each kind of message and each step of `run` has a lemma (`UpdateKeepsInv`,
  `CopyDownKeepsSolve`, `MessageKeepsInv`, `LeaveDrainKeepsInv`, ...); a task of one
  call leaves the counts of the other alone (`SolveUntouched`, `FactorUntouched`).
  `CountersExact`, `AggregatesFinal`, `CleanExit` and, step by step, the refinement of
  `SupernodalFactorization` follow, for every structure, mapping, number of ranks and of
  receive buffers.  TLC has checked `Inv1D` on the instance of `fan_both`.
* `SymPACK1D_proofs`, third part, what the rows of the solve hold.  `RowsInv` makes
  them a function of the tasks that have run: a supernode that has not run FUC has
  nothing; after it a row has the contribution of every descendant that reaches it, once
  (`Forwarded`); after BU, or for its own rows after BUC, the solution.  What a task has
  received is the rows as they were when it was announced (`UpGot`, `DownGot`).  Three
  things carry the proof.  The order: FUC goes up the tree and BUC and BU down
  (`SolveOrder`, `ForwardFirst1D`, from the greatest supernode for which it fails), so that the
  rows of a child are read before they are overwritten.  The tree: what descends from a
  supernode is a path (`PathIsChain`), on which exactly one child of each ancestor lies
  (`OneChildAbove`), and if the structure is closed under fill (`FillClosed`) a row that a
  descendant has is in every supernode on the path to it (`RowsGoUp`); the descendants of a
  supernode are then shared out among its children, and no contribution comes twice.  And the
  sum that `forward_update` takes child after child (`AllChildren`), a recursive function whose
  values for one more child are related by a least counterexample.  `SolutionExact` and
  `AnnouncedIsFinal` follow.  `FillClosed` is what the symbolic factorization guarantees
  (`StructureIsExact` of the run of the analysis).  TLC has checked `RowsInv` on the instance of
  `fan_both`.

Only model-checked: liveness (`Returns`, `DelayedRuns`), which the provers do not
cover; and the analysis (`ETree`, `SymbolicFactorization`, `SubtreeMapping`), whose
algorithms are recursive: `CountsAreExact`, `StructureIsExact`, `BlocksTile` and
`GroupsFair`.  The other three invariants of `MCAnalysis` apply to the structure it has found
what `TaskGraph2D` and `SolveGraph2D` state of every structure: there the same
statements are theorems (`CountsAgree`, `SolveCountsAgree` and `SolveCountsAddUp`;
`SignalsLandOnTasks`, `SolveSignalsLandOnTasks`, `GraphAcyclic` and `SolveAcyclic`;
`SolveForwardFirst`).

## 5. Not modelled, and the plan

1. *Threads in the 1D code*: with several ranks, where the progress thread fills the
   lists of messages that the main thread searches; the threaded solve.
2. *Pure algorithms*: interval tree, the other balancers (`TreeMapping`, `NNZBalancer`,
   `WorkBalancer`, `SubtreeToSubcubeGlobal`), row counts, `refineSupernodes` and the
   second symbolic factorization that follows it, the size threshold of the GPU code.
3. *Variants*: two consecutive calls of `execute`.

Simplifications: `std::min`, `sqrt` and costs are exact numbers, rounding of doubles
is not modelled; `compare_exchange_weak` (2D.hpp:6611) fails only if the flag is set, as
on the x86 targets the build is configured for; keys of tasks are exact, so collisions of the hash of a task's name
are not; the 1D model has at least two ranks; `numSubTasks` of the 1D solve is 1, as
in the code.  The 2D factorization is modelled with threads on one rank and with one
thread on several ranks, not with both at once: ranks meet a multi-threaded rank
only through messages, whose arrival `Scheduler2D` already leaves arbitrary.

Left out for good: numerical kernels and wrappers (BLAS, LAPACK, cuBLAS), the
Fortran and external orderings, redistribution of the matrix and gathering of the
solution (arrays moved by collectives), drivers, timers and logs, the generated CMake
and CUDA files, and UPC++ with GASNet, whose sources are vendored and make up most
of the lines of the repository.  UPC++ is modelled only by what its users rely on: lpcs run in order on the
master persona, rpcs and rgets complete in any order, all of them inside `progress()`.
