-------------------------- MODULE SymPACK1D_proofs --------------------------
(***************************************************************************)
(* The 1D code, for every structure, mapping and number of ranks: the      *)
(* tasks of the factorization share out its updates, their counts agree    *)
(* with the signals, the two calls of Scheduler::run do not overlap, every *)
(* counter is exact in both of them, aggregates are complete and alive     *)
(* when they are read, nothing is left when a rank leaves run, the         *)
(* factorization implements the abstract one, and the solve adds every     *)
(* contribution once.                                                      *)
(***************************************************************************)
EXTENDS SymPACK1D, Counting

-----------------------------------------------------------------------------
(* Least and greatest elements.                                            *)

LEMMA LowestIsLeast ==
  ASSUME NEW S, S \subseteq Sup, S # {}
  PROVE  LowestOf(S) \in S /\ \A K \in S : LowestOf(S) <= K
<1>1. S \subseteq Nat
  BY DistributionAssumption DEF Sup
<1>2. \E J \in S : \A K \in S : J <= K
  BY <1>1, LeastNatural
<1> QED
  BY <1>2 DEF LowestOf

LEMMA HighestIsGreatest ==
  ASSUME NEW S, S \subseteq Sup, S # {}
  PROVE  HighestOf(S) \in S /\ \A K \in S : HighestOf(S) >= K
<1> DEFINE T == {NS - k : k \in S}
<1>1. T \subseteq Nat /\ T # {}
  <2>1. \A k \in S : NS - k \in Nat
    BY DistributionAssumption DEF Sup
  <2>2. PICK k \in S : TRUE
    OBVIOUS
  <2>3. NS - k \in T
    OBVIOUS
  <2> QED
    BY <2>1, <2>3
<1>2. PICK m \in T : \A n \in T : m <= n
  BY <1>1, LeastNatural
<1>3. PICK J \in S : m = NS - J
  OBVIOUS
<1>4. \A K \in S : NS - J <= NS - K
  BY <1>2, <1>3
<1>5. \A K \in S : J >= K
  BY <1>4, DistributionAssumption DEF Sup
<1> QED
  BY <1>5 DEF HighestOf

-----------------------------------------------------------------------------
(* The task graph of the factorization.                                    *)

LEMMA OwnersAreRanks ==
  /\ \A I \in Sup : Own(I) \in Rank
  /\ \A I, J \in Sup : Updater(J, I) \in Rank
  BY DistributionAssumption DEF Own, Updater

LEMMA FirstOfRank ==
  ASSUME NEW I \in Sup, NEW r, UpdatesOn(r, I) # {}
  PROVE  LET J == LowestOf(UpdatesOn(r, I)) IN
         /\ J \in Struct[I] /\ J \in Sup /\ Updater(J, I) = r
         /\ FirstUpdate(r, I) = <<"UPDATE", I, J, r>>
         /\ {K \in UpdatesOn(r, I) : K >= J} = UpdatesOn(r, I)
<1> DEFINE S == UpdatesOn(r, I)
           J == LowestOf(S)
<1>1. S \subseteq Sup /\ Struct[I] \subseteq Sup
  BY DistributionAssumption DEF UpdatesOn
<1>2. J \in S /\ \A K \in S : J <= K
  BY <1>1, LowestIsLeast
<1>3. J \in Struct[I] /\ Updater(J, I) = r
  BY <1>2 DEF UpdatesOn
<1>4. \A K \in S : K >= J
  BY <1>1, <1>2 DEF Sup
<1> QED
  BY <1>1, <1>2, <1>3, <1>4 DEF FirstUpdate, UPDATE

(* A task of UpdateTasks is one of the owner for one target, or the only   *)
(* one of another rank.                                                    *)
LEMMA UpdateTaskKinds ==
  ASSUME NEW I \in Sup, NEW t \in UpdateTasks(I)
  PROVE  \/ \E K \in UpdatesOn(Own(I), I) :
              /\ t = UPDATE(I, K) /\ RankOf(t) = Own(I)
              /\ Targets(RankOf(t), I, t[3]) = {K}
         \/ \E q \in UsersOf(I) :
              /\ t = FirstUpdate(q, I) /\ RankOf(t) = q /\ q # Own(I)
              /\ Targets(RankOf(t), I, t[3]) = UpdatesOn(q, I)
<1>1. CASE \E K \in UpdatesOn(Own(I), I) : t = UPDATE(I, K)
  <2>1. PICK K \in UpdatesOn(Own(I), I) : t = UPDATE(I, K)
    BY <1>1
  <2>2. RankOf(t) = Own(I) /\ t[3] = K
    BY <2>1 DEF UPDATE, UpdatesOn, RankOf
  <2> QED
    BY <2>1, <2>2 DEF Targets
<1>2. CASE \E q \in UsersOf(I) : t = FirstUpdate(q, I)
  <2>1. PICK q \in UsersOf(I) : t = FirstUpdate(q, I)
    BY <1>2
  <2>2. UpdatesOn(q, I) # {} /\ q # Own(I)
    BY DEF UsersOf
  <2>3. RankOf(t) = q /\ t[3] = LowestOf(UpdatesOn(q, I))
    BY <2>1, <2>2, FirstOfRank DEF RankOf
  <2>4. Targets(RankOf(t), I, t[3]) = UpdatesOn(q, I)
    BY <2>2, <2>3, FirstOfRank DEF Targets
  <2> QED
    BY <2>1, <2>2, <2>3, <2>4
<1> QED
  BY <1>1, <1>2 DEF UpdateTasks

(* Every update of the factorization is computed by one task and by one    *)
(* only, on the rank the mapping says, although generateTaskGraph makes    *)
(* one task per update on the owner of the source, one per source on the   *)
(* other ranks, and the task finds its targets by itself.                  *)
THEOREM UpdatesAreShared ==
  \A I \in Sup : \A J \in Struct[I] :
    \E t \in UpdateTasks(I) :
      /\ RankOf(t) = Updater(J, I) /\ J \in Targets(RankOf(t), I, t[3])
      /\ \A u \in UpdateTasks(I) : J \in Targets(RankOf(u), I, u[3]) => u = t
<1> SUFFICES ASSUME NEW I \in Sup, NEW J \in Struct[I]
             PROVE  \E t \in UpdateTasks(I) :
                      /\ RankOf(t) = Updater(J, I)
                      /\ J \in Targets(RankOf(t), I, t[3])
                      /\ \A u \in UpdateTasks(I) :
                           J \in Targets(RankOf(u), I, u[3]) => u = t
  OBVIOUS
<1> DEFINE r == Updater(J, I)
<1>1. J \in Sup /\ J \in UpdatesOn(r, I) /\ r \in Rank
  BY DistributionAssumption, OwnersAreRanks DEF UpdatesOn
<1>2. \A q : J \in UpdatesOn(q, I) => q = r
  BY DEF UpdatesOn
<1>3. CASE r = Own(I)
  <2>1. UPDATE(I, J) \in UpdateTasks(I)
    BY <1>1, <1>3 DEF UpdateTasks
  <2>2. RankOf(UPDATE(I, J)) = r /\ UPDATE(I, J)[3] = J
    BY DEF UPDATE, RankOf
  <2>3. J \in Targets(r, I, J)
    BY <1>3 DEF Targets
  <2>4. ASSUME NEW u \in UpdateTasks(I), J \in Targets(RankOf(u), I, u[3])
        PROVE  u = UPDATE(I, J)
    <3>1. ~ \E q \in UsersOf(I) : q # Own(I) /\ J \in UpdatesOn(q, I)
      BY <1>2, <1>3
    <3>2. PICK K \in UpdatesOn(Own(I), I) :
            u = UPDATE(I, K) /\ Targets(RankOf(u), I, u[3]) = {K}
      BY <2>4, <3>1, UpdateTaskKinds
    <3> QED
      BY <2>4, <3>2
  <2> QED
    BY <2>1, <2>2, <2>3, <2>4
<1>4. CASE r # Own(I)
  <2>1. r \in UsersOf(I) /\ UpdatesOn(r, I) # {}
    BY <1>1, <1>4 DEF UsersOf
  <2>2. FirstUpdate(r, I) \in UpdateTasks(I)
    BY <2>1 DEF UpdateTasks
  <2>3. /\ RankOf(FirstUpdate(r, I)) = r
        /\ FirstUpdate(r, I)[3] = LowestOf(UpdatesOn(r, I))
    BY <2>1, FirstOfRank DEF RankOf
  <2>4. J \in Targets(r, I, LowestOf(UpdatesOn(r, I)))
    BY <1>1, <1>4, <2>1, FirstOfRank DEF Targets
  <2>5. ASSUME NEW u \in UpdateTasks(I), J \in Targets(RankOf(u), I, u[3])
        PROVE  u = FirstUpdate(r, I)
    <3>1. \A K \in UpdatesOn(Own(I), I) : K # J
      BY <1>2, <1>4
    <3>2. PICK q \in UsersOf(I) :
            u = FirstUpdate(q, I) /\ Targets(RankOf(u), I, u[3]) = UpdatesOn(q, I)
      BY <2>5, <3>1, UpdateTaskKinds
    <3> QED
      BY <1>2, <2>5, <3>2
  <2> QED
    BY <2>2, <2>3, <2>4, <2>5
<1> QED
  BY <1>3, <1>4

(* What an UPDATE task waits for is what the FACTOR task of its source     *)
(* gives it: a signal on the rank of the source, one message on another.   *)
THEOREM FactorReachesUpdates ==
  \A I \in Sup : \A t \in UpdateTasks(I) :
    /\ LocalOf(t) =
         IF t \in {UPDATE(I, J) : J \in UpdatesOn(Own(I), I)} THEN 1 ELSE 0
    /\ RemoteOf(t) = IF <<I, t>> \in FactorMessages(I) THEN 1 ELSE 0
<1> SUFFICES ASSUME NEW I \in Sup, NEW t \in UpdateTasks(I)
             PROVE  /\ LocalOf(t) =
                         IF t \in {UPDATE(I, J) : J \in UpdatesOn(Own(I), I)}
                         THEN 1 ELSE 0
                    /\ RemoteOf(t) =
                         IF <<I, t>> \in FactorMessages(I) THEN 1 ELSE 0
  OBVIOUS
<1>1. CASE \E K \in UpdatesOn(Own(I), I) : t = UPDATE(I, K) /\ RankOf(t) = Own(I)
  <2>1. t[1] = "UPDATE" /\ t[2] = I /\ RankOf(t) = Own(I)
    BY <1>1 DEF UPDATE
  <2>2. <<I, t>> \notin FactorMessages(I)
    <3> SUFFICES ASSUME NEW q \in UsersOf(I), t = FirstUpdate(q, I) PROVE FALSE
      BY DEF FactorMessages
    <3>1. UpdatesOn(q, I) # {} /\ q # Own(I)
      BY DEF UsersOf
    <3> QED
      BY <2>1, <3>1, FirstOfRank DEF RankOf
  <2> QED
    BY <1>1, <2>1, <2>2 DEF LocalOf, RemoteOf
<1>2. CASE \E q \in UsersOf(I) :
             t = FirstUpdate(q, I) /\ RankOf(t) = q /\ q # Own(I)
  <2>1. PICK q \in UsersOf(I) : t = FirstUpdate(q, I) /\ RankOf(t) = q /\ q # Own(I)
    BY <1>2
  <2>2. t[1] = "UPDATE" /\ t[2] = I
    BY <2>1 DEF FirstUpdate, UPDATE
  <2>3. <<I, t>> \in FactorMessages(I)
    BY <2>1 DEF FactorMessages
  <2>4. t \notin {UPDATE(I, J) : J \in UpdatesOn(Own(I), I)}
    BY <2>1 DEF UPDATE, UpdatesOn, RankOf
  <2> QED
    BY <2>1, <2>2, <2>3, <2>4 DEF LocalOf, RemoteOf
<1> QED
  BY <1>1, <1>2, UpdateTaskKinds

-----------------------------------------------------------------------------
(* The two calls.  Types first: a task and a message of any kind.          *)

AnyTask == {"FACTOR", "UPDATE", "AGGREGATE", "FUC", "BUC", "BU"}
             \X Sup \X Sup \X Rank

AnyMessage    == Sup \X AnyTask
FactorMessage == {m \in AnyMessage : ~IsSolve(m[2])}

(* The messages to rank r.                                                 *)
To(r, S) == {m \in S : RankOf(m[2]) = r}

(* The ranks that have left the barrier have not left anybody behind.      *)
AtBarrier(s) == pc[s] \in {"barrier", "end"}

PlacesInv ==
  /\ call \in [Rank -> {1, 2}]
  /\ pc \in [Rank -> {"check", "work", "drain", "barrier", "end"}]
  /\ \A r, s \in Rank :
       /\ call[r] > call[s] => AtBarrier(s)
       /\ pc[r] = "end" => call[s] > call[r] \/ (call[s] = call[r] /\ AtBarrier(s))

TasksInv ==
  /\ graph \subseteq AnyTask /\ ready \subseteq AnyTask
  /\ \A t \in graph \cup ready : IsSolve(t) => call[RankOf(t)] = 2

(* Nobody is in Solve.                                                     *)
Early == \A r \in Rank : call[r] = 1

MessagesInv ==
  /\ net \subseteq AnyMessage /\ async \subseteq AnyMessage
  /\ IsFiniteSet(async)
  /\ blocking = [r \in Rank |-> blocking[r]]
  /\ \A r \in Rank : blocking[r] \in Seq(To(r, AnyMessage))
  /\ Early => /\ net \subseteq FactorMessage /\ async \subseteq FactorMessage
              /\ \A r \in Rank : blocking[r] \in Seq(To(r, FactorMessage))

CallsInv == PlacesInv /\ TasksInv /\ MessagesInv

LEMMA TaskType ==
  ASSUME NEW t \in AnyTask
  PROVE  RankOf(t) \in Rank
  BY DEF AnyTask, RankOf

LEMMA MessageType ==
  ASSUME NEW m \in AnyMessage
  PROVE  m[2] \in AnyTask /\ RankOf(m[2]) \in Rank
  BY TaskType DEF AnyMessage

LEMMA FactorTaskTypes ==
  ASSUME NEW I \in Sup, NEW J \in Sup
  PROVE  /\ FACTOR(I) \in AnyTask /\ ~IsSolve(FACTOR(I))
         /\ UPDATE(I, J) \in AnyTask /\ ~IsSolve(UPDATE(I, J))
         /\ AGGREGATE(I, J) \in AnyTask /\ ~IsSolve(AGGREGATE(I, J))
  BY OwnersAreRanks DEF FACTOR, UPDATE, AGGREGATE, AnyTask, IsSolve

LEMMA SolveTaskTypes ==
  ASSUME NEW I \in Sup, NEW J \in Sup
  PROVE  /\ FUC(I) \in AnyTask /\ RankOf(FUC(I)) = Own(I)
         /\ BUC(I) \in AnyTask /\ RankOf(BUC(I)) = Own(I)
         /\ BU(J, I) \in AnyTask /\ RankOf(BU(J, I)) = Own(I)
  BY OwnersAreRanks DEF FUC, BUC, BU, AnyTask, RankOf

LEMMA ParentIsSup ==
  ASSUME NEW I \in Sup, ~IsRoot(I)
  PROVE  Parent(I) \in Sup
<1>1. Struct[I] \subseteq Sup /\ Struct[I] # {}
  BY DistributionAssumption DEF IsRoot
<1> QED
  BY <1>1, LowestIsLeast DEF Parent

LEMMA TasksTyped ==
  /\ FactorTasks \subseteq AnyTask /\ \A t \in FactorTasks : ~IsSolve(t)
  /\ SolveTasks \subseteq AnyTask
<1>1. \A I \in Sup : \A t \in UpdateTasks(I) : t \in AnyTask /\ ~IsSolve(t)
  <2> SUFFICES ASSUME NEW I \in Sup, NEW t \in UpdateTasks(I)
               PROVE  t \in AnyTask /\ ~IsSolve(t)
    OBVIOUS
  <2>1. \E J \in Sup : t = UPDATE(I, J)
    <3>1. CASE \E K \in UpdatesOn(Own(I), I) : t = UPDATE(I, K)
      BY <3>1, DistributionAssumption DEF UpdatesOn
    <3>2. CASE \E q \in UsersOf(I) : t = FirstUpdate(q, I)
      <4>1. PICK q \in UsersOf(I) : t = FirstUpdate(q, I)
        BY <3>2
      <4>2. UpdatesOn(q, I) # {}
        BY DEF UsersOf
      <4> QED
        BY <4>1, <4>2, FirstOfRank DEF FirstUpdate
    <3> QED
      BY <3>1, <3>2, UpdateTaskKinds
  <2> QED
    BY <2>1, FactorTaskTypes
<1>2. FactorTasks \subseteq AnyTask /\ \A t \in FactorTasks : ~IsSolve(t)
  BY <1>1, FactorTaskTypes DEF FactorTasks
<1>3. SolveTasks \subseteq AnyTask
  <2>1. \A I \in {J \in Sup : ~IsRoot(J)} : BU(Parent(I), I) \in AnyTask
    BY ParentIsSup, SolveTaskTypes
  <2> QED
    BY <2>1, SolveTaskTypes DEF SolveTasks
<1> QED
  BY <1>2, <1>3

-----------------------------------------------------------------------------
(* What the actions of the scheduler keep.                                 *)

LEMMA RunKeepsCalls ==
  ASSUME CallsInv,
         NEW r \in Rank, NEW t,
         NEW local \in SUBSET AnyTask, NEW remote \in SUBSET AnyTask,
         NEW sent \in SUBSET AnyMessage, NEW handed,
         Run(r, t, local, remote, sent, handed),
         IsSolve(t) \/ sent \subseteq FactorMessage,
         \A u \in local \cup remote : IsSolve(u) => IsSolve(t) /\ RankOf(u) = r
  PROVE  CallsInv'
<1>1. /\ UNCHANGED <<call, pc, async, blocking>>
      /\ net' = net \cup sent
      /\ t \in ready /\ RankOf(t) = r
  BY DEF Run, placeVars, Mine
<1>2. IsSolve(t) => call[r] = 2
  BY <1>1 DEF CallsInv, TasksInv
<1>3. PlacesInv'
  BY <1>1 DEF CallsInv, PlacesInv, AtBarrier
<1>4. TasksInv'
  <2>1. graph' \subseteq graph /\ ready' \subseteq ready \cup local \cup remote
    BY DEF Run, Signal
  <2>2. \A u \in local \cup remote : IsSolve(u) => call[RankOf(u)] = 2
    BY <1>2
  <2> QED
    BY <1>1, <2>1, <2>2 DEF CallsInv, TasksInv
<1>5. MessagesInv'
  <2>1. Early => sent \subseteq FactorMessage
    BY <1>2 DEF Early
  <2> QED
    BY <1>1, <2>1 DEF CallsInv, MessagesInv, Early
<1> QED
  BY <1>3, <1>4, <1>5 DEF CallsInv

LEMMA ReceivedKeepsTasks ==
  ASSUME CallsInv, UNCHANGED call,
         NEW m \in AnyMessage, NEW data, NEW atOnce,
         IsSolve(m[2]) => call[RankOf(m[2])] = 2,
         Received(m, data, atOnce)
  PROVE  TasksInv'
<1>1. graph' \subseteq graph /\ ready' \subseteq ready \cup {m[2]}
  BY DEF Received, Signal
<1> QED
  BY <1>1, MessageType DEF CallsInv, TasksInv

(* A rank that handles messages and finds one of the solve is in Solve.    *)
LEMMA SolveMessageInSolve ==
  ASSUME CallsInv, NEW r \in Rank, pc[r] = "check",
         NEW m, Early => m \in FactorMessage
  PROVE  IsSolve(m[2]) => call[r] = 2
<1> SUFFICES ASSUME IsSolve(m[2]), call[r] # 2 PROVE FALSE
  OBVIOUS
<1>1. PICK q \in Rank : call[q] # 1
  BY DEF FactorMessage, Early
<1>2. call[q] > call[r]
  BY <1>1 DEF CallsInv, PlacesInv
<1> QED
  BY <1>2 DEF CallsInv, PlacesInv, AtBarrier

LEMMA TakeAsyncKeepsCalls ==
  ASSUME CallsInv, NEW r \in Rank, NEW m \in async, NEW data, NEW atOnce,
         TakeAsync(r, m, data, atOnce)
  PROVE  CallsInv'
<1>1. /\ UNCHANGED <<call, pc, net, blocking>> /\ async' = async \ {m}
      /\ pc[r] = "check" /\ RankOf(m[2]) = r
  BY DEF TakeAsync, placeVars, OnRank
<1>2. m \in AnyMessage /\ (Early => m \in FactorMessage)
  BY DEF CallsInv, MessagesInv
<1>3. IsSolve(m[2]) => call[RankOf(m[2])] = 2
  BY <1>1, <1>2, SolveMessageInSolve
<1>4. TasksInv'
  BY <1>1, <1>2, <1>3, ReceivedKeepsTasks DEF TakeAsync
<1>5. PlacesInv'
  BY <1>1 DEF CallsInv, PlacesInv, AtBarrier
<1>6. MessagesInv'
  <2>1. IsFiniteSet(async')
    BY <1>1, FS_RemoveElement DEF CallsInv, MessagesInv
  <2> QED
    BY <1>1, <2>1 DEF CallsInv, MessagesInv, Early
<1> QED
  BY <1>4, <1>5, <1>6 DEF CallsInv

(* One of the blocking lists changes, and perhaps async.                   *)
LEMMA BlockingChanged ==
  ASSUME CallsInv, NEW r \in Rank, NEW s,
         blocking' = [blocking EXCEPT ![r] = s],
         s \in Seq(To(r, AnyMessage)), Early => s \in Seq(To(r, FactorMessage)),
         async' \subseteq AnyMessage, Early => async' \subseteq FactorMessage,
         IsFiniteSet(async'), net' \subseteq net, UNCHANGED call
  PROVE  MessagesInv'
<1>1. /\ blocking = [q \in Rank |-> blocking[q]]
      /\ \A q \in Rank : blocking[q] \in Seq(To(q, AnyMessage))
      /\ Early => \A q \in Rank : blocking[q] \in Seq(To(q, FactorMessage))
  BY DEF CallsInv, MessagesInv
<1>2. \A q \in Rank : blocking'[q] = IF q = r THEN s ELSE blocking[q]
  BY <1>1
<1>3. blocking' = [q \in Rank |-> blocking'[q]]
  BY <1>1
<1>4. Early' <=> Early
  BY DEF Early
<1>5. \A q \in Rank : blocking'[q] \in Seq(To(q, AnyMessage))
  BY <1>1, <1>2
<1>6. Early => \A q \in Rank : blocking'[q] \in Seq(To(q, FactorMessage))
  BY <1>1, <1>2
<1>7. net' \subseteq AnyMessage /\ (Early => net' \subseteq FactorMessage)
  BY DEF CallsInv, MessagesInv
<1> QED
  BY <1>3, <1>4, <1>5, <1>6, <1>7 DEF MessagesInv, To

LEMMA BlockedTypes ==
  ASSUME CallsInv, NEW r \in Rank
  PROVE  /\ blocking[r] \in Seq(To(r, AnyMessage))
         /\ Early => blocking[r] \in Seq(To(r, FactorMessage))
         /\ Blocked(r) \subseteq To(r, AnyMessage)
         /\ Early => Blocked(r) \subseteq To(r, FactorMessage)
<1>1. /\ blocking[r] \in Seq(To(r, AnyMessage))
      /\ Early => blocking[r] \in Seq(To(r, FactorMessage))
  BY DEF CallsInv, MessagesInv
<1>2. ASSUME NEW S, blocking[r] \in Seq(S)
      PROVE  Blocked(r) \subseteq S
  <2>1. DOMAIN blocking[r] = 1..Len(blocking[r])
    BY <1>2, LenProperties
  <2> QED
    BY <1>2, <2>1, ElementOfSeq DEF Blocked
<1> QED
  BY <1>1, <1>2

LEMMA TakeBlockingKeepsCalls ==
  ASSUME CallsInv, NEW r \in Rank, NEW m \in Blocked(r), NEW data, NEW atOnce,
         TakeBlocking(r, m, data, atOnce)
  PROVE  CallsInv'
<1>1. /\ UNCHANGED <<call, pc, net, async>> /\ pc[r] = "check"
      /\ blocking' = [blocking EXCEPT ![r] = Tail(blocking[r])]
      /\ m = Head(blocking[r])
  BY DEF TakeBlocking, placeVars
<1>2. m \in AnyMessage /\ (Early => m \in FactorMessage) /\ RankOf(m[2]) = r
  BY BlockedTypes DEF To
<1>3. blocking[r] # <<>>
  BY DEF Blocked
<1>4. /\ Tail(blocking[r]) \in Seq(To(r, AnyMessage))
      /\ Early => Tail(blocking[r]) \in Seq(To(r, FactorMessage))
  BY <1>3, BlockedTypes, HeadTailProperties
<1>5. MessagesInv'
  BY <1>1, <1>4, BlockingChanged DEF CallsInv, MessagesInv
<1>6. PlacesInv'
  BY <1>1 DEF CallsInv, PlacesInv, AtBarrier
<1>7. TasksInv'
  <2>1. IsSolve(m[2]) => call[r] = 2
    BY <1>1, <1>2, SolveMessageInSolve
  <2> QED
    BY <1>1, <1>2, <2>1, ReceivedKeepsTasks DEF TakeBlocking
<1> QED
  BY <1>5, <1>6, <1>7 DEF CallsInv

LEMMA ArriveKeepsCalls ==
  ASSUME CallsInv, NEW m, Arrive(m)
  PROVE  CallsInv'
<1> DEFINE r == RankOf(m[2])
<1>1. /\ UNCHANGED <<call, pc, graph, ready>> /\ m \in net
      /\ net' = net \ {m}
      /\ \/ async' = async \cup {m} /\ UNCHANGED blocking
         \/ blocking' = [blocking EXCEPT ![r] = Append(blocking[r], m)]
            /\ UNCHANGED async
  BY DEF Arrive, placeVars, graphVars
<1>2. m \in AnyMessage /\ (Early => m \in FactorMessage) /\ r \in Rank
  BY <1>1, MessageType DEF CallsInv, MessagesInv
<1>3. PlacesInv' /\ TasksInv'
  BY <1>1 DEF CallsInv, PlacesInv, AtBarrier, TasksInv
<1>4. CASE async' = async \cup {m} /\ UNCHANGED blocking
  <2>1. IsFiniteSet(async')
    BY <1>4, FS_AddElement DEF CallsInv, MessagesInv
  <2> QED
    BY <1>1, <1>2, <1>3, <1>4, <2>1 DEF CallsInv, MessagesInv, Early
<1>5. CASE /\ blocking' = [blocking EXCEPT ![r] = Append(blocking[r], m)]
           /\ UNCHANGED async
  <2>1. m \in To(r, AnyMessage) /\ (Early => m \in To(r, FactorMessage))
    BY <1>2 DEF To
  <2>2. /\ Append(blocking[r], m) \in Seq(To(r, AnyMessage))
        /\ Early => Append(blocking[r], m) \in Seq(To(r, FactorMessage))
    BY <1>2, <2>1, BlockedTypes, AppendProperties
  <2> QED
    BY <1>1, <1>2, <1>3, <1>5, <2>2, BlockingChanged DEF CallsInv, MessagesInv
<1> QED
  BY <1>1, <1>3, <1>4, <1>5

LEMMA MovedRange ==
  ASSUME CallsInv, NEW r \in Rank
  PROVE  Moved(r) \in 0..Len(blocking[r]) /\ Len(blocking[r]) \in Nat
<1>1. Len(blocking[r]) \in Nat
  BY BlockedTypes, LenProperties
<1>2. Cardinality(OnRank(r, async)) \in Nat
  <2>1. IsFiniteSet(OnRank(r, async))
    BY FS_Subset DEF CallsInv, MessagesInv, OnRank
  <2> QED
    BY <2>1, FS_CardinalityType
<1> QED
  BY <1>1, <1>2, SchedulerAssumption DEF Moved

LEMMA PromoteKeepsCalls ==
  ASSUME CallsInv, NEW r \in Rank, Promote(r)
  PROVE  CallsInv'
<1> DEFINE n == Moved(r)
           l == Len(blocking[r])
           moved == {blocking[r][i] : i \in 1..n}
           rest  == SubSeq(blocking[r], n + 1, l)
<1>1. /\ UNCHANGED <<call, graph, ready, net>>
      /\ pc[r] = "check" /\ pc' = [pc EXCEPT ![r] = "work"]
      /\ async' = async \cup moved
      /\ blocking' = [blocking EXCEPT ![r] = rest]
  BY DEF Promote, graphVars
<1>2. n \in 0..l /\ l \in Nat
  BY MovedRange
<1>3. moved \subseteq Blocked(r)
  <2>1. DOMAIN blocking[r] = 1..l
    BY BlockedTypes, LenProperties
  <2> QED
    BY <1>2, <2>1 DEF Blocked
<1>4. IsFiniteSet(moved)
  <2> DEFINE f == [i \in 1..n |-> blocking[r][i]]
  <2>1. f \in Surjection(1..n, moved)
    BY DEF Surjection
  <2>2. IsFiniteSet(1..n)
    BY <1>2, FS_Interval
  <2> QED
    BY <2>1, <2>2, FS_Surjection
<1>5. /\ rest \in Seq(To(r, AnyMessage))
      /\ Early => rest \in Seq(To(r, FactorMessage))
  <2>1. ASSUME NEW S, blocking[r] \in Seq(S) PROVE rest \in Seq(S)
    <3>1. \A i \in (n + 1)..l : i \in 1..Len(blocking[r])
      BY <1>2
    <3>2. \A i \in (n + 1)..l : blocking[r][i] \in S
      BY <2>1, <3>1, ElementOfSeq
    <3> QED
      BY <1>2, <2>1, <3>1, SubSeqProperties
  <2> QED
    BY <2>1, BlockedTypes
<1>6. MessagesInv'
  <2>1. IsFiniteSet(async')
    BY <1>1, <1>4, FS_Union DEF CallsInv, MessagesInv
  <2>2. /\ async' \subseteq AnyMessage
        /\ Early => async' \subseteq FactorMessage
    BY <1>1, <1>3, BlockedTypes DEF CallsInv, MessagesInv, To
  <2> QED
    BY <1>1, <1>5, <2>1, <2>2, BlockingChanged
<1>7. PlacesInv'
  BY <1>1 DEF CallsInv, PlacesInv, AtBarrier
<1>8. TasksInv'
  BY <1>1 DEF CallsInv, TasksInv
<1> QED
  BY <1>6, <1>7, <1>8 DEF CallsInv

LEMMA UnchangedKeepsCalls ==
  ASSUME CallsInv, UNCHANGED <<call, pc, graph, ready, net, async, blocking>>
  PROVE  CallsInv'
  BY DEF CallsInv, PlacesInv, AtBarrier, TasksInv, MessagesInv, Early

(* A rank moves on inside its call.                                        *)
LEMMA MoveKeepsCalls ==
  ASSUME CallsInv, NEW r \in Rank,
         NEW place \in {"check", "work", "drain", "barrier", "end"},
         pc' = [pc EXCEPT ![r] = place],
         pc[r] # "end", pc[r] = "barrier" => place = "end",
         place = "end" => \A s \in Rank :
           \/ call[s] > call[r]
           \/ call[s] = call[r] /\ pc[s] \in {"barrier", "end"},
         UNCHANGED <<call, graph, ready, net, async, blocking>>
  PROVE  CallsInv'
<1>1. TasksInv' /\ MessagesInv'
  BY DEF CallsInv, TasksInv, MessagesInv, Early
<1>2. PlacesInv
  BY DEF CallsInv
<1>3. pc' \in [Rank -> {"check", "work", "drain", "barrier", "end"}]
  BY <1>2 DEF PlacesInv
<1>4. \A s \in Rank : AtBarrier(s) => AtBarrier(s)'
  BY <1>2 DEF PlacesInv, AtBarrier
<1>5. ASSUME NEW q \in Rank, NEW s \in Rank
      PROVE  /\ call'[q] > call'[s] => AtBarrier(s)'
             /\ pc'[q] = "end" =>
                  call'[s] > call'[q] \/ (call'[s] = call'[q] /\ AtBarrier(s)')
  <2>1. call[q] > call[s] => AtBarrier(s)
    BY <1>2 DEF PlacesInv
  <2>2. CASE q = r
    <3>1. place = "end" => call[s] > call[r] \/ (call[s] = call[r] /\ AtBarrier(s))
      BY DEF AtBarrier
    <3>2. pc'[r] = place
      BY <1>2 DEF PlacesInv
    <3> QED
      BY <1>4, <2>1, <2>2, <3>1, <3>2
  <2>3. CASE q # r
    <3>1. pc'[q] = pc[q]
      BY <1>2, <2>3 DEF PlacesInv
    <3>2. pc[q] = "end" => call[s] > call[q] \/ (call[s] = call[q] /\ AtBarrier(s))
      BY <1>2 DEF PlacesInv
    <3> QED
      BY <1>4, <2>1, <3>1, <3>2
  <2> QED
    BY <2>2, <2>3
<1>6. PlacesInv'
  BY <1>2, <1>3, <1>5 DEF PlacesInv
<1> QED
  BY <1>1, <1>6 DEF CallsInv

LEMMA LoopBackKeepsCalls ==
  ASSUME CallsInv, NEW r \in Rank, LoopBack(r)
  PROVE  CallsInv'
<1>1. pc[r] = "work" /\ pc' = [pc EXCEPT ![r] = Loop(r, graph, {})]
  BY DEF LoopBack
<1>2. Loop(r, graph, {}) \in {"check", "drain"}
  BY DEF Loop
<1>3. UNCHANGED <<call, graph, ready, net, async, blocking>>
  BY DEF LoopBack, graphVars, commVars
<1> QED
  BY <1>1, <1>2, <1>3, MoveKeepsCalls

LEMMA LeaveDrainKeepsCalls ==
  ASSUME CallsInv, NEW r \in Rank, LeaveDrain(r, Drained(r))
  PROVE  CallsInv'
<1>1. pc[r] = "drain" /\ pc' = [pc EXCEPT ![r] = "barrier"]
  BY DEF LeaveDrain
<1>2. UNCHANGED <<call, graph, ready, net, async, blocking>>
  BY DEF LeaveDrain, graphVars, commVars
<1> QED
  BY <1>1, <1>2, MoveKeepsCalls

LEMMA PassBarrierKeepsCalls ==
  ASSUME CallsInv, NEW r \in Rank, PassBarrier(r)
  PROVE  CallsInv'
<1>1. /\ pc[r] = "barrier" /\ pc' = [pc EXCEPT ![r] = "end"]
      /\ \A s \in Rank :
           \/ call[s] > call[r]
           \/ call[s] = call[r] /\ pc[s] \in {"barrier", "end"}
  BY DEF PassBarrier
<1>2. UNCHANGED <<call, graph, ready, net, async, blocking>>
  BY DEF PassBarrier, graphVars, commVars
<1> QED
  BY <1>1, <1>2, MoveKeepsCalls

(* A rank that calls Solve has left the barrier of Factorize, so that the  *)
(* others have reached it.                                                 *)
LEMMA SolveKeepsCalls ==
  ASSUME CallsInv, NEW r \in Rank, Solve(r)
  PROVE  CallsInv'
<1> DEFINE tasks == Mine(r, SolveTasks)
<1>1. /\ pc[r] = "end" /\ call[r] = 1
      /\ call' = [call EXCEPT ![r] = call[r] + 1]
      /\ graph' \subseteq graph \cup tasks /\ ready' \subseteq ready \cup tasks
      /\ pc' = [pc EXCEPT ![r] = Loop(r, graph', ready')]
      /\ UNCHANGED <<net, async, blocking>>
  BY DEF Solve, RunAgain, Free, commVars
<1>2. PlacesInv
  BY DEF CallsInv
<1>3. /\ \A s \in Rank : call'[s] = IF s = r THEN 2 ELSE call[s]
      /\ call' \in [Rank -> {1, 2}]
  BY <1>1, <1>2 DEF PlacesInv
<1>4. /\ \A s \in Rank : s # r => pc'[s] = pc[s]
      /\ pc'[r] \in {"check", "drain"}
      /\ pc' \in [Rank -> {"check", "work", "drain", "barrier", "end"}]
  <2>1. Loop(r, graph', ready') \in {"check", "drain"}
    BY DEF Loop
  <2> QED
    BY <1>1, <1>2, <2>1 DEF PlacesInv
<1>5. \A s \in Rank : call[s] = 2 \/ AtBarrier(s)
  BY <1>1, <1>2 DEF PlacesInv
<1>6. PlacesInv'
  <2>1. ASSUME NEW q \in Rank, NEW s \in Rank
        PROVE  /\ call'[q] > call'[s] => AtBarrier(s)'
               /\ pc'[q] = "end" =>
                    call'[s] > call'[q] \/ (call'[s] = call'[q] /\ AtBarrier(s)')
    <3>1. CASE q = r
      <4>1. pc'[q] # "end"
        BY <1>4, <3>1
      <4>2. call'[q] > call'[s] => s # r /\ AtBarrier(s)
        BY <1>2, <1>3, <1>5 DEF PlacesInv
      <4> QED
        BY <1>4, <4>1, <4>2 DEF AtBarrier
    <3>2. CASE q # r /\ s = r
      <4>1. call'[q] = call[q] /\ call[q] \in {1, 2} /\ call'[s] = 2
        BY <1>2, <1>3, <3>2 DEF PlacesInv
      <4>2. pc[q] = "end" => call[q] = 1
        BY <1>1, <1>2, <4>1 DEF PlacesInv
      <4> QED
        BY <1>4, <3>2, <4>1, <4>2
    <3>3. CASE q # r /\ s # r
      BY <1>2, <1>3, <1>4, <3>3 DEF PlacesInv, AtBarrier
    <3> QED
      BY <3>1, <3>2, <3>3
  <2> QED
    BY <1>3, <1>4, <2>1 DEF PlacesInv
<1>7. TasksInv'
  <2>1. tasks \subseteq AnyTask /\ \A t \in tasks : RankOf(t) = r
    BY TasksTyped DEF Mine
  <2>2. \A t \in graph \cup ready : IsSolve(t) => call'[RankOf(t)] = 2
    BY <1>3, TaskType DEF CallsInv, TasksInv
  <2> QED
    BY <1>1, <1>3, <2>1, <2>2 DEF CallsInv, TasksInv
<1>8. MessagesInv'
  <2>1. ~Early'
    BY <1>3 DEF Early
  <2> QED
    BY <1>1, <2>1 DEF CallsInv, MessagesInv
<1> QED
  BY <1>6, <1>7, <1>8 DEF CallsInv

-----------------------------------------------------------------------------
(* The tasks.                                                              *)

LEMMA FactorKeepsCalls ==
  ASSUME CallsInv, NEW r \in Rank, NEW I \in Sup, Factor(r, I)
  PROVE  CallsInv'
<1> DEFINE local == {UPDATE(I, J) : J \in UpdatesOn(r, I)}
<1>1. Run(r, FACTOR(I), local, {}, FactorMessages(I), <<>>)
  BY DEF Factor
<1>2. local \subseteq AnyTask /\ \A u \in local : ~IsSolve(u)
  BY DistributionAssumption, FactorTaskTypes DEF UpdatesOn
<1>3. FactorMessages(I) \subseteq FactorMessage
  <2> SUFFICES ASSUME NEW q \in UsersOf(I)
               PROVE  <<I, FirstUpdate(q, I)>> \in FactorMessage
    BY DEF FactorMessages
  <2>1. \E J \in Sup : FirstUpdate(q, I) = UPDATE(I, J)
    BY FirstOfRank DEF UsersOf, FirstUpdate
  <2> QED
    BY <2>1, FactorTaskTypes DEF FactorMessage, AnyMessage
<1> QED
  BY <1>1, <1>2, <1>3, RunKeepsCalls DEF FactorMessage

LEMMA UpdateKeepsCalls ==
  ASSUME CallsInv, NEW r \in Rank, NEW I \in Sup, NEW J \in Sup, Update(r, I, J)
  PROVE  CallsInv'
<1> DEFINE targets == Targets(r, I, J)
           last  == {K \in targets : Announced(r, K)}
           local == {FACTOR(K) : K \in {L \in targets : Own(L) = r}}
           sent  == {<<I, AGGREGATE(I, K)>> : K \in last}
<1>1. Run(r, UPDATE(I, J), local, {}, sent, <<>>)
  BY DEF Update
<1>2. targets \subseteq Sup
  BY DistributionAssumption DEF Targets, UpdatesOn
<1>3. local \subseteq AnyTask /\ \A u \in local : ~IsSolve(u)
  BY <1>2, FactorTaskTypes
<1>4. sent \subseteq FactorMessage
  BY <1>2, FactorTaskTypes DEF FactorMessage, AnyMessage
<1> QED
  BY <1>1, <1>3, <1>4, RunKeepsCalls DEF FactorMessage

LEMMA AggregateKeepsCalls ==
  ASSUME CallsInv, NEW r \in Rank, NEW I \in Sup, NEW K \in Sup,
         Aggregate(r, I, K)
  PROVE  CallsInv'
<1>1. Run(r, AGGREGATE(I, K), {}, {FACTOR(K)}, {}, <<>>)
  BY DEF Aggregate
<1> QED
  BY <1>1, FactorTaskTypes, RunKeepsCalls

LEMMA ForwardKeepsCalls ==
  ASSUME CallsInv, NEW r \in Rank, NEW I \in Sup, Own(I) = r, Forward(r, I)
  PROVE  CallsInv'
<1> DEFINE near == ~IsRoot(I) /\ Own(Parent(I)) = r
           local == IF IsRoot(I) THEN {BUC(I)}
                    ELSE IF near THEN {FUC(Parent(I))} ELSE {}
           sent  == IF IsRoot(I) \/ near THEN {} ELSE {<<I, FUC(Parent(I))>>}
<1>1. Run(r, FUC(I), local, {}, sent, <<>>)
  BY DEF Forward
<1>2. local \subseteq AnyTask /\ \A u \in local : RankOf(u) = r
  BY ParentIsSup, SolveTaskTypes
<1>3. sent \subseteq AnyMessage
  BY ParentIsSup, SolveTaskTypes DEF AnyMessage
<1>4. IsSolve(FUC(I))
  BY DEF IsSolve, FUC
<1> QED
  BY <1>1, <1>2, <1>3, <1>4, RunKeepsCalls

LEMMA BackwardKeepsCalls ==
  ASSUME CallsInv, NEW r \in Rank, NEW I \in Sup, Own(I) = r, Backward(r, I)
  PROVE  CallsInv'
<1> DEFINE others == {Own(c) : c \in RemChildren(I)}
           local  == {BU(I, c) : c \in LocalChildren(I)}
           sent   == {<<I, BU(I, HighestOf(ChildrenOn(q, I)))>> : q \in others}
<1>1. Run(r, BUC(I), local, {}, sent, <<>>)
  BY DEF Backward
<1>2. local \subseteq AnyTask /\ \A u \in local : RankOf(u) = r
  BY SolveTaskTypes DEF LocalChildren, ChildrenOn, Children
<1>3. sent \subseteq AnyMessage
  <2> SUFFICES ASSUME NEW c \in RemChildren(I)
               PROVE  <<I, BU(I, HighestOf(ChildrenOn(Own(c), I)))>> \in AnyMessage
    OBVIOUS
  <2>1. c \in ChildrenOn(Own(c), I) /\ ChildrenOn(Own(c), I) \subseteq Sup
    BY DEF RemChildren, ChildrenOn, Children
  <2> QED
    BY <2>1, HighestIsGreatest, SolveTaskTypes DEF AnyMessage
<1>4. IsSolve(BUC(I))
  BY DEF IsSolve, BUC
<1> QED
  BY <1>1, <1>2, <1>3, <1>4, RunKeepsCalls

LEMMA CopyDownKeepsCalls ==
  ASSUME CallsInv, NEW r \in Rank, NEW P \in Sup, NEW I \in Sup, Own(I) = r,
         CopyDown(r, P, I)
  PROVE  CallsInv'
<1> DEFINE remote  == Own(P) # r
           source  == IF remote THEN got[<<P, BU(P, I)>>] ELSE rows[P]
           waiting == {c \in ChildrenOn(r, P) : remote /\ BU(P, c) \in graph}
           next    == IF waiting = {} THEN {} ELSE {BU(P, HighestOf(waiting))}
           handed  == [m \in {<<P, t>> : t \in next} |-> source]
<1>1. Run(r, BU(P, I), {BUC(I)}, next, {}, handed)
  BY DEF CopyDown
<1>2. next \subseteq AnyTask /\ \A u \in next : RankOf(u) = r
  <2> SUFFICES ASSUME waiting # {}
               PROVE  /\ BU(P, HighestOf(waiting)) \in AnyTask
                      /\ RankOf(BU(P, HighestOf(waiting))) = r
    OBVIOUS
  <2>1. waiting \subseteq Sup /\ \A c \in waiting : Own(c) = r
    BY DEF ChildrenOn, Children
  <2>2. HighestOf(waiting) \in waiting
    BY <2>1, HighestIsGreatest
  <2> QED
    BY <2>1, <2>2, SolveTaskTypes
<1>3. BUC(I) \in AnyTask /\ RankOf(BUC(I)) = r
  BY SolveTaskTypes
<1>4. IsSolve(BU(P, I))
  BY DEF IsSolve, BU
<1> HIDE DEF next, handed
<1> QED
  BY <1>1, <1>2, <1>3, <1>4, RunKeepsCalls

LEMMA ExecuteKeepsCalls ==
  ASSUME CallsInv, NEW r \in Rank, Execute(r)
  PROVE  CallsInv'
<1>1. \A t \in Mine(r, ready) : t \in AnyTask /\ t[4] = r
  BY DEF CallsInv, TasksInv, Mine, RankOf
<1>2. CASE FactorTask(r)
  <2>1. PICK t \in Mine(r, ready) :
          \/ t[1] = "FACTOR"    /\ Factor(r, t[2])
          \/ t[1] = "UPDATE"    /\ Update(r, t[2], t[3])
          \/ t[1] = "AGGREGATE" /\ Aggregate(r, t[2], t[3])
    BY <1>2 DEF FactorTask
  <2>2. t[2] \in Sup /\ t[3] \in Sup
    BY <1>1 DEF AnyTask
  <2> QED
    BY <2>1, <2>2, FactorKeepsCalls, UpdateKeepsCalls, AggregateKeepsCalls
<1>3. CASE SolveTask(r)
  <2>1. PICK t \in Mine(r, ready) :
          \/ t[1] = "FUC" /\ Forward(r, t[3])
          \/ t[1] = "BUC" /\ Backward(r, t[3])
          \/ t[1] = "BU"  /\ CopyDown(r, t[2], t[3])
    BY <1>3 DEF SolveTask
  <2>2. t[2] \in Sup /\ t[3] \in Sup
    BY <1>1 DEF AnyTask
  (* The task runs, so it is in ready, on the rank of its supernode.       *)
  <2>3. /\ Forward(r, t[3]) => RankOf(FUC(t[3])) = r
        /\ Backward(r, t[3]) => RankOf(BUC(t[3])) = r
        /\ CopyDown(r, t[2], t[3]) => RankOf(BU(t[2], t[3])) = r
    BY DEF Forward, Backward, CopyDown, Run, Mine
  <2>4. \/ Forward(r, t[3]) /\ Own(t[3]) = r
        \/ Backward(r, t[3]) /\ Own(t[3]) = r
        \/ CopyDown(r, t[2], t[3]) /\ Own(t[3]) = r
    BY <2>1, <2>2, <2>3, SolveTaskTypes
  <2> QED
    BY <2>2, <2>4, ForwardKeepsCalls, BackwardKeepsCalls, CopyDownKeepsCalls
<1> QED
  BY <1>2, <1>3 DEF Execute

-----------------------------------------------------------------------------
LEMMA InitCalls == Init => CallsInv
<1> SUFFICES ASSUME Init PROVE CallsInv
  OBVIOUS
<1>1. /\ call = [r \in Rank |-> 1]
      /\ graph \subseteq FactorTasks /\ ready \subseteq FactorTasks
      /\ pc = [r \in Rank |-> Loop(r, graph, ready)]
      /\ net = {} /\ async = {} /\ blocking = [r \in Rank |-> <<>>]
  BY DEF Init, RunInit, Free
<1>2. \A r : Loop(r, graph, ready) \in {"check", "drain"}
  BY DEF Loop
<1>3. PlacesInv
  BY <1>1, <1>2 DEF PlacesInv
<1>4. TasksInv
  BY <1>1, TasksTyped DEF TasksInv
<1>5. MessagesInv
  <2>1. \A r \in Rank : <<>> \in Seq(To(r, AnyMessage)) /\ <<>> \in Seq(To(r, FactorMessage))
    BY EmptySeq
  <2>2. IsFiniteSet(async)
    BY <1>1, FS_EmptySet
  <2> QED
    BY <1>1, <2>1, <2>2 DEF MessagesInv
<1> QED
  BY <1>3, <1>4, <1>5 DEF CallsInv

LEMMA NextKeepsCalls == CallsInv /\ [Next]_vars => CallsInv'
<1> SUFFICES ASSUME CallsInv, [Next]_vars PROVE CallsInv'
  OBVIOUS
<1>1. CASE UNCHANGED vars
  BY <1>1, UnchangedKeepsCalls
     DEF vars, runVars, placeVars, graphVars, commVars
<1>2. ASSUME NEW r \in Rank, RankStep(r) PROVE CallsInv'
  <2>1. CASE Execute(r)
    BY <2>1, ExecuteKeepsCalls
  <2>2. CASE \E m \in Blocked(r) : TakeBlocking(r, m, Data(m), AtOnce(m))
    BY <2>2, TakeBlockingKeepsCalls
  <2>3. CASE Promote(r)
    BY <2>3, PromoteKeepsCalls
  <2>4. CASE LoopBack(r)
    BY <2>4, LoopBackKeepsCalls
  <2>5. CASE LeaveDrain(r, Drained(r))
    BY <2>5, LeaveDrainKeepsCalls
  <2>6. CASE PassBarrier(r)
    BY <2>6, PassBarrierKeepsCalls
  <2>7. CASE Solve(r)
    BY <2>7, SolveKeepsCalls
  <2> QED
    BY <1>2, <2>1, <2>2, <2>3, <2>4, <2>5, <2>6, <2>7 DEF RankStep
<1>3. ASSUME NEW r \in Rank, Complete(r) PROVE CallsInv'
  BY <1>3, TakeAsyncKeepsCalls DEF Complete
<1>4. ASSUME NEW r \in Rank, Reached(r) PROVE CallsInv'
  <2>1. CASE \E m \in OnRank(r, net) : Arrive(m)
    BY <2>1, ArriveKeepsCalls
  <2>2. CASE \E f \in frees : FreeAggregate(f)
    BY <2>2, UnchangedKeepsCalls
       DEF FreeAggregate, runVars, placeVars, graphVars, commVars
  <2> QED
    BY <1>4, <2>1, <2>2 DEF Reached
<1> QED
  BY <1>1, <1>2, <1>3, <1>4 DEF Next, Terminated

LEMMA CallsInvIsEnough == CallsInv => PhasesApart
<1> SUFFICES ASSUME CallsInv,
                    NEW r \in Rank, call[r] = 1, pc[r] \notin {"barrier", "end"},
                    NEW s \in Rank
             PROVE  /\ call[s] = 1
                    /\ \A t \in Mine(s, graph \cup ready) : ~IsSolve(t)
                    /\ \A m \in Pending(s) : ~IsSolve(m[2])
  BY DEF PhasesApart
<1>1. Early
  <2> SUFFICES ASSUME NEW q \in Rank, call[q] # 1 PROVE FALSE
    BY DEF Early
  <2>1. call[q] > call[r]
    BY DEF CallsInv, PlacesInv
  <2> QED
    BY <2>1 DEF CallsInv, PlacesInv, AtBarrier
<1>2. call[s] = 1
  BY <1>1 DEF Early
<1>3. \A t \in Mine(s, graph \cup ready) : ~IsSolve(t)
  BY <1>2 DEF CallsInv, TasksInv, Mine
<1>4. \A m \in Pending(s) : ~IsSolve(m[2])
  <2>1. Blocked(s) \subseteq FactorMessage
    BY <1>1, BlockedTypes DEF To
  <2> QED
    BY <1>1, <2>1 DEF CallsInv, MessagesInv, Pending, OnRank, FactorMessage
<1> QED
  BY <1>2, <1>3, <1>4

(* Factorize and Solve do not overlap, for every structure, mapping and    *)
(* number of ranks: a message of the solve never reaches a rank that looks *)
(* for the tasks of its messages in the graph of the factorization.        *)
THEOREM CallsStayApart == Spec => []PhasesApart
<1>1. Spec => []CallsInv
  BY InitCalls, NextKeepsCalls, PTL DEF Spec
<1> QED
  BY <1>1, CallsInvIsEnough, PTL

-----------------------------------------------------------------------------
(* The factorization.  Which updates have been computed follows from the   *)
(* tasks that are gone; which aggregates have been added, from that and    *)
(* from the aggregates still under way.  Every count and every vector of   *)
(* the code is a function of these two.                                    *)

(* The task that computes the update of K by I.                            *)
TaskFor(I, K) ==
  IF Updater(K, I) = Own(I) THEN UPDATE(I, K) ELSE FirstUpdate(Updater(K, I), I)

Gone(t)        == t \notin graph \cup ready
Computed(I, K) == Gone(TaskFor(I, K))

(* The messages that have been sent and not handled.                       *)
Pend == net \cup async \cup UNION {Blocked(r) : r \in Rank}

(* The aggregate of K that rank s sends carries the name of its last       *)
(* source I: announced, or read and waiting to be added.                   *)
AggMsg(I, K)   == <<I, AGGREGATE(I, K)>>
Sends(s, K)    == s # Own(K) /\ Sources(s, K) # {}
Carries(I, K)  == AggMsg(I, K) \in Pend \/ AGGREGATE(I, K) \in ready

(* What rank s has to do for K has been computed; it has been added to K;  *)
(* and the rpc that frees it has run.                                      *)
Full(s, K)     == \A I \in Sources(s, K) : Computed(I, K)
Added(s, K)    == Full(s, K) /\ \A I \in Sources(s, K) : ~Carries(I, K)
Freed(s, K)    == Added(s, K) /\ <<s, K>> \notin frees

(* The updates rank r still has to compute, the ranks K still waits for,   *)
(* the aggregates of s that are not freed, a complete one.                 *)
Missing(r, K) == {I \in Sources(r, K) : ~Computed(I, K)}
Awaited(K)    == {s \in Rank \ {Own(K)} : Sources(s, K) # {} /\ ~Added(s, K)}
Lent(s)       == {K \in Sup : Sends(s, K) /\ Full(s, K) /\ ~Freed(s, K)}
Whole(s, K)   == [L \in Sup |-> IF L \in Sources(s, K) THEN 1 ELSE 0]

IsFirstMsg(m) == \E I \in Sup : m \in FactorMessages(I)
IsAggMsg(m)   == \E I \in Sup : \E K \in Struct[I] :
                    Updater(K, I) # Own(K) /\ m = AggMsg(I, K)

(* The parts of the invariant.                                             *)
FTypes ==
  /\ factored \subseteq Sup
  /\ sum \in [Rank -> [Sup -> [Sup -> Int]]]
  /\ todo \in [Rank -> [Sup -> Int]]
  /\ remDealloc \in [Rank -> Int]
  /\ frees \subseteq Rank \X Sup
  /\ localDeps \in [Tasks -> Int] /\ remoteDeps \in [Tasks -> Int]

(* The tasks and messages there are; one that waits is not ready.          *)
FKinds ==
  /\ \A t \in graph : ~IsSolve(t) => t \in FactorTasks /\ t \notin ready
  /\ \A t \in ready : ~IsSolve(t) =>
       t \in FactorTasks \/ \E I \in Sup : \E K \in Struct[I] :
                               Updater(K, I) # Own(K) /\ t = AGGREGATE(I, K)
  /\ \A m \in Pend : ~IsSolve(m[2]) => IsFirstMsg(m) \/ IsAggMsg(m)

(* A supernode is factored when its task is gone.                          *)
FactorStatus == \A K \in Sup : K \in factored <=> Gone(FACTOR(K))

(* An update waits until its factor has come, in its own rank or in a      *)
(* message, which is sent when the factor is there.                        *)
UpdateStatus ==
  \A I \in Sup : \A t \in UpdateTasks(I) :
    /\ localDeps[t]  = IF t \in graph THEN LocalOf(t) ELSE 0
    /\ remoteDeps[t] = IF t \in graph THEN RemoteOf(t) ELSE 0
    /\ t \in graph <=> I \notin factored \/ <<I, t>> \in Pend
    /\ <<I, t>> \in Pend => I \in factored

(* FACTOR counts the updates and the aggregates that are still to come.    *)
FactorCounts ==
  \A K \in Sup :
    /\ localDeps[FACTOR(K)] = Cardinality(Missing(Own(K), K))
    /\ remoteDeps[FACTOR(K)] = Cardinality(Awaited(K))
    /\ FACTOR(K) \in graph <=> Missing(Own(K), K) # {} \/ Awaited(K) # {}

(* The contribution of I is in what rank r holds of K: in its own          *)
(* supernode, or in the aggregate until that is freed.                     *)
Holds(r, K, I) ==
  /\ K \in Struct[I]
  /\ IF Updater(K, I) = r THEN Computed(I, K) /\ (r = Own(K) \/ ~Freed(r, K))
     ELSE r = Own(K) /\ Added(Updater(K, I), K)

SumExact ==
  \A r \in Rank : \A K, I \in Sup : sum[r][K][I] = IF Holds(r, K, I) THEN 1 ELSE 0

(* The rank that counts to the last update counts the missing ones.        *)
TodoExact == \A r \in Rank : \A K \in Sup : todo[r][K] = Cardinality(Missing(r, K))

(* An aggregate is on its way once, complete, and what was read is whole.  *)
CarrierExact ==
  \A I \in Sup : \A K \in Struct[I] : LET s == Updater(K, I) IN
    Carries(I, K) =>
      /\ s # Own(K)
      /\ Full(s, K)
      /\ \A L \in Sources(s, K) : Carries(L, K) => L = I
      /\ ~(AggMsg(I, K) \in Pend /\ AGGREGATE(I, K) \in ready)
      /\ AGGREGATE(I, K) \in ready =>
           AggMsg(I, K) \in DOMAIN got /\ got[AggMsg(I, K)] = Whole(s, K)

(* Only what has been added is to be freed, and what is not is counted.    *)
FreesExact == \A f \in frees : Sends(f[1], f[2]) /\ Added(f[1], f[2])
LentExact == \A s \in Rank : remDealloc[s] = Cardinality(Lent(s))

(* A message is in one place, once.                                        *)
OnePlace ==
  /\ net \cap async = {}
  /\ \A r \in Rank : (net \cup async) \cap Blocked(r) = {}
  /\ \A r \in Rank : \A i, j \in DOMAIN blocking[r] :
       blocking[r][i] = blocking[r][j] => i = j

(* Where a rank has no task, which call its tasks belong to, and when it   *)
(* has no aggregate.                                                       *)
Idle ==
  \A r \in Rank : pc[r] \in {"drain", "barrier", "end"} => Mine(r, graph \cup ready) = {}
Past ==
  \A r \in Rank : call[r] = 2 => \A t \in Mine(r, graph \cup ready) : IsSolve(t)
Quiet1 == \A r \in Rank : pc[r] \in {"barrier","end"} \/ call[r] = 2 => remDealloc[r] = 0

-----------------------------------------------------------------------------
(* The constants.                                                          *)

LEMMA SourcesFacts ==
  ASSUME NEW r, NEW K
  PROVE  /\ Sources(r, K) \subseteq Sup /\ IsFiniteSet(Sources(r, K))
         /\ \A I \in Sources(r, K) : K \in Struct[I] /\ K \in Sup
                                       /\ Updater(K, I) = r /\ r \in Rank
         /\ \A I \in Sup : K \in Struct[I] /\ Updater(K, I) = r => I \in Sources(r, K)
<1>1. IsFiniteSet(Sup) /\ Sources(r, K) \subseteq Sup
  BY UpTo, DistributionAssumption DEF Sup, Sources
<1>2. IsFiniteSet(Sources(r, K))
  BY <1>1, FS_Subset
<1>3. \A I \in Sources(r, K) : K \in Struct[I] /\ K \in Sup
                                       /\ Updater(K, I) = r /\ r \in Rank
  BY DistributionAssumption, OwnersAreRanks DEF Sources
<1> QED
  BY <1>1, <1>2, <1>3 DEF Sources

LEMMA StructFacts ==
  ASSUME NEW I \in Sup, NEW K \in Struct[I]
  PROVE  /\ K \in Sup /\ K # I /\ Updater(K, I) \in Rank /\ Own(K) \in Rank
         /\ I \in Sources(Updater(K, I), K)
<1>1. K \in Sup /\ K > I
  BY DistributionAssumption
<1> QED
  BY <1>1, SourcesFacts, OwnersAreRanks DEF Sup

(* TaskFor names the task that computes an update.                         *)
LEMMA TaskForFacts ==
  ASSUME NEW I \in Sup, NEW K \in Struct[I]
  PROVE  /\ TaskFor(I, K) \in UpdateTasks(I)
         /\ RankOf(TaskFor(I, K)) = Updater(K, I)
         /\ \A t \in UpdateTasks(I) :
              TaskFor(I, K) = t <=> K \in Targets(RankOf(t), I, t[3])
<1> DEFINE r == Updater(K, I)
<1>1. K \in UpdatesOn(r, I) /\ r \in Rank
  BY StructFacts DEF UpdatesOn
<1>2. CASE r = Own(I)
  <2>1. TaskFor(I, K) = UPDATE(I, K) /\ UPDATE(I, K) \in UpdateTasks(I)
    BY <1>1, <1>2 DEF TaskFor, UpdateTasks
  <2>2. RankOf(UPDATE(I, K)) = r /\ UPDATE(I, K)[3] = K
    BY DEF UPDATE, RankOf
  <2>3. K \in Targets(r, I, K)
    BY <1>2 DEF Targets
  <2> QED
    BY <2>1, <2>2, <2>3, UpdatesAreShared
<1>3. CASE r # Own(I)
  <2>1. r \in UsersOf(I) /\ UpdatesOn(r, I) # {}
    BY <1>1, <1>3 DEF UsersOf
  <2>2. TaskFor(I, K) = FirstUpdate(r, I) /\ FirstUpdate(r, I) \in UpdateTasks(I)
    BY <1>3, <2>1 DEF TaskFor, UpdateTasks
  <2>3. /\ RankOf(FirstUpdate(r, I)) = r
        /\ FirstUpdate(r, I)[3] = LowestOf(UpdatesOn(r, I))
    BY <2>1, FirstOfRank DEF RankOf
  <2>4. K \in Targets(r, I, LowestOf(UpdatesOn(r, I)))
    BY <1>1, <1>3, <2>1, FirstOfRank DEF Targets
  <2> QED
    BY <2>2, <2>3, <2>4, UpdatesAreShared
<1> QED
  BY <1>2, <1>3

LEMMA UpdateTaskShape ==
  ASSUME NEW I \in Sup, NEW t \in UpdateTasks(I)
  PROVE  /\ t[1] = "UPDATE" /\ t[2] = I /\ t[3] \in Struct[I] /\ t[3] \in Sup
         /\ t = UPDATE(I, t[3]) /\ RankOf(t) = Updater(t[3], I)
         /\ t \in FactorTasks /\ t \in Tasks /\ ~IsSolve(t)
         /\ LocalOf(t) \in {0, 1} /\ RemoteOf(t) = 1 - LocalOf(t)
         /\ LocalOf(t) = 1 <=> RankOf(t) = Own(I)
<1>1. \E J \in Struct[I] : t = UPDATE(I, J)
  <2>1. CASE \E K \in UpdatesOn(Own(I), I) : t = UPDATE(I, K)
    BY <2>1 DEF UpdatesOn
  <2>2. CASE \E q \in UsersOf(I) : t = FirstUpdate(q, I)
    <3>1. PICK q \in UsersOf(I) : t = FirstUpdate(q, I)
      BY <2>2
    <3>2. UpdatesOn(q, I) # {}
      BY DEF UsersOf
    <3> QED
      BY <3>1, <3>2, FirstOfRank DEF FirstUpdate
  <2> QED
    BY <2>1, <2>2, UpdateTaskKinds
<1>2. PICK J \in Struct[I] : t = UPDATE(I, J)
  BY <1>1
<1>3. /\ t[1] = "UPDATE" /\ t[2] = I /\ t[3] = J /\ RankOf(t) = Updater(J, I)
      /\ t[4] = Updater(J, I)
  BY <1>2 DEF UPDATE, RankOf
<1>4. J \in Sup
  BY StructFacts
<1>5. t \in FactorTasks /\ t \in Tasks
  BY DEF FactorTasks, Tasks
<1>6. ~IsSolve(t)
  BY <1>5, TasksTyped
<1> QED
  BY <1>2, <1>3, <1>4, <1>5, <1>6 DEF LocalOf, RemoteOf

LEMMA FactorTaskShape ==
  ASSUME NEW K \in Sup
  PROVE  /\ FACTOR(K) \in FactorTasks /\ FACTOR(K) \in Tasks /\ ~IsSolve(FACTOR(K))
         /\ FACTOR(K)[1] = "FACTOR" /\ FACTOR(K)[2] = K /\ FACTOR(K)[3] = K
         /\ RankOf(FACTOR(K)) = Own(K)
         /\ LocalOf(FACTOR(K)) = LocalAggregates(K)
         /\ RemoteOf(FACTOR(K)) = AggregatesToRecv(K)
<1>1. FACTOR(K) \in FactorTasks /\ FACTOR(K) \in Tasks
  BY DEF FactorTasks, Tasks
<1>2. ~IsSolve(FACTOR(K))
  BY <1>1, TasksTyped
<1>3. FACTOR(K)[1] = "FACTOR" /\ FACTOR(K)[2] = K /\ FACTOR(K)[3] = K
  BY DEF FACTOR
<1> QED
  BY <1>1, <1>2, <1>3 DEF LocalOf, RemoteOf, FACTOR, RankOf

LEMMA FactorTaskCases ==
  ASSUME NEW t \in FactorTasks
  PROVE  \/ \E K \in Sup : t = FACTOR(K)
         \/ \E I \in Sup : t \in UpdateTasks(I)
  BY DEF FactorTasks

(* The names of tasks and messages tell them apart.                        *)
LEMMA NamesApart ==
  /\ \A I, K : FACTOR(I) = FACTOR(K) => I = K
  /\ \A I, J, L, K : UPDATE(I, J) = UPDATE(L, K) => I = L /\ J = K
  /\ \A I, J, L, K : AGGREGATE(I, J) = AGGREGATE(L, K) => I = L /\ J = K
  /\ \A I, J, K : FACTOR(K) # UPDATE(I, J)
  /\ \A I, J, K : FACTOR(K) # AGGREGATE(I, J)
  /\ \A I, J, L, K : UPDATE(L, K) # AGGREGATE(I, J)
  /\ \A I, J, L, K : AggMsg(I, J) = AggMsg(L, K) => I = L /\ J = K
  BY DEF FACTOR, UPDATE, AGGREGATE, AggMsg

LEMMA FirstMsgShape ==
  ASSUME NEW I \in Sup, NEW m \in FactorMessages(I)
  PROVE  \E t \in UpdateTasks(I) :
           m = <<I, t>> /\ RemoteOf(t) = 1 /\ LocalOf(t) = 0 /\ RankOf(t) # Own(I)
<1>1. PICK q \in UsersOf(I) : m = <<I, FirstUpdate(q, I)>>
  BY DEF FactorMessages
<1> DEFINE t == FirstUpdate(q, I)
<1>2. t \in UpdateTasks(I)
  BY DEF UpdateTasks
<1>3. UpdatesOn(q, I) # {} /\ q # Own(I)
  BY DEF UsersOf
<1>4. RankOf(t) = q
  BY <1>3, FirstOfRank DEF RankOf
<1> QED
  BY <1>1, <1>2, <1>3, <1>4, UpdateTaskShape

-----------------------------------------------------------------------------
(* What the actions of the scheduler do to the tasks and messages.         *)

FactorInv ==
  /\ FTypes /\ FKinds /\ FactorStatus /\ UpdateStatus /\ FactorCounts
  /\ SumExact /\ TodoExact /\ CarrierExact /\ FreesExact /\ LentExact

(* The tasks of a step that have their last signal with it.                *)
DueNow(S) == {u \in S : localDeps'[u] = 0 /\ remoteDeps'[u] = 0}

(* Task t of rank r has run.                                               *)
HasRun(r, t, local, remote, sent) ==
  /\ t \in ready /\ RankOf(t) = r /\ pc[r] = "work"
  /\ graph' = graph \ DueNow(local \cup remote)
  /\ ready' = (ready \ {t}) \cup DueNow(local \cup remote)
  /\ Pend' = Pend \cup sent
  /\ net' = net \cup sent
  /\ UNCHANGED <<call, pc, async, blocking>>
  /\ localDeps' \in [Tasks -> Int] /\ remoteDeps' \in [Tasks -> Int]
  /\ \A u \in Tasks : /\ localDeps'[u] = localDeps[u] - IF u \in local THEN 1 ELSE 0
                      /\ remoteDeps'[u] = remoteDeps[u] - IF u \in remote THEN 1 ELSE 0

LEMMA RunEffects ==
  ASSUME NEW r \in Rank, NEW t, NEW local, NEW remote, NEW sent, NEW handed,
         Run(r, t, local, remote, sent, handed),
         localDeps \in [Tasks -> Int], remoteDeps \in [Tasks -> Int]
  PROVE  HasRun(r, t, local, remote, sent)
<1>1. UNCHANGED <<call, pc, async, blocking>> /\ net' = net \cup sent
  BY DEF Run, placeVars
<1>2. Pend' = Pend \cup sent
  <2>1. \A q \in Rank : Blocked(q)' = Blocked(q)
    BY <1>1 DEF Blocked
  <2> QED
    BY <1>1, <2>1 DEF Pend
<1>3. Signal(local, remote, {t})
  BY DEF Run
<1>4. /\ DOMAIN localDeps = Tasks /\ DOMAIN remoteDeps = Tasks
      /\ localDeps' = [u \in Tasks |-> localDeps[u] - IF u \in local THEN 1 ELSE 0]
      /\ remoteDeps' = [u \in Tasks |-> remoteDeps[u] - IF u \in remote THEN 1 ELSE 0]
  BY <1>3 DEF Signal
<1>5. graph' = graph \ DueNow(local \cup remote)
  BY <1>3 DEF Signal, DueNow
<1>6. ready' = (ready \ {t}) \cup DueNow(local \cup remote)
  BY <1>3 DEF Signal, DueNow
<1>7. localDeps' \in [Tasks -> Int] /\ remoteDeps' \in [Tasks -> Int]
  BY <1>4
<1>8. \A u \in Tasks : /\ localDeps'[u] = localDeps[u] - IF u \in local THEN 1 ELSE 0
                       /\ remoteDeps'[u] = remoteDeps[u] - IF u \in remote THEN 1 ELSE 0
  BY <1>4
<1>9. t \in ready /\ RankOf(t) = r /\ pc[r] = "work"
  BY DEF Run, Mine
<1> QED
  BY <1>1, <1>2, <1>5, <1>6, <1>7, <1>8, <1>9 DEF HasRun

(* A task that runs is gone, and no other one.                             *)
LEMMA RunGone ==
  ASSUME NEW S, NEW t, S \subseteq graph, t \in ready, t \notin graph,
         graph' = graph \ DueNow(S), ready' = (ready \ {t}) \cup DueNow(S)
  PROVE  \A u : Gone(u)' <=> Gone(u) \/ u = t
<1>1. DueNow(S) \subseteq graph
  BY DEF DueNow
<1> HIDE DEF DueNow
<1> QED
  BY <1>1 DEF Gone

LEMMA GotAfterRun ==
  ASSUME NEW r \in Rank, NEW t, NEW local, NEW remote, NEW sent, NEW handed,
         Run(r, t, local, remote, sent, handed)
  PROVE  \A m : /\ m \in DOMAIN got' <=> (m \in DOMAIN got /\ m[2] # t) \/ m \in DOMAIN handed
                /\ m \in DOMAIN got' => got'[m] = IF m \in DOMAIN handed THEN handed[m] ELSE got[m]
<1>1. got' = [m \in {k \in DOMAIN got : k[2] # t} \cup DOMAIN handed |->
               IF m \in DOMAIN handed THEN handed[m] ELSE got[m]]
  BY DEF Run
<1> QED
  BY <1>1

(* Message m has been handled.                                             *)
HasReceived(m, data, atOnce) ==
  /\ \A k : /\ k \in DOMAIN got' <=> k \in DOMAIN got \/ k = m
            /\ k \in DOMAIN got' => got'[k] = IF k = m THEN data ELSE got[k]
  /\ atOnce => /\ ready' = ready \cup {m[2]}
               /\ UNCHANGED <<graph, localDeps, remoteDeps>>
  /\ ~atOnce => /\ graph' = graph \ DueNow({m[2]})
                /\ ready' = ready \cup DueNow({m[2]})
                /\ localDeps' = localDeps
                /\ remoteDeps' \in [Tasks -> Int]
                /\ \A u \in Tasks : remoteDeps'[u] = remoteDeps[u] - IF u = m[2] THEN 1 ELSE 0

LEMMA ReceivedEffects ==
  ASSUME NEW m, NEW data, NEW atOnce, Received(m, data, atOnce),
         localDeps \in [Tasks -> Int], remoteDeps \in [Tasks -> Int]
  PROVE  HasReceived(m, data, atOnce)
<1>1. \A k : /\ k \in DOMAIN got' <=> k \in DOMAIN got \/ k = m
             /\ k \in DOMAIN got' => got'[k] = IF k = m THEN data ELSE got[k]
  BY DEF Received
<1>2. ASSUME ~atOnce
      PROVE  /\ graph' = graph \ DueNow({m[2]})
             /\ ready' = ready \cup DueNow({m[2]})
             /\ localDeps' = localDeps
             /\ remoteDeps' \in [Tasks -> Int]
             /\ \A u \in Tasks : remoteDeps'[u] = remoteDeps[u] - IF u = m[2] THEN 1 ELSE 0
  <2>1. Signal({}, {m[2]}, {})
    BY <1>2 DEF Received
  <2>2. /\ localDeps' = [u \in Tasks |-> localDeps[u] - 0]
        /\ remoteDeps' = [u \in Tasks |-> remoteDeps[u] - IF u \in {m[2]} THEN 1 ELSE 0]
    BY <2>1 DEF Signal
  <2>3. localDeps' = localDeps
    BY <2>2
  <2>4. graph' = graph \ DueNow({m[2]})
    BY <2>1 DEF Signal, DueNow
  <2>5. ready' = ready \cup DueNow({m[2]})
    BY <2>1 DEF Signal, DueNow
  <2>6. remoteDeps' \in [Tasks -> Int]
    BY <2>2
  <2>7. \A u \in Tasks : remoteDeps'[u] = remoteDeps[u] - IF u = m[2] THEN 1 ELSE 0
    BY <2>2
  <2> QED
    BY <2>3, <2>4, <2>5, <2>6, <2>7
<1>3. atOnce => /\ ready' = ready \cup {m[2]}
                /\ UNCHANGED <<graph, localDeps, remoteDeps>>
  BY DEF Received
<1> HIDE DEF DueNow
<1> QED
  BY <1>1, <1>2, <1>3 DEF HasReceived

-----------------------------------------------------------------------------
(* A message is in one place, and moves.                                   *)

MsgsInv == CallsInv /\ OnePlace

LEMMA BlockedIs ==
  ASSUME CallsInv, NEW r \in Rank
  PROVE  /\ Len(blocking[r]) \in Nat /\ DOMAIN blocking[r] = 1..Len(blocking[r])
         /\ Blocked(r) = {blocking[r][i] : i \in 1..Len(blocking[r])}
         /\ \A m \in Blocked(r) : m \in AnyMessage /\ RankOf(m[2]) = r
<1>1. blocking[r] \in Seq(To(r, AnyMessage))
  BY BlockedTypes
<1>2. Len(blocking[r]) \in Nat /\ DOMAIN blocking[r] = 1..Len(blocking[r])
  BY <1>1, LenProperties
<1> QED
  BY <1>2, BlockedTypes DEF Blocked, To

LEMMA OnePlaceLater ==
  ASSUME MsgsInv, NEW r \in Rank, NEW S, net' = net \cup S, S \cap Pend = {},
         UNCHANGED <<async, blocking>>
  PROVE  OnePlace'
<1>1. \A q \in Rank : Blocked(q)' = Blocked(q) /\ Blocked(q) \cap S = {}
  BY DEF Blocked, Pend
<1>2. S \cap async = {}
  BY DEF Pend
<1> QED
  BY <1>1, <1>2 DEF MsgsInv, OnePlace

LEMMA ArriveMoves ==
  ASSUME MsgsInv, NEW m, Arrive(m)
  PROVE  Pend' = Pend /\ OnePlace'
<1> DEFINE r == RankOf(m[2])
<1>1. /\ m \in net /\ net' = net \ {m}
      /\ \/ async' = async \cup {m} /\ UNCHANGED blocking
         \/ blocking' = [blocking EXCEPT ![r] = Append(blocking[r], m)]
            /\ UNCHANGED async
  BY DEF Arrive
<1>2. m \in AnyMessage /\ r \in Rank
  BY <1>1, MessageType DEF MsgsInv, CallsInv, MessagesInv
<1>3. \A q \in Rank : m \notin Blocked(q)
  BY <1>1 DEF MsgsInv, OnePlace
<1>4. m \notin async
  BY <1>1 DEF MsgsInv, OnePlace
<1>5. CASE async' = async \cup {m} /\ UNCHANGED blocking
  <2>1. \A q \in Rank : Blocked(q)' = Blocked(q)
    BY <1>5 DEF Blocked
  <2>2. OnePlace'
    BY <1>1, <1>3, <1>5, <2>1 DEF MsgsInv, OnePlace
  <2> QED
    BY <1>1, <1>5, <2>1, <2>2 DEF Pend
<1>6. CASE blocking' = [blocking EXCEPT ![r] = Append(blocking[r], m)] /\ UNCHANGED async
  <2> DEFINE n == Len(blocking[r])
  <2>1. /\ \A q \in Rank \ {r} : blocking'[q] = blocking[q]
        /\ blocking'[r] = Append(blocking[r], m)
    BY <1>2, <1>6 DEF MsgsInv, CallsInv, MessagesInv
  <2>2. /\ n \in Nat /\ DOMAIN blocking[r] = 1..n
        /\ blocking[r] \in Seq(To(r, AnyMessage)) /\ m \in To(r, AnyMessage)
    BY <1>2, BlockedIs, BlockedTypes DEF MsgsInv, To
  <2>3. /\ DOMAIN blocking'[r] = 1..(n + 1)
        /\ \A i \in 1..n : blocking'[r][i] = blocking[r][i]
        /\ blocking'[r][n + 1] = m
    BY <2>1, <2>2, AppendProperties, LenProperties
  <2>4. \A i \in 1..(n + 1) : i \in 1..n \/ i = n + 1
    BY <2>2
  <2>5. Blocked(r)' = Blocked(r) \cup {m}
    <3>1. Blocked(r)' = {blocking'[r][i] : i \in 1..(n + 1)}
      BY <2>3 DEF Blocked
    <3>2. Blocked(r) = {blocking[r][i] : i \in 1..n}
      BY <2>2 DEF Blocked
    <3>3. n + 1 \in 1..(n + 1) /\ 1..n \subseteq 1..(n + 1)
      BY <2>2
    <3> QED
      BY <2>3, <2>4, <3>1, <3>2, <3>3
  <2>6. \A q \in Rank \ {r} : Blocked(q)' = Blocked(q)
    BY <2>1 DEF Blocked
  <2>7. Pend' = Pend
    BY <1>1, <1>2, <1>6, <2>5, <2>6 DEF Pend
  <2>8. \A i, j \in 1..(n + 1) : blocking'[r][i] = blocking'[r][j] => i = j
    <3>1. \A i \in 1..n : blocking[r][i] # m
      BY <1>2, <1>3, <2>2 DEF Blocked
    <3>2. \A i, j \in 1..n : blocking[r][i] = blocking[r][j] => i = j
      BY <1>2, <2>2 DEF MsgsInv, OnePlace
    <3> QED
      BY <2>3, <2>4, <3>1, <3>2
  <2>9. \A q \in Rank : \A i, j \in DOMAIN blocking'[q] : blocking'[q][i] = blocking'[q][j] => i = j
    BY <2>1, <2>3, <2>8 DEF MsgsInv, OnePlace
  <2>10. \A q \in Rank : (net' \cup async') \cap Blocked(q)' = {}
    BY <1>1, <1>4, <1>6, <2>5, <2>6 DEF MsgsInv, OnePlace
  <2>11. net' \cap async' = {}
    BY <1>1, <1>6 DEF MsgsInv, OnePlace
  <2> QED
    BY <2>7, <2>9, <2>10, <2>11 DEF OnePlace
<1> QED
  BY <1>1, <1>5, <1>6

LEMMA TakeAsyncMoves ==
  ASSUME MsgsInv, NEW m \in async, async' = async \ {m}, UNCHANGED <<net, blocking>>
  PROVE  m \in Pend /\ Pend' = Pend \ {m} /\ OnePlace'
<1>1. \A q \in Rank : Blocked(q)' = Blocked(q) /\ m \notin Blocked(q)
  BY DEF Blocked, MsgsInv, OnePlace
<1>2. m \notin net
  BY DEF MsgsInv, OnePlace
<1>3. OnePlace'
  BY <1>1 DEF MsgsInv, OnePlace
<1> QED
  BY <1>1, <1>2, <1>3 DEF Pend

LEMMA TakeBlockingMoves ==
  ASSUME MsgsInv, NEW r \in Rank, NEW m, blocking[r] # <<>>, m = Head(blocking[r]),
         blocking' = [blocking EXCEPT ![r] = Tail(blocking[r])],
         UNCHANGED <<net, async>>
  PROVE  m \in Pend /\ Pend' = Pend \ {m} /\ OnePlace'
<1> DEFINE n == Len(blocking[r])
<1>1. /\ \A q \in Rank \ {r} : blocking'[q] = blocking[q]
      /\ blocking'[r] = Tail(blocking[r])
  BY DEF MsgsInv, CallsInv, MessagesInv
<1>2. /\ n \in Nat /\ DOMAIN blocking[r] = 1..n
      /\ blocking[r] \in Seq(To(r, AnyMessage))
  BY BlockedIs, BlockedTypes DEF MsgsInv
<1>3. /\ n > 0 /\ m = blocking[r][1]
      /\ Tail(blocking[r]) \in Seq(To(r, AnyMessage)) /\ Len(Tail(blocking[r])) = n - 1
      /\ \A i \in 1..(n - 1) : Tail(blocking[r])[i] = blocking[r][i + 1]
  BY <1>2, HeadTailProperties, EmptySeq
<1>4. /\ DOMAIN blocking'[r] = 1..(n - 1)
      /\ \A i \in 1..(n - 1) : blocking'[r][i] = blocking[r][i + 1]
  BY <1>1, <1>3, LenProperties
<1>5. \A i, j \in 1..n : blocking[r][i] = blocking[r][j] => i = j
  BY <1>2 DEF MsgsInv, OnePlace
<1>6. Blocked(r) = {blocking[r][i] : i \in 1..n}
  BY <1>2 DEF Blocked
<1>7. Blocked(r)' = {blocking[r][i + 1] : i \in 1..(n - 1)}
  BY <1>4 DEF Blocked
<1>8. m \in Blocked(r)
  BY <1>2, <1>3, <1>6
<1>9. Blocked(r)' = Blocked(r) \ {m}
  <2>1. ASSUME NEW x \in Blocked(r), x # m PROVE x \in Blocked(r)'
    <3>1. PICK i \in 1..n : x = blocking[r][i]
      BY <1>6
    <3>2. i # 1
      BY <1>3, <2>1, <3>1
    <3>3. i - 1 \in 1..(n - 1) /\ (i - 1) + 1 = i
      BY <1>2, <3>2
    <3> QED
      BY <1>7, <3>1, <3>3
  <2>2. ASSUME NEW i \in 1..(n - 1) PROVE blocking[r][i + 1] \in Blocked(r) \ {m}
    <3>1. i + 1 \in 1..n /\ i + 1 # 1 /\ 1 \in 1..n
      BY <1>2
    <3> QED
      BY <1>3, <1>5, <1>6, <3>1
  <2> QED
    BY <1>7, <2>1, <2>2
<1>10. \A q \in Rank \ {r} : Blocked(q)' = Blocked(q) /\ m \notin Blocked(q)
  <2>1. \A q \in Rank \ {r} : Blocked(q)' = Blocked(q)
    BY <1>1 DEF Blocked
  <2>2. RankOf(m[2]) = r
    BY <1>8, BlockedIs DEF MsgsInv
  <2>3. \A q \in Rank \ {r} : m \notin Blocked(q)
    BY <2>2, BlockedIs DEF MsgsInv
  <2> QED
    BY <2>1, <2>3
<1>11. m \notin net \cup async
  BY <1>8 DEF MsgsInv, OnePlace
<1>12. m \in Pend /\ Pend' = Pend \ {m}
  <2>1. \A x : x \in Pend <=> x \in net \/ x \in async \/ \E q \in Rank : x \in Blocked(q)
    BY DEF Pend
  <2>2. \A x : x \in Pend' <=> x \in net \/ x \in async \/ \E q \in Rank : x \in Blocked(q)'
    BY DEF Pend
  <2>3. \A q \in Rank : \A x : x \in Blocked(q)' <=> x \in Blocked(q) /\ x # m
    BY <1>9, <1>10
  <2>4. \A x : x \in Pend' <=> x \in Pend /\ x # m
    BY <1>11, <2>1, <2>2, <2>3
  <2> QED
    BY <1>8, <2>1, <2>4
<1>13. OnePlace'
  <2>1. \A q \in Rank : (net' \cup async') \cap Blocked(q)' = {}
    BY <1>9, <1>10 DEF MsgsInv, OnePlace
  <2>2. \A i, j \in DOMAIN blocking'[r] : blocking'[r][i] = blocking'[r][j] => i = j
    <3>1. ASSUME NEW i \in 1..(n - 1), NEW j \in 1..(n - 1),
                 blocking'[r][i] = blocking'[r][j]
          PROVE  i = j
      <4>1. i + 1 \in 1..n /\ j + 1 \in 1..n
        BY <1>2
      <4>2. i + 1 = j + 1
        BY <1>4, <1>5, <3>1, <4>1
      <4> QED
        BY <4>2
    <3> QED
      BY <1>4, <3>1
  <2>3. \A q \in Rank : \A i, j \in DOMAIN blocking'[q] : blocking'[q][i] = blocking'[q][j] => i = j
    BY <1>1, <2>2 DEF MsgsInv, OnePlace
  <2> QED
    BY <2>1, <2>3 DEF MsgsInv, OnePlace
<1> QED
  BY <1>12, <1>13

LEMMA PromoteMoves ==
  ASSUME MsgsInv, NEW r \in Rank, Promote(r)
  PROVE  Pend' = Pend /\ OnePlace'
<1> DEFINE k == Moved(r)
           n == Len(blocking[r])
           moved == {blocking[r][i] : i \in 1..k}
           rest  == SubSeq(blocking[r], k + 1, n)
<1>1. /\ net' = net /\ async' = async \cup moved
      /\ blocking' = [blocking EXCEPT ![r] = rest]
  BY DEF Promote
<1>2. /\ \A q \in Rank \ {r} : blocking'[q] = blocking[q]
      /\ blocking'[r] = rest
  BY <1>1 DEF MsgsInv, CallsInv, MessagesInv
<1>3. /\ n \in Nat /\ DOMAIN blocking[r] = 1..n /\ k \in 0..n
      /\ blocking[r] \in Seq(To(r, AnyMessage))
  BY BlockedIs, BlockedTypes, MovedRange DEF MsgsInv
<1>4. /\ DOMAIN rest = 1..(n - k)
      /\ \A i \in 1..(n - k) : rest[i] = blocking[r][i + k]
  <2>1. \A i \in (k + 1)..n : blocking[r][i] \in To(r, AnyMessage)
    <3>1. \A i \in (k + 1)..n : i \in 1..n
      BY <1>3
    <3> QED
      BY <1>3, <3>1, ElementOfSeq
  <2>2. rest = [i \in 1..(n - k) |-> blocking[r][i + k]]
    BY <1>3
  <2> QED
    BY <2>2
<1>5. \A i, j \in 1..n : blocking[r][i] = blocking[r][j] => i = j
  BY <1>3 DEF MsgsInv, OnePlace
<1>6. Blocked(r) = {blocking[r][i] : i \in 1..n}
  BY <1>3 DEF Blocked
<1>7. Blocked(r)' = {blocking[r][i + k] : i \in 1..(n - k)}
  BY <1>2, <1>4 DEF Blocked
<1>8. /\ Blocked(r) = moved \cup Blocked(r)' /\ moved \cap Blocked(r)' = {}
  <2>1. 1..k \subseteq 1..n
    BY <1>3
  <2>2. \A i \in 1..(n - k) : i + k \in 1..n /\ i + k \notin 1..k
    BY <1>3
  <2>3. \A i \in 1..n : i \in 1..k \/ (i - k \in 1..(n - k) /\ (i - k) + k = i)
    BY <1>3
  <2>4. Blocked(r)' \subseteq Blocked(r)
    BY <1>6, <1>7, <2>2
  <2>5. moved \subseteq Blocked(r)
    BY <1>6, <2>1
  <2>6. \A x \in Blocked(r) : x \in moved \/ x \in Blocked(r)'
    BY <1>6, <1>7, <2>3
  <2>7. \A x \in moved : x \notin Blocked(r)'
    BY <1>5, <1>7, <2>1, <2>2
  <2> HIDE DEF moved
  <2> QED
    BY <2>4, <2>5, <2>6, <2>7
<1>9. \A q \in Rank \ {r} : Blocked(q)' = Blocked(q) /\ moved \cap Blocked(q) = {}
  <2>1. \A q \in Rank \ {r} : Blocked(q)' = Blocked(q)
    BY <1>2 DEF Blocked
  <2>2. \A x \in moved : RankOf(x[2]) = r
    BY <1>8, BlockedIs DEF MsgsInv
  <2>3. \A q \in Rank \ {r} : \A x \in Blocked(q) : RankOf(x[2]) # r
    BY BlockedIs DEF MsgsInv
  <2> HIDE DEF moved
  <2> QED
    BY <2>1, <2>2, <2>3
<1> HIDE DEF moved
<1>10. Pend' = Pend
  <2>1. \A x : x \in Pend <=> x \in net \/ x \in async \/ \E q \in Rank : x \in Blocked(q)
    BY DEF Pend
  <2>2. \A x : x \in Pend' <=> x \in net \/ x \in async' \/ \E q \in Rank : x \in Blocked(q)'
    BY <1>1 DEF Pend
  <2>3. \A x : x \in Pend <=> x \in Pend'
    BY <1>1, <1>8, <1>9, <2>1, <2>2
  <2> QED
    BY <2>3
<1>11. OnePlace'
  <2>1. \A q \in Rank : (net \cup async) \cap Blocked(q) = {} /\ net \cap async = {}
    BY DEF MsgsInv, OnePlace
  <2>2. \A q \in Rank : (net' \cup async') \cap Blocked(q)' = {}
    BY <1>1, <1>8, <1>9, <2>1
  <2>3. net' \cap async' = {}
    BY <1>1, <1>8, <2>1
  <2>4. \A i, j \in DOMAIN blocking'[r] : blocking'[r][i] = blocking'[r][j] => i = j
    <3>1. ASSUME NEW i \in 1..(n - k), NEW j \in 1..(n - k), rest[i] = rest[j]
          PROVE  i = j
      <4>1. i + k \in 1..n /\ j + k \in 1..n /\ k \in Int
        BY <1>3
      <4>2. blocking[r][i + k] = blocking[r][j + k]
        BY <1>4, <3>1
      <4>3. i + k = j + k
        BY <1>5, <4>1, <4>2
      <4> QED
        BY <4>1, <4>3
    <3> HIDE DEF rest
    <3> QED
      BY <1>2, <1>4, <3>1
  <2>5. \A q \in Rank : \A i, j \in DOMAIN blocking'[q] : blocking'[q][i] = blocking'[q][j] => i = j
    BY <1>2, <2>4 DEF MsgsInv, OnePlace
  <2> QED
    BY <2>2, <2>3, <2>5 DEF OnePlace
<1> QED
  BY <1>10, <1>11

(* The steps that move no message.                                         *)
LEMMA NoMoves ==
  ASSUME UNCHANGED <<net, async, blocking>>
  PROVE  Pend' = Pend /\ (OnePlace => OnePlace')
<1>1. \A q \in Rank : Blocked(q)' = Blocked(q)
  BY DEF Blocked
<1> QED
  BY <1>1 DEF Pend, OnePlace

-----------------------------------------------------------------------------
(* What follows from the tasks that are gone and the aggregates under way. *)

SameComputed ==
  \A I \in Sup : \A K \in Struct[I] : Computed(I, K)' <=> Computed(I, K)

SameCarries ==
  \A I \in Sup : \A K \in Struct[I] : Carries(I, K)' <=> Carries(I, K)

LEMMA ComputedSame ==
  ASSUME SameComputed
  PROVE  \A s, K : /\ Missing(s, K)' = Missing(s, K)
                   /\ Full(s, K)' <=> Full(s, K)
<1> SUFFICES ASSUME NEW s, NEW K
             PROVE  /\ Missing(s, K)' = Missing(s, K)
                    /\ Full(s, K)' <=> Full(s, K)
  OBVIOUS
<1>1. \A I \in Sources(s, K) : I \in Sup /\ K \in Struct[I]
  BY SourcesFacts
<1>2. \A I \in Sources(s, K) : Computed(I, K)' <=> Computed(I, K)
  BY <1>1 DEF SameComputed
<1> QED
  BY <1>2 DEF Missing, Full

LEMMA AddedSame ==
  ASSUME SameComputed, SameCarries
  PROVE  \A s, K : Added(s, K)' <=> Added(s, K)
<1> SUFFICES ASSUME NEW s, NEW K PROVE Added(s, K)' <=> Added(s, K)
  OBVIOUS
<1>1. \A I \in Sources(s, K) : I \in Sup /\ K \in Struct[I]
  BY SourcesFacts
<1>2. \A I \in Sources(s, K) : Carries(I, K)' <=> Carries(I, K)
  BY <1>1 DEF SameCarries
<1> QED
  BY <1>2, ComputedSame DEF Added

(* The aggregates that are added are the same, whoever has computed more.  *)
SameAdded == \A s \in Rank : \A K \in Sup : Sends(s, K) => (Added(s, K)' <=> Added(s, K))

LEMMA AwaitedSame ==
  ASSUME SameAdded
  PROVE  \A K \in Sup : Awaited(K)' = Awaited(K)
<1> SUFFICES ASSUME NEW K \in Sup PROVE Awaited(K)' = Awaited(K)
  OBVIOUS
<1>1. \A s \in Rank \ {Own(K)} : Sources(s, K) # {} => (Added(s, K)' <=> Added(s, K))
  BY DEF SameAdded, Sends
<1> QED
  BY <1>1 DEF Awaited

LEMMA LentSame ==
  ASSUME SameComputed, SameAdded, UNCHANGED frees
  PROVE  \A s \in Rank : Lent(s)' = Lent(s)
<1> SUFFICES ASSUME NEW s \in Rank PROVE Lent(s)' = Lent(s)
  OBVIOUS
<1>1. \A K \in Sup : Sends(s, K) => (Freed(s, K)' <=> Freed(s, K))
  BY DEF SameAdded, Freed
<1>2. \A K \in Sup : Full(s, K)' <=> Full(s, K)
  BY ComputedSame
<1> QED
  BY <1>1, <1>2 DEF Lent, Sends

LEMMA HoldsSame ==
  ASSUME SameComputed, SameAdded, UNCHANGED frees
  PROVE  \A r \in Rank : \A K, I \in Sup : Holds(r, K, I)' <=> Holds(r, K, I)
<1> SUFFICES ASSUME NEW r \in Rank, NEW K \in Sup, NEW I \in Sup, K \in Struct[I]
             PROVE  Holds(r, K, I)' <=> Holds(r, K, I)
  BY DEF Holds
<1> DEFINE s == Updater(K, I)
<1>1. s \in Rank /\ Sources(s, K) # {}
  BY StructFacts
<1>2. Computed(I, K)' <=> Computed(I, K)
  BY DEF SameComputed
<1>3. s # Own(K) => (Added(s, K)' <=> Added(s, K))
  BY <1>1 DEF SameAdded, Sends
<1>4. s # Own(K) => (Freed(s, K)' <=> Freed(s, K))
  BY <1>3 DEF Freed
<1> QED
  BY <1>2, <1>3, <1>4 DEF Holds

-----------------------------------------------------------------------------
(* Steps that do not touch the factorization.                              *)

FactorUntouched ==
  /\ \A t : ~IsSolve(t) => /\ t \in graph' <=> t \in graph
                           /\ t \in ready' <=> t \in ready
  /\ \A m : ~IsSolve(m[2]) => /\ m \in Pend' <=> m \in Pend
                              /\ m \in DOMAIN got => m \in DOMAIN got' /\ got'[m] = got[m]
  /\ \A t \in Tasks : ~IsSolve(t) => /\ localDeps'[t] = localDeps[t]
                                     /\ remoteDeps'[t] = remoteDeps[t]
  /\ localDeps' \in [Tasks -> Int] /\ remoteDeps' \in [Tasks -> Int]
  /\ UNCHANGED factorVars

LEMMA AggShape ==
  ASSUME NEW I, NEW K
  PROVE  /\ ~IsSolve(AGGREGATE(I, K)) /\ AGGREGATE(I, K)[1] = "AGGREGATE"
         /\ AGGREGATE(I, K)[2] = I /\ AGGREGATE(I, K)[3] = K
         /\ RankOf(AGGREGATE(I, K)) = Own(K)
         /\ AggMsg(I, K)[1] = I /\ AggMsg(I, K)[2] = AGGREGATE(I, K)
         /\ IsAggregate(AggMsg(I, K)) /\ Adder(AggMsg(I, K)) = Updater(K, I)
         /\ AGGREGATE(I, K) \notin FactorTasks
<1>1. AGGREGATE(I, K) \notin FactorTasks
  <2>1. \A t \in FactorTasks : t[1] # "AGGREGATE"
    BY FactorTaskCases, FactorTaskShape, UpdateTaskShape
  <2> QED
    BY <2>1 DEF AGGREGATE
<1> QED
  BY <1>1 DEF AGGREGATE, AggMsg, IsSolve, IsAggregate, Adder, RankOf

LEMMA UntouchedKeepsFactor ==
  ASSUME FactorInv, FactorUntouched
  PROVE  FactorInv'
<1>0. UNCHANGED <<factored, sum, todo, remDealloc, frees>>
  BY DEF FactorUntouched, factorVars
<1>1. \A t \in FactorTasks : /\ ~IsSolve(t) /\ t \in Tasks
                             /\ t \in graph' <=> t \in graph
                             /\ Gone(t)' <=> Gone(t)
                             /\ localDeps'[t] = localDeps[t]
                             /\ remoteDeps'[t] = remoteDeps[t]
  BY TasksTyped DEF FactorUntouched, Gone, Tasks
<1>2. SameComputed
  <2>1. \A I \in Sup : \A K \in Struct[I] : TaskFor(I, K) \in FactorTasks
    BY TaskForFacts, UpdateTaskShape
  <2> QED
    BY <1>1, <2>1 DEF SameComputed, Computed
<1>3. \A I, K : /\ AggMsg(I, K) \in Pend' <=> AggMsg(I, K) \in Pend
                /\ AGGREGATE(I, K) \in ready' <=> AGGREGATE(I, K) \in ready
                /\ Carries(I, K)' <=> Carries(I, K)
  BY AggShape DEF FactorUntouched, Carries
<1>4. SameCarries
  BY <1>3 DEF SameCarries
<1>5. SameAdded
  BY <1>2, <1>4, AddedSame DEF SameAdded
<1>6. FTypes'
  BY <1>0 DEF FactorInv, FTypes, FactorUntouched
<1>7. FKinds'
  BY DEF FactorInv, FKinds, FactorUntouched
<1>8. FactorStatus'
  BY <1>0, <1>1, FactorTaskShape DEF FactorInv, FactorStatus
<1>9. UpdateStatus'
  <2>1. ASSUME NEW I \in Sup, NEW t \in UpdateTasks(I)
        PROVE  <<I, t>> \in Pend' <=> <<I, t>> \in Pend
    BY UpdateTaskShape DEF FactorUntouched
  <2>2. \A I \in Sup : \A t \in UpdateTasks(I) : t \in FactorTasks
    BY UpdateTaskShape
  <2> QED
    BY <1>0, <1>1, <2>1, <2>2 DEF FactorInv, UpdateStatus
<1>10. FactorCounts'
  BY <1>1, <1>2, <1>5, ComputedSame, AwaitedSame, FactorTaskShape, OwnersAreRanks
     DEF FactorInv, FactorCounts
<1>11. SumExact'
  BY <1>0, <1>2, <1>5, HoldsSame DEF FactorInv, SumExact
<1>12. TodoExact'
  BY <1>0, <1>2, ComputedSame DEF FactorInv, TodoExact
<1>13. CarrierExact'
  <2> SUFFICES ASSUME NEW I \in Sup, NEW K \in Struct[I], Carries(I, K)
               PROVE  /\ Updater(K, I) # Own(K)
                      /\ Full(Updater(K, I), K)'
                      /\ \A L \in Sources(Updater(K, I), K) : Carries(L, K)' => L = I
                      /\ ~(AggMsg(I, K) \in Pend' /\ AGGREGATE(I, K) \in ready')
                      /\ AGGREGATE(I, K) \in ready' =>
                           AggMsg(I, K) \in DOMAIN got' /\ got'[AggMsg(I, K)] = Whole(Updater(K, I), K)
    BY <1>3 DEF CarrierExact
  <2>1. /\ Updater(K, I) # Own(K)
        /\ Full(Updater(K, I), K)
        /\ \A L \in Sources(Updater(K, I), K) : Carries(L, K) => L = I
        /\ ~(AggMsg(I, K) \in Pend /\ AGGREGATE(I, K) \in ready)
        /\ AGGREGATE(I, K) \in ready =>
             AggMsg(I, K) \in DOMAIN got /\ got[AggMsg(I, K)] = Whole(Updater(K, I), K)
    BY DEF FactorInv, CarrierExact
  <2>2. Full(Updater(K, I), K)'
    BY <1>2, <2>1, ComputedSame
  <2>3. AggMsg(I, K) \in DOMAIN got =>
          AggMsg(I, K) \in DOMAIN got' /\ got'[AggMsg(I, K)] = got[AggMsg(I, K)]
    BY AggShape DEF FactorUntouched
  <2> QED
    BY <1>3, <2>1, <2>2, <2>3
<1>14. FreesExact'
  <2>1. ASSUME NEW f \in frees PROVE Sends(f[1], f[2]) /\ Added(f[1], f[2])'
    <3>1. Sends(f[1], f[2]) /\ Added(f[1], f[2])
      BY DEF FactorInv, FreesExact
    <3> QED
      BY <1>2, <1>4, <3>1, AddedSame
  <2> QED
    BY <1>0, <2>1 DEF FreesExact, Sends
<1>15. LentExact'
  BY <1>0, <1>2, <1>5, LentSame DEF FactorInv, LentExact
<1> QED
  BY <1>6, <1>7, <1>8, <1>9, <1>10, <1>11, <1>12, <1>13, <1>14, <1>15 DEF FactorInv

-----------------------------------------------------------------------------
(* The FACTOR task.                                                        *)

LEMMA FactorReleases ==
  ASSUME FactorInv, NEW r \in Rank, NEW I \in Sup, Factor(r, I)
  PROVE  LET local == {UPDATE(I, J) : J \in UpdatesOn(r, I)} IN
         /\ r = Own(I) /\ FACTOR(I) \in ready /\ FACTOR(I) \notin graph
         /\ I \notin factored
         /\ \A u : u \in local <=> u \in UpdateTasks(I) /\ LocalOf(u) = 1
         /\ local \subseteq graph
         /\ DueNow(local) = local
         /\ graph' = graph \ local /\ ready' = (ready \ {FACTOR(I)}) \cup local
         /\ Pend' = Pend \cup FactorMessages(I)
         /\ \A u : Gone(u)' <=> Gone(u) \/ u = FACTOR(I)
         /\ \A u \in Tasks : /\ localDeps'[u] = localDeps[u] - IF u \in local THEN 1 ELSE 0
                             /\ remoteDeps'[u] = remoteDeps[u]
         /\ localDeps' \in [Tasks -> Int] /\ remoteDeps' \in [Tasks -> Int]
<1> DEFINE local == {UPDATE(I, J) : J \in UpdatesOn(r, I)}
<1>0. FTypes
  BY DEF FactorInv
<1>1. Run(r, FACTOR(I), local, {}, FactorMessages(I), <<>>)
  BY DEF Factor
<1> HIDE DEF local
<1>2. /\ FACTOR(I) \in ready /\ RankOf(FACTOR(I)) = r
      /\ graph' = graph \ DueNow(local)
      /\ ready' = (ready \ {FACTOR(I)}) \cup DueNow(local)
      /\ Pend' = Pend \cup FactorMessages(I)
      /\ localDeps' \in [Tasks -> Int] /\ remoteDeps' \in [Tasks -> Int]
      /\ \A u \in Tasks : /\ localDeps'[u] = localDeps[u] - IF u \in local THEN 1 ELSE 0
                          /\ remoteDeps'[u] = remoteDeps[u] - IF u \in {} THEN 1 ELSE 0
  <2>1. local \cup {} = local
    OBVIOUS
  <2>2. localDeps \in [Tasks -> Int] /\ remoteDeps \in [Tasks -> Int]
    BY <1>0 DEF FTypes
  <2>3. DueNow(local \cup {}) = DueNow(local)
    BY <2>1
  <2> HIDE DEF DueNow
  <2>4. HasRun(r, FACTOR(I), local, {}, FactorMessages(I))
    BY <1>1, <2>2, RunEffects
  <2> QED
    BY <2>3, <2>4 DEF HasRun
<1>3. r = Own(I) /\ ~IsSolve(FACTOR(I))
  BY <1>2, FactorTaskShape
<1>4. FACTOR(I) \notin graph
  BY <1>2, <1>3 DEF FactorInv, FKinds
<1>5. I \notin factored
  BY <1>2 DEF FactorInv, FactorStatus, Gone
<1>6. \A u \in local : u \in UpdateTasks(I)
  BY <1>3 DEF local, UpdateTasks
<1>7. \A u : u \in local <=> u \in UpdateTasks(I) /\ LocalOf(u) = 1
  <2>1. ASSUME NEW u \in UpdateTasks(I)
        PROVE  u \in local <=> LocalOf(u) = 1
    <3>1. LocalOf(u) = IF u \in {UPDATE(I, J) : J \in UpdatesOn(Own(I), I)} THEN 1 ELSE 0
      BY FactorReachesUpdates
    <3> QED
      BY <1>3, <3>1 DEF local
  <2> QED
    BY <1>6, <2>1
<1>8. local \subseteq graph
  BY <1>5, <1>6 DEF FactorInv, UpdateStatus
<1>9. \A u \in Tasks : /\ localDeps'[u] = localDeps[u] - IF u \in local THEN 1 ELSE 0
                       /\ remoteDeps'[u] = remoteDeps[u]
  <2>1. \A u \in Tasks : remoteDeps[u] \in Int
    BY <1>0 DEF FTypes
  <2> QED
    BY <1>2, <2>1
<1>10. DueNow(local) = local
  <2>1. ASSUME NEW u \in local PROVE localDeps'[u] = 0 /\ remoteDeps'[u] = 0
    <3>1. u \in Tasks /\ RemoteOf(u) = 1 - LocalOf(u) /\ LocalOf(u) = 1 /\ u \in graph
      BY <1>6, <1>7, <1>8, UpdateTaskShape
    <3>2. localDeps[u] = 1 /\ remoteDeps[u] = 0
      <4>1. /\ localDeps[u]  = IF u \in graph THEN LocalOf(u) ELSE 0
            /\ remoteDeps[u] = IF u \in graph THEN RemoteOf(u) ELSE 0
        BY <1>6 DEF FactorInv, UpdateStatus
      <4> QED
        BY <3>1, <4>1
    <3> QED
      BY <1>9, <3>1, <3>2
  <2> QED
    BY <2>1 DEF DueNow
<1>11. \A u : Gone(u)' <=> Gone(u) \/ u = FACTOR(I)
  BY <1>2, <1>4, <1>8, RunGone
<1> QED
  BY <1>2, <1>3, <1>4, <1>5, <1>7, <1>8, <1>9, <1>10, <1>11 DEF local

LEMMA FactorKeepsFactor ==
  ASSUME FactorInv, NEW r \in Rank, NEW I \in Sup, Factor(r, I)
  PROVE  FactorInv' /\ FactorMessages(I) \cap Pend = {}
<1> DEFINE local == {UPDATE(I, J) : J \in UpdatesOn(r, I)}
<1>0. PICK S : S = local
  OBVIOUS
<1>1. /\ S = local
      /\ r = Own(I) /\ FACTOR(I) \in ready /\ FACTOR(I) \notin graph
      /\ I \notin factored
      /\ \A u : u \in S <=> u \in UpdateTasks(I) /\ LocalOf(u) = 1
      /\ S \subseteq graph
      /\ graph' = graph \ S /\ ready' = (ready \ {FACTOR(I)}) \cup S
      /\ Pend' = Pend \cup FactorMessages(I)
      /\ \A u : Gone(u)' <=> Gone(u) \/ u = FACTOR(I)
      /\ \A u \in Tasks : /\ localDeps'[u] = localDeps[u] - IF u \in S THEN 1 ELSE 0
                          /\ remoteDeps'[u] = remoteDeps[u]
      /\ localDeps' \in [Tasks -> Int] /\ remoteDeps' \in [Tasks -> Int]
  BY <1>0, FactorReleases
<1> HIDE DEF local
<1>2. factored' = factored \cup {I} /\ UNCHANGED <<sum, todo, remDealloc, frees>>
  BY DEF Factor
<1>3. \A m : m \in FactorMessages(I) =>
        \E t \in UpdateTasks(I) : m = <<I, t>> /\ RemoteOf(t) = 1 /\ LocalOf(t) = 0
  BY FirstMsgShape
<1>4. \A L \in Sup : \A K \in Struct[L] : TaskFor(L, K) # FACTOR(I)
  <2>1. \A L \in Sup : \A K \in Struct[L] : TaskFor(L, K)[1] = "UPDATE"
    BY TaskForFacts, UpdateTaskShape
  <2> QED
    BY <2>1, FactorTaskShape
<1>5. SameComputed
  BY <1>1, <1>4 DEF SameComputed, Computed
<1>6. \A L, K : /\ AggMsg(L, K) \in Pend' <=> AggMsg(L, K) \in Pend
                /\ AGGREGATE(L, K) \in ready' <=> AGGREGATE(L, K) \in ready
  <2> TAKE L, K
  <2>1. AggMsg(L, K) \notin FactorMessages(I)
    <3>1. \A t \in UpdateTasks(I) : <<I, t>> # AggMsg(L, K)
      BY UpdateTaskShape, AggShape
    <3> QED
      BY <1>3, <3>1
  <2>2. AGGREGATE(L, K) \notin S /\ AGGREGATE(L, K) # FACTOR(I)
    BY <1>1, UpdateTaskShape, AggShape, FactorTaskShape
  <2> QED
    BY <1>1, <2>1, <2>2
<1>7. SameCarries
  BY <1>6 DEF SameCarries, Carries
<1>8. SameAdded
  BY <1>5, <1>7, AddedSame DEF SameAdded
<1>9. FTypes'
  BY <1>1, <1>2 DEF FactorInv, FTypes
<1>10. FKinds'
  <2>1. \A t \in graph' : ~IsSolve(t) => t \in FactorTasks /\ t \notin ready'
    BY <1>1 DEF FactorInv, FKinds
  <2>2. \A t \in S : t \in FactorTasks
    BY <1>1, UpdateTaskShape
  <2>3. \A t \in ready' : ~IsSolve(t) =>
          t \in FactorTasks \/ \E L \in Sup : \E K \in Struct[L] :
                                  Updater(K, L) # Own(K) /\ t = AGGREGATE(L, K)
    BY <1>1, <2>2 DEF FactorInv, FKinds
  <2>4. \A m \in Pend' : ~IsSolve(m[2]) => IsFirstMsg(m) \/ IsAggMsg(m)
    BY <1>1 DEF FactorInv, FKinds, IsFirstMsg
  <2> QED
    BY <2>1, <2>3, <2>4 DEF FKinds, IsAggMsg
<1>11. FactorStatus'
  BY <1>1, <1>2, NamesApart DEF FactorInv, FactorStatus
<1>12. FactorMessages(I) \cap Pend = {}
  BY <1>1, <1>3 DEF FactorInv, UpdateStatus
<1>13. UpdateStatus'
  <2> SUFFICES ASSUME NEW L \in Sup, NEW t \in UpdateTasks(L)
               PROVE  /\ localDeps'[t]  = IF t \in graph' THEN LocalOf(t) ELSE 0
                      /\ remoteDeps'[t] = IF t \in graph' THEN RemoteOf(t) ELSE 0
                      /\ t \in graph' <=> L \notin factored' \/ <<L, t>> \in Pend'
                      /\ <<L, t>> \in Pend' => L \in factored'
    BY DEF UpdateStatus
  <2>1. /\ localDeps[t]  = IF t \in graph THEN LocalOf(t) ELSE 0
        /\ remoteDeps[t] = IF t \in graph THEN RemoteOf(t) ELSE 0
        /\ t \in graph <=> L \notin factored \/ <<L, t>> \in Pend
        /\ <<L, t>> \in Pend => L \in factored
    BY DEF FactorInv, UpdateStatus
  <2>2. /\ t[2] = L /\ t \in Tasks /\ LocalOf(t) \in {0, 1} /\ RemoteOf(t) = 1 - LocalOf(t)
    BY UpdateTaskShape
  <2>3. CASE L # I
    <3>1. t \notin S
      BY <1>1, <2>2, <2>3, UpdateTaskShape
    <3>2. <<L, t>> \notin FactorMessages(I)
      BY <1>3, <2>3
    <3> QED
      BY <1>1, <1>2, <2>1, <2>2, <2>3, <3>1, <3>2
  <2>4. CASE L = I
    <3>1. t \in graph /\ <<I, t>> \notin Pend
      BY <1>1, <2>1, <2>4
    <3>2. RemoteOf(t) = IF <<I, t>> \in FactorMessages(I) THEN 1 ELSE 0
      BY <2>4, FactorReachesUpdates
    <3>3. t \in S <=> LocalOf(t) = 1
      BY <1>1, <2>4
    <3>4. <<I, t>> \in FactorMessages(I) <=> t \notin S
      BY <2>2, <3>2, <3>3
    <3> QED
      BY <1>1, <1>2, <2>1, <2>2, <2>4, <3>1, <3>3, <3>4
  <2> QED
    BY <2>3, <2>4
<1>14. FactorCounts'
  <2>1. \A K \in Sup : FACTOR(K) \notin S /\ FACTOR(K) \in Tasks
    BY <1>1, UpdateTaskShape, FactorTaskShape
  <2>2. \A K \in Sup : /\ localDeps'[FACTOR(K)] = localDeps[FACTOR(K)]
                       /\ remoteDeps'[FACTOR(K)] = remoteDeps[FACTOR(K)]
                       /\ FACTOR(K) \in graph' <=> FACTOR(K) \in graph
    BY <1>1, <2>1 DEF FactorInv, FTypes
  <2> QED
    BY <1>5, <1>8, <2>2, ComputedSame, AwaitedSame DEF FactorInv, FactorCounts
<1>15. SumExact'
  BY <1>2, <1>5, <1>8, HoldsSame DEF FactorInv, SumExact
<1>16. TodoExact'
  BY <1>2, <1>5, ComputedSame DEF FactorInv, TodoExact
<1>17. CarrierExact'
  <2>1. \A L, K : AggMsg(L, K) \in DOMAIN got =>
          AggMsg(L, K) \in DOMAIN got' /\ got'[AggMsg(L, K)] = got[AggMsg(L, K)]
    <3>1. Run(r, FACTOR(I), local, {}, FactorMessages(I), <<>>)
      BY DEF Factor, local
    <3>2. \A m : /\ m \in DOMAIN got' <=> (m \in DOMAIN got /\ m[2] # FACTOR(I)) \/ m \in DOMAIN <<>>
                 /\ m \in DOMAIN got' => got'[m] = IF m \in DOMAIN <<>> THEN (<<>>)[m] ELSE got[m]
      BY <3>1, GotAfterRun
    <3>3. DOMAIN <<>> = {}
      OBVIOUS
    <3>4. \A L, K : AggMsg(L, K)[2] # FACTOR(I)
      BY AggShape, NamesApart
    <3> QED
      BY <3>2, <3>3, <3>4
  <2> SUFFICES ASSUME NEW L \in Sup, NEW K \in Struct[L], Carries(L, K)'
               PROVE  /\ Updater(K, L) # Own(K)
                      /\ Full(Updater(K, L), K)'
                      /\ \A M \in Sources(Updater(K, L), K) : Carries(M, K)' => M = L
                      /\ ~(AggMsg(L, K) \in Pend' /\ AGGREGATE(L, K) \in ready')
                      /\ AGGREGATE(L, K) \in ready' =>
                           AggMsg(L, K) \in DOMAIN got' /\ got'[AggMsg(L, K)] = Whole(Updater(K, L), K)
    BY DEF CarrierExact
  <2>2. \A M : Carries(M, K)' <=> Carries(M, K)
    BY <1>6 DEF Carries
  <2>3. /\ Updater(K, L) # Own(K)
        /\ Full(Updater(K, L), K)
        /\ \A M \in Sources(Updater(K, L), K) : Carries(M, K) => M = L
        /\ ~(AggMsg(L, K) \in Pend /\ AGGREGATE(L, K) \in ready)
        /\ AGGREGATE(L, K) \in ready =>
             AggMsg(L, K) \in DOMAIN got /\ got[AggMsg(L, K)] = Whole(Updater(K, L), K)
    BY <2>2 DEF FactorInv, CarrierExact
  <2> QED
    BY <1>5, <1>6, <2>1, <2>2, <2>3, ComputedSame
<1>18. FreesExact'
  <2>1. ASSUME NEW f \in frees PROVE Sends(f[1], f[2]) /\ Added(f[1], f[2])'
    <3>1. Sends(f[1], f[2]) /\ Added(f[1], f[2])
      BY DEF FactorInv, FreesExact
    <3> QED
      BY <1>5, <1>7, <3>1, AddedSame
  <2> QED
    BY <1>2, <2>1 DEF FreesExact, Sends
<1>19. LentExact'
  BY <1>2, <1>5, <1>8, LentSame DEF FactorInv, LentExact
<1> QED
  BY <1>9, <1>10, <1>11, <1>12, <1>13, <1>14, <1>15, <1>16, <1>17, <1>18, <1>19 DEF FactorInv

-----------------------------------------------------------------------------
(* An UPDATE task.                                                         *)

LEMMA MissingFacts ==
  ASSUME NEW r, NEW K
  PROVE  /\ Missing(r, K) \subseteq Sources(r, K) /\ IsFiniteSet(Missing(r, K))
         /\ Cardinality(Missing(r, K)) \in Nat
         /\ Cardinality(Missing(r, K)) = 0 <=> Missing(r, K) = {}
         /\ Full(r, K) <=> Missing(r, K) = {}
<1>1. Missing(r, K) \subseteq Sources(r, K) /\ IsFiniteSet(Missing(r, K))
  BY SourcesFacts, FS_Subset DEF Missing
<1>2. Cardinality(Missing(r, K)) = 0 <=> Missing(r, K) = {}
  BY <1>1, FS_EmptySet
<1>3. Full(r, K) <=> Missing(r, K) = {}
  BY DEF Missing, Full
<1> QED
  BY <1>1, <1>2, <1>3, FS_CardinalityType

LEMMA AwaitedFacts ==
  ASSUME NEW K
  PROVE  /\ IsFiniteSet(Awaited(K)) /\ Cardinality(Awaited(K)) \in Nat
         /\ Cardinality(Awaited(K)) = 0 <=> Awaited(K) = {}
<1>1. IsFiniteSet(Awaited(K))
  BY DistributionAssumption, FS_Subset DEF Awaited
<1> QED
  BY <1>1, FS_EmptySet, FS_CardinalityType

LEMMA UpdateTaskKnown ==
  ASSUME FactorInv, NEW I \in Sup, NEW J \in Sup, UPDATE(I, J) \in ready
  PROVE  UPDATE(I, J) \in UpdateTasks(I) /\ UPDATE(I, J) \notin graph
<1> DEFINE t == UPDATE(I, J)
<1>1. ~IsSolve(t) /\ t[1] = "UPDATE" /\ t[2] = I
  BY DEF IsSolve, UPDATE
<1>2. t \in FactorTasks /\ t \notin graph
  BY <1>1, NamesApart DEF FactorInv, FKinds
<1>3. \E L \in Sup : t \in UpdateTasks(L)
  BY <1>2, NamesApart, FactorTaskCases
<1> QED
  BY <1>1, <1>2, <1>3, UpdateTaskShape

(* What the task computes, before it runs.                                 *)
LEMMA UpdateTargets ==
  ASSUME FactorInv, NEW r \in Rank, NEW I \in Sup, NEW J \in Sup,
         UPDATE(I, J) \in ready, RankOf(UPDATE(I, J)) = r
  PROVE  /\ \A K : K \in Targets(r, I, J) <=> K \in Struct[I] /\ TaskFor(I, K) = UPDATE(I, J)
         /\ \A K \in Targets(r, I, J) :
              /\ K \in Sup /\ K \in Struct[I] /\ Updater(K, I) = r
              /\ I \in Sources(r, K) /\ I \in Missing(r, K) /\ ~Full(r, K)
              /\ Own(K) = r => FACTOR(K) \in graph
              /\ Announced(r, K) <=> Own(K) # r /\ Missing(r, K) = {I}
<1> DEFINE t == UPDATE(I, J)
<1>1. t \in UpdateTasks(I) /\ t[3] = J
  BY UpdateTaskKnown DEF UPDATE
<1>2. \A K \in Struct[I] : TaskFor(I, K) = t <=> K \in Targets(r, I, J)
  BY <1>1, TaskForFacts
<1>3. Targets(r, I, J) \subseteq Struct[I]
  <2>1. t[3] \in Struct[I]
    BY <1>1, UpdateTaskShape
  <2> QED
    BY <1>1, <2>1 DEF Targets, UpdatesOn
<1>4. ASSUME NEW K \in Targets(r, I, J)
      PROVE  /\ K \in Sup /\ K \in Struct[I] /\ Updater(K, I) = r
             /\ I \in Sources(r, K) /\ I \in Missing(r, K) /\ ~Full(r, K)
             /\ Own(K) = r => FACTOR(K) \in graph
             /\ Announced(r, K) <=> Own(K) # r /\ Missing(r, K) = {I}
  <2>1. K \in Struct[I] /\ TaskFor(I, K) = t
    BY <1>2, <1>3
  <2>2. K \in Sup /\ Updater(K, I) = r /\ I \in Sources(r, K)
    BY <2>1, StructFacts, TaskForFacts
  <2>3. ~Computed(I, K)
    BY <2>1 DEF Computed, Gone
  <2>4. I \in Missing(r, K) /\ ~Full(r, K)
    BY <2>2, <2>3 DEF Missing, Full
  <2>5. Own(K) = r => FACTOR(K) \in graph
    BY <2>2, <2>4 DEF FactorInv, FactorCounts
  <2>6. todo[r][K] = 1 <=> Missing(r, K) = {I}
    <3>1. todo[r][K] = Cardinality(Missing(r, K))
      BY <2>2 DEF FactorInv, TodoExact
    <3>2. Cardinality(Missing(r, K)) = 1 => Missing(r, K) = {I}
      <4>1. \E x : Cardinality(Missing(r, K)) = 1 => Missing(r, K) = {x}
        BY MissingFacts, FS_Singleton
      <4> QED
        BY <2>4, <4>1
    <3>3. Cardinality({I}) = 1
      BY FS_Singleton
    <3> QED
      BY <3>1, <3>2, <3>3
  <2> QED
    BY <2>1, <2>2, <2>4, <2>5, <2>6 DEF Announced
<1> QED
  BY <1>2, <1>3, <1>4

(* A task of rank r for source I computes T and is announced with last.    *)
UpdateDone(r, I, T, last) ==
  /\ \A K \in T : /\ K \in Sup /\ K \in Struct[I] /\ Updater(K, I) = r
                  /\ I \in Sources(r, K) /\ I \in Missing(r, K) /\ ~Full(r, K)
  /\ \A L \in Sup : \A K \in Struct[L] :
       Computed(L, K)' <=> Computed(L, K) \/ (L = I /\ K \in T)
  /\ \A K : K \in last <=> K \in T /\ Own(K) # r /\ Missing(r, K) = {I}
  /\ \A L, K : /\ AggMsg(L, K) \in Pend' <=> AggMsg(L, K) \in Pend \/ (L = I /\ K \in last)
               /\ AGGREGATE(L, K) \in ready' <=> AGGREGATE(L, K) \in ready

LEMMA UpdateMissing ==
  ASSUME NEW r \in Rank, NEW I \in Sup, NEW T, NEW last, UpdateDone(r, I, T, last)
  PROVE  \A s, K : Missing(s, K)' = IF s = r /\ K \in T THEN Missing(s, K) \ {I}
                                    ELSE Missing(s, K)
<1> SUFFICES ASSUME NEW s, NEW K
             PROVE  Missing(s, K)' = IF s = r /\ K \in T THEN Missing(s, K) \ {I}
                                     ELSE Missing(s, K)
  OBVIOUS
<1>1. \A L \in Sources(s, K) : L \in Sup /\ K \in Struct[L] /\ Updater(K, L) = s
  BY SourcesFacts
<1>2. \A L \in Sources(s, K) : Computed(L, K)' <=> Computed(L, K) \/ (L = I /\ K \in T)
  BY <1>1 DEF UpdateDone
<1>3. Missing(s, K)' = {L \in Sources(s, K) : ~Computed(L, K)'}
  BY DEF Missing
<1>4. \A L \in Sources(s, K) : L = I /\ K \in T => s = r
  BY <1>1 DEF UpdateDone
<1> QED
  BY <1>2, <1>3, <1>4 DEF Missing

LEMMA UpdateAdded ==
  ASSUME NEW r \in Rank, NEW I \in Sup, NEW T, NEW last, UpdateDone(r, I, T, last)
  PROVE  SameAdded /\ \A K \in last : Sends(r, K) /\ Full(r, K)' /\ ~Added(r, K)'
<1>1. \A K \in last : Sends(r, K) /\ Full(r, K)' /\ ~Added(r, K)'
  <2> SUFFICES ASSUME NEW K \in last PROVE Sends(r, K) /\ Full(r, K)' /\ ~Added(r, K)'
    OBVIOUS
  <2>1. K \in T /\ Own(K) # r /\ Missing(r, K) = {I} /\ I \in Sources(r, K)
    BY DEF UpdateDone
  <2>2. Missing(r, K)' = {}
    BY <2>1, UpdateMissing
  <2>3. Full(r, K)'
    BY <2>2 DEF Missing, Full
  <2>4. Carries(I, K)'
    BY DEF UpdateDone, Carries
  <2> QED
    BY <2>1, <2>3, <2>4 DEF Sends, Added
<1>2. ASSUME NEW s \in Rank, NEW K \in Sup, Sends(s, K)
      PROVE  Added(s, K)' <=> Added(s, K)
  <2>1. CASE s = r /\ K \in T
    <3>1. ~Added(r, K)
      BY <2>1 DEF UpdateDone, Added
    <3>2. ASSUME Added(r, K)' PROVE FALSE
      <4>1. Missing(r, K)' = {}
        BY <3>2 DEF Added, Full, Missing
      <4>2. I \in Missing(r, K) /\ Missing(r, K)' = Missing(r, K) \ {I}
        <5>1. I \in Missing(r, K)
          BY <2>1 DEF UpdateDone
        <5> QED
          BY <2>1, <5>1, UpdateMissing
      <4>3. K \in last
        BY <1>2, <2>1, <4>1, <4>2 DEF UpdateDone, Sends
      <4> QED
        BY <1>1, <3>2, <4>3
    <3> QED
      BY <2>1, <3>1, <3>2
  <2>2. CASE ~(s = r /\ K \in T)
    <3>1. \A L \in Sources(s, K) : ~(L = I /\ K \in T)
      BY <2>2, SourcesFacts DEF UpdateDone
    <3>2. \A L \in Sources(s, K) : Carries(L, K)' <=> Carries(L, K)
      BY <3>1 DEF UpdateDone, Carries
    <3>3. Full(s, K)' <=> Full(s, K)
      <4>1. Missing(s, K)' = Missing(s, K)
        BY <2>2, UpdateMissing
      <4>2. Full(s, K)' <=> Missing(s, K)' = {}
        BY DEF Full, Missing
      <4> QED
        BY <4>1, <4>2, MissingFacts
    <3> QED
      BY <3>2, <3>3 DEF Added
  <2> QED
    BY <2>1, <2>2
<1> QED
  BY <1>1, <1>2 DEF SameAdded

LEMMA UpdateLent ==
  ASSUME NEW r \in Rank, NEW I \in Sup, NEW T, NEW last, UpdateDone(r, I, T, last),
         UNCHANGED frees
  PROVE  /\ \A s \in Rank : Lent(s)' = IF s = r THEN Lent(s) \cup last ELSE Lent(s)
         /\ last \cap Lent(r) = {}
<1>1. \A s \in Rank : \A K \in Sup : Sends(s, K) => (Freed(s, K)' <=> Freed(s, K))
  BY UpdateAdded DEF SameAdded, Freed
<1>2. \A s, K : ~(s = r /\ K \in T) => (Full(s, K)' <=> Full(s, K))
  <2> SUFFICES ASSUME NEW s, NEW K, ~(s = r /\ K \in T) PROVE Full(s, K)' <=> Full(s, K)
    OBVIOUS
  <2>1. Missing(s, K)' = Missing(s, K)
    BY UpdateMissing
  <2>2. Full(s, K)' <=> Missing(s, K)' = {}
    BY DEF Full, Missing
  <2> QED
    BY <2>1, <2>2, MissingFacts
<1>3. \A K \in T : ~Full(r, K)
  BY DEF UpdateDone
<1>4. \A K \in last : K \in T /\ K \in Sup /\ Sends(r, K) /\ Full(r, K)' /\ ~Freed(r, K)'
  BY UpdateAdded DEF UpdateDone, Freed
<1>5. \A K \in T : Sends(r, K) /\ Full(r, K)' => K \in last
  <2> SUFFICES ASSUME NEW K \in T, Sends(r, K), Full(r, K)' PROVE K \in last
    OBVIOUS
  <2>1. Missing(r, K)' = {} /\ Missing(r, K)' = Missing(r, K) \ {I} /\ I \in Missing(r, K)
    BY UpdateMissing DEF Full, Missing, UpdateDone
  <2> QED
    BY <2>1 DEF UpdateDone, Sends
<1>6. \A s \in Rank : Lent(s)' = {K \in Sup : Sends(s, K) /\ Full(s, K)' /\ ~Freed(s, K)'}
  BY DEF Lent, Sends
<1>7. ASSUME NEW s \in Rank, NEW K
      PROVE  K \in Lent(s)' <=> K \in Lent(s) \/ (s = r /\ K \in last)
  <2>1. CASE s = r /\ K \in T
    <3>1. K \notin Lent(s)
      BY <1>3, <2>1 DEF Lent
    <3>2. K \in Lent(s)' <=> K \in last
      BY <1>4, <1>5, <1>6, <2>1
    <3> QED
      BY <2>1, <3>1, <3>2
  <2>2. CASE ~(s = r /\ K \in T)
    <3>1. ~(s = r /\ K \in last)
      BY <1>4, <2>2
    <3>2. K \in Lent(s)' <=> K \in Lent(s)
      BY <1>1, <1>2, <1>6, <2>2 DEF Lent
    <3> QED
      BY <3>1, <3>2
  <2> QED
    BY <2>1, <2>2
<1>8. last \cap Lent(r) = {}
  BY <1>3, <1>4 DEF Lent
<1> QED
  BY <1>7, <1>8

LEMMA UpdateHolds ==
  ASSUME NEW r \in Rank, NEW I \in Sup, NEW T, NEW last, UpdateDone(r, I, T, last),
         UNCHANGED frees
  PROVE  \A q \in Rank : \A K, L \in Sup :
           /\ Holds(q, K, L)' <=> Holds(q, K, L) \/ (q = r /\ L = I /\ K \in T)
           /\ q = r /\ L = I /\ K \in T => ~Holds(q, K, L)
<1> SUFFICES ASSUME NEW q \in Rank, NEW K \in Sup, NEW L \in Sup
             PROVE  /\ Holds(q, K, L)' <=> Holds(q, K, L) \/ (q = r /\ L = I /\ K \in T)
                    /\ q = r /\ L = I /\ K \in T => ~Holds(q, K, L)
  OBVIOUS
<1>1. CASE K \notin Struct[L]
  BY <1>1 DEF Holds, UpdateDone
<1>2. CASE K \in Struct[L]
  <2> DEFINE s == Updater(K, L)
  <2>1. s \in Rank /\ Sources(s, K) # {}
    BY <1>2, StructFacts
  <2>2. s # Own(K) => (Added(s, K)' <=> Added(s, K)) /\ (Freed(s, K)' <=> Freed(s, K))
    BY <2>1, UpdateAdded DEF SameAdded, Sends, Freed
  <2>3. Computed(L, K)' <=> Computed(L, K) \/ (L = I /\ K \in T)
    BY <1>2 DEF UpdateDone
  <2>4. L = I /\ K \in T => /\ s = r /\ ~Computed(L, K)
                            /\ ~Freed(r, K)
    BY DEF UpdateDone, Missing, Freed, Added
  <2> QED
    BY <1>2, <2>2, <2>3, <2>4 DEF Holds
<1> QED
  BY <1>1, <1>2

LEMMA UpdateReleases ==
  ASSUME FactorInv, NEW r \in Rank, NEW I \in Sup, NEW J \in Sup, Update(r, I, J)
  PROVE  LET t == UPDATE(I, J)
             T == Targets(r, I, J)
             last  == {K \in T : Announced(r, K)}
             local == {FACTOR(K) : K \in {L \in T : Own(L) = r}}
         IN
         /\ t \in UpdateTasks(I) /\ t \in ready /\ t \notin graph
         /\ local \subseteq graph
         /\ graph' = graph \ DueNow(local)
         /\ ready' = (ready \ {t}) \cup DueNow(local)
         /\ Pend' = Pend \cup {AggMsg(I, K) : K \in last}
         /\ \A u : Gone(u)' <=> Gone(u) \/ u = t
         /\ \A u \in Tasks : /\ localDeps'[u] = localDeps[u] - IF u \in local THEN 1 ELSE 0
                             /\ remoteDeps'[u] = remoteDeps[u]
         /\ localDeps' \in [Tasks -> Int] /\ remoteDeps' \in [Tasks -> Int]
         /\ UpdateDone(r, I, T, last)
<1> DEFINE t == UPDATE(I, J)
           T == Targets(r, I, J)
           last  == {K \in T : Announced(r, K)}
           local == {FACTOR(K) : K \in {L \in T : Own(L) = r}}
           sent  == {AggMsg(I, K) : K \in last}
<1>0. localDeps \in [Tasks -> Int] /\ remoteDeps \in [Tasks -> Int]
  BY DEF FactorInv, FTypes
<1>1. Run(r, t, local, {}, sent, <<>>)
  BY DEF Update, AggMsg
<1>2. \A u \in local : u \in FactorTasks /\ \E K \in T : Own(K) = r /\ u = FACTOR(K)
  <2>1. T \subseteq Sup
    BY DistributionAssumption DEF Targets, UpdatesOn
  <2> QED
    BY <2>1, FactorTaskShape
<1>3. \A m \in sent : \E K \in last : m = AggMsg(I, K)
  OBVIOUS
<1>4. \A K \in last : AggMsg(I, K) \in sent
  OBVIOUS
<1> HIDE DEF t, T, last, local, sent
<1>5. HasRun(r, t, local, {}, sent)
  BY <1>0, <1>1, RunEffects
<1>6. local \cup {} = local /\ DueNow(local \cup {}) = DueNow(local)
  <2>1. local \cup {} = local
    OBVIOUS
  <2> QED
    BY <2>1
<1>7. /\ t \in ready /\ RankOf(t) = r
      /\ graph' = graph \ DueNow(local)
      /\ ready' = (ready \ {t}) \cup DueNow(local)
      /\ Pend' = Pend \cup sent
      /\ localDeps' \in [Tasks -> Int] /\ remoteDeps' \in [Tasks -> Int]
      /\ \A u \in Tasks : /\ localDeps'[u] = localDeps[u] - IF u \in local THEN 1 ELSE 0
                          /\ remoteDeps'[u] = remoteDeps[u] - IF u \in {} THEN 1 ELSE 0
  BY <1>5, <1>6 DEF HasRun
<1>8. \A u \in Tasks : /\ localDeps'[u] = localDeps[u] - IF u \in local THEN 1 ELSE 0
                       /\ remoteDeps'[u] = remoteDeps[u]
  <2>1. \A u \in Tasks : remoteDeps[u] \in Int
    BY <1>0
  <2> QED
    BY <1>7, <2>1
<1>9. t \in UpdateTasks(I) /\ t \notin graph
  BY <1>7, UpdateTaskKnown DEF t
<1>10. /\ \A K : K \in T <=> K \in Struct[I] /\ TaskFor(I, K) = t
       /\ \A K \in T :
            /\ K \in Sup /\ K \in Struct[I] /\ Updater(K, I) = r
            /\ I \in Sources(r, K) /\ I \in Missing(r, K) /\ ~Full(r, K)
            /\ Own(K) = r => FACTOR(K) \in graph
            /\ Announced(r, K) <=> Own(K) # r /\ Missing(r, K) = {I}
  BY <1>7, UpdateTargets DEF t, T
<1>11. local \subseteq graph
  BY <1>2, <1>10
<1>12. \A u : Gone(u)' <=> Gone(u) \/ u = t
  BY <1>7, <1>9, <1>11, RunGone
<1>13. UpdateDone(r, I, T, last)
  <2>1. \A L \in Sup : \A K \in Struct[L] :
          Computed(L, K)' <=> Computed(L, K) \/ (L = I /\ K \in T)
    <3> SUFFICES ASSUME NEW L \in Sup, NEW K \in Struct[L]
                 PROVE  TaskFor(L, K) = t <=> L = I /\ K \in T
      BY <1>12 DEF Computed
    <3>1. TaskFor(L, K)[2] = L /\ t[2] = I
      BY <1>9, TaskForFacts, UpdateTaskShape
    <3> QED
      BY <1>10, <3>1
  <2>2. \A K : K \in last <=> K \in T /\ Own(K) # r /\ Missing(r, K) = {I}
    BY <1>10 DEF last
  <2>3. \A L, K : AggMsg(L, K) \in Pend' <=> AggMsg(L, K) \in Pend \/ (L = I /\ K \in last)
    <3>1. \A L, K : AggMsg(L, K) \in sent <=> L = I /\ K \in last
      BY <1>3, <1>4, NamesApart
    <3> QED
      BY <1>7, <3>1
  <2>4. \A L, K : AGGREGATE(L, K) \in ready' <=> AGGREGATE(L, K) \in ready
    <3> TAKE L, K
    <3>1. AGGREGATE(L, K) # t
      BY NamesApart DEF t
    <3>2. AGGREGATE(L, K) \notin local
      BY <1>2, AggShape
    <3>3. DueNow(local) \subseteq local
      BY DEF DueNow
    <3> QED
      BY <1>7, <3>1, <3>2, <3>3
  <2> QED
    BY <1>10, <2>1, <2>2, <2>3, <2>4 DEF UpdateDone
<1>14. /\ t \in UpdateTasks(I) /\ t \in ready /\ t \notin graph
       /\ local \subseteq graph
       /\ graph' = graph \ DueNow(local)
       /\ ready' = (ready \ {t}) \cup DueNow(local)
       /\ Pend' = Pend \cup sent
       /\ localDeps' \in [Tasks -> Int] /\ remoteDeps' \in [Tasks -> Int]
  BY <1>7, <1>9, <1>11
<1> QED
  BY <1>8, <1>12, <1>13, <1>14 DEF t, T, last, local, sent

LEMMA UpdateKeepsFactor ==
  ASSUME FactorInv, NEW r \in Rank, NEW I \in Sup, NEW J \in Sup, Update(r, I, J)
  PROVE  /\ FactorInv'
         /\ {AggMsg(I, K) : K \in {L \in Targets(r, I, J) : Announced(r, L)}} \cap Pend = {}
<1> DEFINE tt == UPDATE(I, J)
           TT == Targets(r, I, J)
           ll == {K \in TT : Announced(r, K)}
           ff == {FACTOR(K) : K \in {L \in TT : Own(L) = r}}
           ss == {AggMsg(I, K) : K \in ll}
<1>1. /\ tt \in UpdateTasks(I) /\ tt \in ready /\ tt \notin graph
      /\ ff \subseteq graph
      /\ graph' = graph \ DueNow(ff)
      /\ ready' = (ready \ {tt}) \cup DueNow(ff)
      /\ Pend' = Pend \cup ss
      /\ \A u : Gone(u)' <=> Gone(u) \/ u = tt
      /\ \A u \in Tasks : /\ localDeps'[u] = localDeps[u] - IF u \in ff THEN 1 ELSE 0
                          /\ remoteDeps'[u] = remoteDeps[u]
      /\ localDeps' \in [Tasks -> Int] /\ remoteDeps' \in [Tasks -> Int]
      /\ UpdateDone(r, I, TT, ll)
  BY UpdateReleases
<1>2. /\ \A K \in TT : K \in Sup /\ K \in Struct[I] /\ Updater(K, I) = r
      /\ \A u : u \in ff <=> \E K \in TT : Own(K) = r /\ u = FACTOR(K)
      /\ \A m : m \in ss <=> \E K \in ll : m = AggMsg(I, K)
      /\ \A K \in ll : K \in TT
  BY <1>1 DEF UpdateDone
<1>3. /\ sum'  = [sum EXCEPT ![r] = [K \in Sup |->
                    IF K \in TT THEN [sum[r][K] EXCEPT ![I] = @ + 1] ELSE sum[r][K]]]
      /\ todo' = [todo EXCEPT ![r] = [K \in Sup |->
                    IF K \in TT THEN todo[r][K] - 1 ELSE todo[r][K]]]
      /\ remDealloc' = [remDealloc EXCEPT ![r] = remDealloc[r] + Cardinality(ll)]
      /\ UNCHANGED <<factored, frees>>
  <2>1. sum'  = [sum EXCEPT ![r] = [K \in Sup |->
                    IF K \in TT THEN [sum[r][K] EXCEPT ![I] = @ + 1] ELSE sum[r][K]]]
    BY DEF Update
  <2>2. todo' = [todo EXCEPT ![r] = [K \in Sup |->
                    IF K \in TT THEN todo[r][K] - 1 ELSE todo[r][K]]]
    BY DEF Update
  <2>3. remDealloc' = [remDealloc EXCEPT ![r] = remDealloc[r] + Cardinality(ll)]
    BY DEF Update
  <2>4. UNCHANGED <<factored, frees>>
    BY DEF Update
  <2> QED
    BY <2>1, <2>2, <2>3, <2>4
<1>4. \A m : /\ m \in DOMAIN got /\ m[2] # tt => m \in DOMAIN got' /\ got'[m] = got[m]
  <2>1. Run(r, tt, ff, {}, ss, <<>>)
    BY DEF Update, AggMsg
  <2>2. \A m : /\ m \in DOMAIN got' <=> (m \in DOMAIN got /\ m[2] # tt) \/ m \in DOMAIN <<>>
               /\ m \in DOMAIN got' => got'[m] = IF m \in DOMAIN <<>> THEN (<<>>)[m] ELSE got[m]
    <3> HIDE DEF tt, ff, ss
    <3> QED
      BY <2>1, GotAfterRun
  <2>3. DOMAIN <<>> = {}
    OBVIOUS
  <2> HIDE DEF tt
  <2> QED
    BY <2>2, <2>3
<1> HIDE DEF TT, ll, ff, ss
<1>5. PICK t, T, last, local, sent :
        t = tt /\ T = TT /\ last = ll /\ local = ff /\ sent = ss
  OBVIOUS
<1>6. UpdateDone(r, I, T, last)
  BY <1>1, <1>5
<1>7. /\ t \in UpdateTasks(I) /\ t \in ready /\ t \notin graph
      /\ local \subseteq graph
      /\ graph' = graph \ DueNow(local)
      /\ ready' = (ready \ {t}) \cup DueNow(local)
      /\ Pend' = Pend \cup sent
      /\ \A u : Gone(u)' <=> Gone(u) \/ u = t
      /\ \A u \in Tasks : /\ localDeps'[u] = localDeps[u] - IF u \in local THEN 1 ELSE 0
                          /\ remoteDeps'[u] = remoteDeps[u]
      /\ localDeps' \in [Tasks -> Int] /\ remoteDeps' \in [Tasks -> Int]
  BY <1>1, <1>5
<1>8. /\ \A K \in T : K \in Sup /\ K \in Struct[I] /\ Updater(K, I) = r
      /\ \A u : u \in local <=> \E K \in T : Own(K) = r /\ u = FACTOR(K)
      /\ \A m : m \in sent <=> \E K \in last : m = AggMsg(I, K)
      /\ \A K \in last : K \in T /\ Own(K) # r
      /\ DueNow(local) \subseteq local
  BY <1>2, <1>5, <1>6 DEF UpdateDone, DueNow
<1>9. SameAdded
  BY <1>6, UpdateAdded
<1>10. FTypes'
  <2>1. sum' \in [Rank -> [Sup -> [Sup -> Int]]]
    <3>1. \A K \in Sup : sum[r][K] \in [Sup -> Int]
      BY DEF FactorInv, FTypes
    <3>2. \A K \in Sup : [sum[r][K] EXCEPT ![I] = @ + 1] \in [Sup -> Int]
      BY <3>1
    <3> QED
      BY <1>3, <3>1, <3>2 DEF FactorInv, FTypes
  <2>2. todo' \in [Rank -> [Sup -> Int]]
    BY <1>3 DEF FactorInv, FTypes
  <2>3. IsFiniteSet(ll) /\ Cardinality(ll) \in Nat
    <3>1. IsFiniteSet(Sup) /\ ll \subseteq Sup
      BY <1>2, UpTo, DistributionAssumption DEF Sup
    <3> QED
      BY <3>1, FS_Subset, FS_CardinalityType
  <2>4. remDealloc' \in [Rank -> Int]
    BY <1>3, <2>3 DEF FactorInv, FTypes
  <2> QED
    BY <1>3, <1>7, <2>1, <2>2, <2>4 DEF FactorInv, FTypes
<1>11. \A u \in local : u \in FactorTasks
  BY <1>8, FactorTaskShape
<1>12. FKinds'
  <2>1. \A u \in graph' : ~IsSolve(u) => u \in FactorTasks /\ u \notin ready'
    BY <1>7 DEF FactorInv, FKinds
  <2>2. \A u \in ready' : ~IsSolve(u) =>
          u \in FactorTasks \/ \E L \in Sup : \E K \in Struct[L] :
                                  Updater(K, L) # Own(K) /\ u = AGGREGATE(L, K)
    BY <1>7, <1>8, <1>11 DEF FactorInv, FKinds
  <2>3. \A m \in sent : IsAggMsg(m)
    BY <1>8 DEF IsAggMsg
  <2>4. \A m \in Pend' : ~IsSolve(m[2]) => IsFirstMsg(m) \/ IsAggMsg(m)
    BY <1>7, <2>3 DEF FactorInv, FKinds
  <2> QED
    BY <2>1, <2>2, <2>4 DEF FKinds, IsAggMsg, IsFirstMsg
<1>13. t[1] = "UPDATE" /\ t \in Tasks
  BY <1>7, UpdateTaskShape
<1>14. FactorStatus'
  <2>1. \A K \in Sup : FACTOR(K) # t
    BY <1>13, FactorTaskShape
  <2> QED
    BY <1>3, <1>7, <2>1 DEF FactorInv, FactorStatus
<1>15. UpdateStatus'
  <2> SUFFICES ASSUME NEW L \in Sup, NEW u \in UpdateTasks(L)
               PROVE  /\ localDeps'[u]  = IF u \in graph' THEN LocalOf(u) ELSE 0
                      /\ remoteDeps'[u] = IF u \in graph' THEN RemoteOf(u) ELSE 0
                      /\ u \in graph' <=> L \notin factored \/ <<L, u>> \in Pend'
                      /\ <<L, u>> \in Pend' => L \in factored
    BY <1>3 DEF UpdateStatus
  <2>1. u \in Tasks /\ u[1] = "UPDATE" /\ LocalOf(u) \in {0, 1}
    BY UpdateTaskShape
  <2>2. u \notin local
    BY <1>8, <2>1, FactorTaskShape
  <2>3. <<L, u>> \notin sent
    BY <1>8, <2>1, AggShape
  <2>4. /\ localDeps[u]  = IF u \in graph THEN LocalOf(u) ELSE 0
        /\ remoteDeps[u] = IF u \in graph THEN RemoteOf(u) ELSE 0
        /\ u \in graph <=> L \notin factored \/ <<L, u>> \in Pend
        /\ <<L, u>> \in Pend => L \in factored
    BY DEF FactorInv, UpdateStatus
  <2>5. u \in graph' <=> u \in graph
    BY <1>7, <1>8, <2>2
  <2>6. localDeps'[u] = localDeps[u] /\ remoteDeps'[u] = remoteDeps[u]
    <3>1. localDeps[u] \in Int
      BY <2>1 DEF FactorInv, FTypes
    <3> QED
      BY <1>7, <2>1, <2>2, <3>1
  <2> QED
    BY <1>7, <2>3, <2>4, <2>5, <2>6
<1>16. FactorCounts'
  <2> SUFFICES ASSUME NEW K \in Sup
               PROVE  /\ localDeps'[FACTOR(K)] = Cardinality(Missing(Own(K), K)')
                      /\ remoteDeps'[FACTOR(K)] = Cardinality(Awaited(K)')
                      /\ FACTOR(K) \in graph' <=> Missing(Own(K), K)' # {} \/ Awaited(K)' # {}
    BY DEF FactorCounts
  <2>1. /\ localDeps[FACTOR(K)] = Cardinality(Missing(Own(K), K))
        /\ remoteDeps[FACTOR(K)] = Cardinality(Awaited(K))
        /\ FACTOR(K) \in graph <=> Missing(Own(K), K) # {} \/ Awaited(K) # {}
    BY DEF FactorInv, FactorCounts
  <2>2. FACTOR(K) \in Tasks
    BY FactorTaskShape
  <2>3. Awaited(K)' = Awaited(K) /\ remoteDeps'[FACTOR(K)] = remoteDeps[FACTOR(K)]
    BY <1>7, <1>9, <2>2, AwaitedSame
  <2>4. FACTOR(K) \in local <=> Own(K) = r /\ K \in T
    BY <1>8, NamesApart
  <2>5. CASE ~(Own(K) = r /\ K \in T)
    <3>1. Missing(Own(K), K)' = Missing(Own(K), K)
      BY <1>6, <2>5, UpdateMissing
    <3>2. localDeps'[FACTOR(K)] = localDeps[FACTOR(K)]
      BY <1>7, <2>1, <2>2, <2>4, <2>5, MissingFacts
    <3>3. FACTOR(K) \in graph' <=> FACTOR(K) \in graph
      BY <1>7, <1>8, <2>4, <2>5
    <3> QED
      BY <2>1, <2>3, <3>1, <3>2, <3>3
  <2>6. CASE Own(K) = r /\ K \in T
    <3>1. Missing(Own(K), K)' = Missing(Own(K), K) \ {I}
      BY <1>6, <2>6, UpdateMissing
    <3>2. I \in Missing(Own(K), K)
      BY <1>6, <2>6 DEF UpdateDone
    <3>3. /\ Cardinality(Missing(Own(K), K)') = Cardinality(Missing(Own(K), K)) - 1
          /\ IsFiniteSet(Missing(Own(K), K)')
      BY <3>1, <3>2, MissingFacts, FS_RemoveElement
    <3>4. localDeps'[FACTOR(K)] = Cardinality(Missing(Own(K), K)')
      BY <1>7, <2>1, <2>2, <2>4, <2>6, <3>3
    <3>5. /\ localDeps'[FACTOR(K)] = 0 <=> Missing(Own(K), K)' = {}
          /\ remoteDeps'[FACTOR(K)] = 0 <=> Awaited(K)' = {}
      BY <2>1, <2>3, <3>3, <3>4, AwaitedFacts, FS_EmptySet
    <3>6. FACTOR(K) \in DueNow(local) <=> localDeps'[FACTOR(K)] = 0 /\ remoteDeps'[FACTOR(K)] = 0
      BY <2>4, <2>6 DEF DueNow
    <3>7. FACTOR(K) \in graph
      BY <2>1, <3>2
    <3> QED
      BY <1>7, <2>1, <2>3, <3>4, <3>5, <3>6, <3>7
  <2> QED
    BY <2>5, <2>6
<1>17. SumExact'
  <2> SUFFICES ASSUME NEW q \in Rank, NEW K \in Sup, NEW L \in Sup
               PROVE  sum'[q][K][L] = IF Holds(q, K, L)' THEN 1 ELSE 0
    BY DEF SumExact
  <2>1. /\ Holds(q, K, L)' <=> Holds(q, K, L) \/ (q = r /\ L = I /\ K \in T)
        /\ q = r /\ L = I /\ K \in T => ~Holds(q, K, L)
    BY <1>3, <1>6, UpdateHolds
  <2>2. sum[q][K][L] = IF Holds(q, K, L) THEN 1 ELSE 0
    BY DEF FactorInv, SumExact
  <2>3. sum[q][K] \in [Sup -> Int] /\ sum[q] \in [Sup -> [Sup -> Int]]
    BY DEF FactorInv, FTypes
  <2>4. sum'[q][K][L] = IF q = r /\ L = I /\ K \in T THEN sum[q][K][L] + 1 ELSE sum[q][K][L]
    <3>1. q # r => sum'[q] = sum[q]
      BY <1>3 DEF FactorInv, FTypes
    <3>2. q = r => sum'[q][K] = IF K \in TT THEN [sum[r][K] EXCEPT ![I] = @ + 1] ELSE sum[r][K]
      BY <1>3 DEF FactorInv, FTypes
    <3>3. q = r /\ K \in T => sum'[q][K] = [sum[q][K] EXCEPT ![I] = @ + 1]
      BY <1>5, <3>2
    <3>4. q = r /\ K \notin T => sum'[q][K] = sum[q][K]
      BY <1>5, <3>2
    <3> QED
      BY <2>3, <3>1, <3>3, <3>4
  <2> QED
    BY <2>1, <2>2, <2>4
<1>18. TodoExact'
  <2> SUFFICES ASSUME NEW q \in Rank, NEW K \in Sup
               PROVE  todo'[q][K] = Cardinality(Missing(q, K)')
    BY DEF TodoExact
  <2>1. todo[q][K] = Cardinality(Missing(q, K))
    BY DEF FactorInv, TodoExact
  <2>2. todo'[q][K] = IF q = r /\ K \in T THEN todo[q][K] - 1 ELSE todo[q][K]
    BY <1>3, <1>5 DEF FactorInv, FTypes
  <2>3. CASE q = r /\ K \in T
    <3>1. Missing(q, K)' = Missing(q, K) \ {I} /\ I \in Missing(q, K)
      <4>1. I \in Missing(q, K)
        BY <1>6, <2>3 DEF UpdateDone
      <4> QED
        BY <1>6, <2>3, <4>1, UpdateMissing
    <3>2. Cardinality(Missing(q, K)') = Cardinality(Missing(q, K)) - 1
      BY <3>1, MissingFacts, FS_RemoveElement
    <3> QED
      BY <2>1, <2>2, <2>3, <3>2
  <2>4. CASE ~(q = r /\ K \in T)
    <3>1. Missing(q, K)' = Missing(q, K)
      BY <1>6, <2>4, UpdateMissing
    <3> QED
      BY <2>1, <2>2, <2>4, <3>1
  <2> QED
    BY <2>3, <2>4
<1>19. CarrierExact'
  <2>1. \A L, K : AggMsg(L, K) \in DOMAIN got =>
          AggMsg(L, K) \in DOMAIN got' /\ got'[AggMsg(L, K)] = got[AggMsg(L, K)]
    <3>1. \A L, K : AggMsg(L, K)[2] # tt
      BY AggShape, NamesApart
    <3> HIDE DEF tt
    <3> QED
      BY <1>4, <3>1
  <2> SUFFICES ASSUME NEW L \in Sup, NEW K \in Struct[L], Carries(L, K)'
               PROVE  /\ Updater(K, L) # Own(K)
                      /\ Full(Updater(K, L), K)'
                      /\ \A M \in Sources(Updater(K, L), K) : Carries(M, K)' => M = L
                      /\ ~(AggMsg(L, K) \in Pend' /\ AGGREGATE(L, K) \in ready')
                      /\ AGGREGATE(L, K) \in ready' =>
                           AggMsg(L, K) \in DOMAIN got' /\ got'[AggMsg(L, K)] = Whole(Updater(K, L), K)
    BY DEF CarrierExact
  <2> DEFINE s == Updater(K, L)
  <2>2. \A M : Carries(M, K)' <=> Carries(M, K) \/ (M = I /\ K \in last)
    BY <1>6 DEF Carries, UpdateDone
  <2>3. \A M \in Sources(s, K) : Carries(M, K) =>
          /\ s # Own(K) /\ Full(s, K)
          /\ \A N \in Sources(s, K) : Carries(N, K) => N = M
    BY SourcesFacts DEF FactorInv, CarrierExact
  <2>4. L \in Sources(s, K)
    BY StructFacts
  <2>5. CASE L = I /\ K \in last
    <3>1. s = r /\ ~Full(r, K) /\ Own(K) # r
      BY <1>6, <1>8, <2>5 DEF UpdateDone
    <3>2. Full(r, K)'
      BY <1>6, <2>5, UpdateAdded
    <3>3. \A M \in Sources(s, K) : ~Carries(M, K)
      BY <2>3, <3>1
    <3>4. \A M \in Sources(s, K) : Carries(M, K)' => M = L
      BY <2>2, <2>5, <3>3
    <3>5. AGGREGATE(L, K) \notin ready'
      BY <1>6, <2>4, <3>3 DEF Carries, UpdateDone
    <3> QED
      BY <3>1, <3>2, <3>4, <3>5
  <2>6. CASE ~(L = I /\ K \in last)
    <3>1. Carries(L, K)
      BY <2>2, <2>6
    <3>2. /\ s # Own(K) /\ Full(s, K)
          /\ \A M \in Sources(s, K) : Carries(M, K) => M = L
          /\ ~(AggMsg(L, K) \in Pend /\ AGGREGATE(L, K) \in ready)
          /\ AGGREGATE(L, K) \in ready =>
               AggMsg(L, K) \in DOMAIN got /\ got[AggMsg(L, K)] = Whole(s, K)
      BY <3>1 DEF FactorInv, CarrierExact
    <3>3. ~(s = r /\ K \in T)
      BY <1>6, <3>2 DEF UpdateDone
    <3>4. Full(s, K)'
      <4>1. Missing(s, K)' = Missing(s, K) /\ Missing(s, K) = {}
        BY <1>6, <3>2, <3>3, UpdateMissing, MissingFacts
      <4> QED
        BY <4>1 DEF Missing, Full
    <3>5. \A M \in Sources(s, K) : ~(M = I /\ K \in last)
      BY <1>8, <3>3, SourcesFacts
    <3>6. \A M \in Sources(s, K) : Carries(M, K)' => M = L
      BY <2>2, <3>2, <3>5
    <3>7. ~(AggMsg(L, K) \in Pend' /\ AGGREGATE(L, K) \in ready')
      BY <1>6, <2>6, <3>2 DEF UpdateDone
    <3>8. AGGREGATE(L, K) \in ready' =>
            AggMsg(L, K) \in DOMAIN got' /\ got'[AggMsg(L, K)] = Whole(s, K)
      BY <1>6, <2>1, <3>2 DEF UpdateDone
    <3> QED
      BY <3>2, <3>4, <3>6, <3>7, <3>8
  <2> QED
    BY <2>5, <2>6
<1>20. FreesExact'
  <2>1. ASSUME NEW f \in frees PROVE Sends(f[1], f[2]) /\ Added(f[1], f[2])'
    <3>1. Sends(f[1], f[2]) /\ Added(f[1], f[2]) /\ f[1] \in Rank /\ f[2] \in Sup
      BY DEF FactorInv, FreesExact, FTypes
    <3> QED
      BY <1>9, <3>1 DEF SameAdded
  <2> QED
    BY <1>3, <2>1 DEF FreesExact, Sends
<1>21. LentExact'
  <2> SUFFICES ASSUME NEW s \in Rank
               PROVE  remDealloc'[s] = Cardinality(Lent(s)')
    BY DEF LentExact
  <2>1. remDealloc[s] = Cardinality(Lent(s)) /\ remDealloc[s] \in Int
    BY DEF FactorInv, LentExact, FTypes
  <2>2. /\ \A q \in Rank : Lent(q)' = IF q = r THEN Lent(q) \cup last ELSE Lent(q)
        /\ last \cap Lent(r) = {}
    BY <1>3, <1>6, UpdateLent
  <2>3. remDealloc'[s] = IF s = r THEN remDealloc[s] + Cardinality(last) ELSE remDealloc[s]
    BY <1>3, <1>5 DEF FactorInv, FTypes
  <2>4. CASE s = r
    <3>1. IsFiniteSet(Lent(s)')
      <4>1. IsFiniteSet(Sup) /\ Lent(s)' \subseteq Sup
        BY UpTo, DistributionAssumption DEF Sup, Lent
      <4> QED
        BY <4>1, FS_Subset
    <3>2. Cardinality(Lent(s)') = Cardinality(Lent(s)) + Cardinality(last)
      BY <2>2, <2>4, <3>1, SplitCount
    <3> QED
      BY <2>1, <2>3, <2>4, <3>2
  <2>5. CASE s # r
    BY <2>1, <2>2, <2>3, <2>5
  <2> QED
    BY <2>4, <2>5
<1>22. sent \cap Pend = {}
  <2> SUFFICES ASSUME NEW K \in last PROVE AggMsg(I, K) \notin Pend
    BY <1>8
  <2>1. K \in T /\ ~Full(r, K) /\ K \in Struct[I] /\ Updater(K, I) = r
    BY <1>6, <1>8 DEF UpdateDone
  <2> QED
    BY <2>1 DEF FactorInv, CarrierExact, Carries
<1>23. ss = {AggMsg(I, K) : K \in {L \in Targets(r, I, J) : Announced(r, L)}}
  BY DEF ss, ll, TT
<1> QED
  BY <1>5, <1>10, <1>12, <1>14, <1>15, <1>16, <1>17, <1>18, <1>19, <1>20, <1>21, <1>22, <1>23 DEF FactorInv

-----------------------------------------------------------------------------
(* An AGGREGATE task.                                                      *)

LEMMA AggregateReleases ==
  ASSUME FactorInv, NEW r \in Rank, NEW I \in Sup, NEW K \in Sup, Aggregate(r, I, K)
  PROVE  LET t == AGGREGATE(I, K)
             s == Updater(K, I) IN
         /\ t \in ready /\ t \notin graph /\ r = Own(K)
         /\ K \in Struct[I] /\ s \in Rank /\ s # r /\ I \in Sources(s, K)
         /\ Full(s, K) /\ ~Added(s, K) /\ Sends(s, K)
         /\ \A L \in Sources(s, K) : Carries(L, K) => L = I
         /\ AggMsg(I, K) \notin Pend /\ got[AggMsg(I, K)] = Whole(s, K)
         /\ FACTOR(K) \in graph
         /\ graph' = graph \ DueNow({FACTOR(K)})
         /\ ready' = (ready \ {t}) \cup DueNow({FACTOR(K)})
         /\ Pend' = Pend
         /\ \A u : Gone(u)' <=> Gone(u) \/ u = t
         /\ \A u \in Tasks : /\ localDeps'[u] = localDeps[u]
                             /\ remoteDeps'[u] = remoteDeps[u] - IF u = FACTOR(K) THEN 1 ELSE 0
         /\ localDeps' \in [Tasks -> Int] /\ remoteDeps' \in [Tasks -> Int]
<1> DEFINE t == AGGREGATE(I, K)
           s == Updater(K, I)
<1>0. localDeps \in [Tasks -> Int] /\ remoteDeps \in [Tasks -> Int]
  BY DEF FactorInv, FTypes
<1>1. Run(r, t, {}, {FACTOR(K)}, {}, <<>>)
  BY DEF Aggregate
<1>2. HasRun(r, t, {}, {FACTOR(K)}, {})
  <2> HIDE DEF t
  <2> QED
    BY <1>0, <1>1, RunEffects
<1>3. {} \cup {FACTOR(K)} = {FACTOR(K)} /\ DueNow({} \cup {FACTOR(K)}) = DueNow({FACTOR(K)})
  <2>1. {} \cup {FACTOR(K)} = {FACTOR(K)}
    OBVIOUS
  <2> QED
    BY <2>1
<1>4. /\ t \in ready /\ RankOf(t) = r
      /\ graph' = graph \ DueNow({FACTOR(K)})
      /\ ready' = (ready \ {t}) \cup DueNow({FACTOR(K)})
      /\ Pend' = Pend
      /\ localDeps' \in [Tasks -> Int] /\ remoteDeps' \in [Tasks -> Int]
      /\ \A u \in Tasks : /\ localDeps'[u] = localDeps[u] - IF u \in {} THEN 1 ELSE 0
                          /\ remoteDeps'[u] = remoteDeps[u] - IF u \in {FACTOR(K)} THEN 1 ELSE 0
  BY <1>2, <1>3 DEF HasRun
<1>5. \A u \in Tasks : /\ localDeps'[u] = localDeps[u]
                       /\ remoteDeps'[u] = remoteDeps[u] - IF u = FACTOR(K) THEN 1 ELSE 0
  <2>1. \A u \in Tasks : localDeps[u] \in Int
    BY <1>0
  <2> QED
    BY <1>4, <2>1
<1>6. t \notin graph /\ r = Own(K) /\ K \in Struct[I] /\ s # r
  <2>1. ~IsSolve(t) /\ t \notin FactorTasks /\ RankOf(t) = Own(K)
    BY AggShape
  <2>2. \E L \in Sup : \E M \in Struct[L] : Updater(M, L) # Own(M) /\ t = AGGREGATE(L, M)
    BY <1>4, <2>1 DEF FactorInv, FKinds
  <2>3. K \in Struct[I] /\ Updater(K, I) # Own(K)
    BY <2>2, NamesApart
  <2> QED
    BY <1>4, <2>1, <2>3 DEF FactorInv, FKinds
<1>7. s \in Rank /\ I \in Sources(s, K) /\ Sends(s, K)
  BY <1>6, StructFacts DEF Sends
<1>8. Carries(I, K)
  BY <1>4 DEF Carries
<1>9. /\ Full(s, K)
      /\ \A L \in Sources(s, K) : Carries(L, K) => L = I
      /\ AggMsg(I, K) \notin Pend /\ got[AggMsg(I, K)] = Whole(s, K)
  BY <1>4, <1>6, <1>8 DEF FactorInv, CarrierExact
<1>10. ~Added(s, K)
  BY <1>7, <1>8 DEF Added
<1>11. FACTOR(K) \in graph
  <2>1. s \in Awaited(K)
    BY <1>6, <1>7, <1>10 DEF Awaited
  <2> QED
    BY <2>1 DEF FactorInv, FactorCounts
<1>12. \A u : Gone(u)' <=> Gone(u) \/ u = t
  <2>1. {FACTOR(K)} \subseteq graph
    BY <1>11
  <2> QED
    BY <1>4, <1>6, <2>1, RunGone
<1> QED
  BY <1>4, <1>5, <1>6, <1>7, <1>9, <1>10, <1>11, <1>12

LEMMA AggregateKeepsFactor ==
  ASSUME FactorInv, NEW r \in Rank, NEW I \in Sup, NEW K \in Sup, Aggregate(r, I, K)
  PROVE  FactorInv'
<1> DEFINE tt == AGGREGATE(I, K)
           ss == Updater(K, I)
<1>0. /\ tt \in ready /\ tt \notin graph /\ r = Own(K)
      /\ K \in Struct[I] /\ ss \in Rank /\ ss # r /\ I \in Sources(ss, K)
      /\ Full(ss, K) /\ ~Added(ss, K) /\ Sends(ss, K)
      /\ \A L \in Sources(ss, K) : Carries(L, K) => L = I
      /\ AggMsg(I, K) \notin Pend /\ got[AggMsg(I, K)] = Whole(ss, K)
      /\ FACTOR(K) \in graph
      /\ graph' = graph \ DueNow({FACTOR(K)})
      /\ ready' = (ready \ {tt}) \cup DueNow({FACTOR(K)})
      /\ Pend' = Pend
      /\ \A u : Gone(u)' <=> Gone(u) \/ u = tt
      /\ \A u \in Tasks : /\ localDeps'[u] = localDeps[u]
                          /\ remoteDeps'[u] = remoteDeps[u] - IF u = FACTOR(K) THEN 1 ELSE 0
      /\ localDeps' \in [Tasks -> Int] /\ remoteDeps' \in [Tasks -> Int]
  BY AggregateReleases
<1>0a. PICK t, s : t = tt /\ s = ss
  OBVIOUS
<1>1. /\ t = tt /\ s = ss
      /\ t \in ready /\ t \notin graph /\ r = Own(K)
      /\ K \in Struct[I] /\ s \in Rank /\ s # r /\ I \in Sources(s, K)
      /\ Full(s, K) /\ ~Added(s, K) /\ Sends(s, K)
      /\ \A L \in Sources(s, K) : Carries(L, K) => L = I
      /\ AggMsg(I, K) \notin Pend /\ got[AggMsg(I, K)] = Whole(s, K)
      /\ FACTOR(K) \in graph
      /\ graph' = graph \ DueNow({FACTOR(K)})
      /\ ready' = (ready \ {t}) \cup DueNow({FACTOR(K)})
      /\ Pend' = Pend
      /\ \A u : Gone(u)' <=> Gone(u) \/ u = t
      /\ \A u \in Tasks : /\ localDeps'[u] = localDeps[u]
                          /\ remoteDeps'[u] = remoteDeps[u] - IF u = FACTOR(K) THEN 1 ELSE 0
      /\ localDeps' \in [Tasks -> Int] /\ remoteDeps' \in [Tasks -> Int]
  <2> HIDE DEF tt, ss
  <2> QED
    BY <1>0, <1>0a
<1>2. /\ sum' = [sum EXCEPT ![r][K] = [L \in Sup |-> sum[r][K][L] + got[AggMsg(I, K)][L]]]
      /\ frees' = frees \cup {<<s, K>>}
      /\ UNCHANGED <<factored, todo, remDealloc>>
  <2>1. <<I, tt>> = AggMsg(I, K)
    BY DEF AggMsg
  <2>2. frees' = frees \cup {<<ss, K>>} /\ UNCHANGED <<factored, todo, remDealloc>>
    BY DEF Aggregate
  <2>3. sum' = [sum EXCEPT ![r][K] = [L \in Sup |-> sum[r][K][L] + got[<<I, tt>>][L]]]
    BY DEF Aggregate
  <2> QED
    BY <1>1, <2>1, <2>2, <2>3
<1>3. \A m : /\ m \in DOMAIN got /\ m[2] # t => m \in DOMAIN got' /\ got'[m] = got[m]
  <2>1. Run(r, tt, {}, {FACTOR(K)}, {}, <<>>)
    BY DEF Aggregate
  <2>2. \A m : /\ m \in DOMAIN got' <=> (m \in DOMAIN got /\ m[2] # tt) \/ m \in DOMAIN <<>>
               /\ m \in DOMAIN got' => got'[m] = IF m \in DOMAIN <<>> THEN (<<>>)[m] ELSE got[m]
    <3> HIDE DEF tt
    <3> QED
      BY <2>1, GotAfterRun
  <2>3. DOMAIN <<>> = {}
    OBVIOUS
  <2> HIDE DEF tt
  <2> QED
    BY <1>1, <2>2, <2>3
<1>4. t[1] = "AGGREGATE" /\ \A L, M : AGGREGATE(L, M) = t => L = I /\ M = K
  BY <1>1, AggShape, NamesApart
<1>5. DueNow({FACTOR(K)}) \subseteq {FACTOR(K)} /\ FACTOR(K) \in FactorTasks
  BY FactorTaskShape DEF DueNow
<1>6. SameComputed
  <2>1. \A L \in Sup : \A M \in Struct[L] : TaskFor(L, M) # t
    BY <1>4, TaskForFacts, UpdateTaskShape
  <2> QED
    BY <1>1, <2>1 DEF SameComputed, Computed
<1>7. \A L, M : /\ AggMsg(L, M) \in Pend' <=> AggMsg(L, M) \in Pend
                /\ AGGREGATE(L, M) \in ready' <=> AGGREGATE(L, M) \in ready /\ ~(L = I /\ M = K)
                /\ Carries(L, M)' <=> Carries(L, M) /\ ~(L = I /\ M = K)
  <2> TAKE L, M
  <2>1. AGGREGATE(L, M) # FACTOR(K)
    BY NamesApart
  <2>2. AGGREGATE(L, M) \in ready' <=> AGGREGATE(L, M) \in ready /\ AGGREGATE(L, M) # t
    BY <1>1, <1>5, <2>1
  <2>3. AGGREGATE(L, M) = t <=> L = I /\ M = K
    BY <1>1, <1>4
  <2>4. AggMsg(I, K) \notin Pend
    BY <1>1
  <2> QED
    BY <1>1, <2>2, <2>3, <2>4 DEF Carries
<1>8. \A q, M : Full(q, M)' <=> Full(q, M)
  BY <1>6, ComputedSame
<1>9. \A q, M : Added(q, M)' <=> Added(q, M) \/ (q = s /\ M = K)
  <2> TAKE q, M
  <2>1. CASE q = s /\ M = K
    <3>1. \A L \in Sources(s, K) : ~Carries(L, K)'
      BY <1>1, <1>7
    <3>2. Full(s, K)'
      BY <1>1, <1>8
    <3> QED
      BY <2>1, <3>1, <3>2 DEF Added
  <2>2. CASE ~(q = s /\ M = K)
    <3>1. \A L \in Sources(q, M) : ~(L = I /\ M = K)
      BY <1>1, <2>2, SourcesFacts
    <3>2. \A L \in Sources(q, M) : Carries(L, M)' <=> Carries(L, M)
      BY <1>7, <3>1
    <3> QED
      BY <1>8, <2>2, <3>2 DEF Added
  <2> QED
    BY <2>1, <2>2
<1>10. \A q, M : Freed(q, M)' <=> Freed(q, M)
  <2> TAKE q, M
  <2>1. <<q, M>> \in frees' <=> <<q, M>> \in frees \/ (q = s /\ M = K)
    BY <1>2
  <2> QED
    BY <1>1, <1>9, <2>1 DEF Freed
<1>11. FTypes'
  <2>1. \A L \in Sup : got[AggMsg(I, K)][L] \in Int
    BY <1>1 DEF Whole
  <2>2. sum' \in [Rank -> [Sup -> [Sup -> Int]]]
    <3>1. [L \in Sup |-> sum[r][K][L] + got[AggMsg(I, K)][L]] \in [Sup -> Int]
      BY <2>1 DEF FactorInv, FTypes
    <3> QED
      BY <1>2, <3>1 DEF FactorInv, FTypes
  <2>3. frees' \subseteq Rank \X Sup
    BY <1>1, <1>2 DEF FactorInv, FTypes
  <2> QED
    BY <1>1, <1>2, <2>2, <2>3 DEF FactorInv, FTypes
<1>12. FKinds'
  <2>1. \A u \in graph' : ~IsSolve(u) => u \in FactorTasks /\ u \notin ready'
    BY <1>1 DEF FactorInv, FKinds
  <2>2. \A u \in ready' : ~IsSolve(u) =>
          u \in FactorTasks \/ \E L \in Sup : \E M \in Struct[L] :
                                  Updater(M, L) # Own(M) /\ u = AGGREGATE(L, M)
    BY <1>1, <1>5 DEF FactorInv, FKinds
  <2>3. \A m \in Pend' : ~IsSolve(m[2]) => IsFirstMsg(m) \/ IsAggMsg(m)
    BY <1>1 DEF FactorInv, FKinds
  <2> QED
    BY <2>1, <2>2, <2>3 DEF FKinds, IsAggMsg, IsFirstMsg
<1>13. FactorStatus'
  <2>1. \A M \in Sup : FACTOR(M) # t
    BY <1>4, FactorTaskShape
  <2> QED
    BY <1>1, <1>2, <2>1 DEF FactorInv, FactorStatus
<1>14. UpdateStatus'
  <2> SUFFICES ASSUME NEW L \in Sup, NEW u \in UpdateTasks(L)
               PROVE  /\ localDeps'[u]  = IF u \in graph' THEN LocalOf(u) ELSE 0
                      /\ remoteDeps'[u] = IF u \in graph' THEN RemoteOf(u) ELSE 0
                      /\ u \in graph' <=> L \notin factored \/ <<L, u>> \in Pend
                      /\ <<L, u>> \in Pend => L \in factored
    BY <1>1, <1>2 DEF UpdateStatus
  <2>1. u \in Tasks /\ u # FACTOR(K)
    BY UpdateTaskShape, FactorTaskShape
  <2>2. /\ localDeps[u]  = IF u \in graph THEN LocalOf(u) ELSE 0
        /\ remoteDeps[u] = IF u \in graph THEN RemoteOf(u) ELSE 0
        /\ u \in graph <=> L \notin factored \/ <<L, u>> \in Pend
        /\ <<L, u>> \in Pend => L \in factored
    BY DEF FactorInv, UpdateStatus
  <2>3. u \in graph' <=> u \in graph
    BY <1>1, <1>5, <2>1
  <2>4. localDeps'[u] = localDeps[u] /\ remoteDeps'[u] = remoteDeps[u]
    <3>1. remoteDeps[u] \in Int
      BY <2>1 DEF FactorInv, FTypes
    <3> QED
      BY <1>1, <2>1, <3>1
  <2> QED
    BY <2>2, <2>3, <2>4
<1>15. FactorCounts'
  <2> SUFFICES ASSUME NEW M \in Sup
               PROVE  /\ localDeps'[FACTOR(M)] = Cardinality(Missing(Own(M), M)')
                      /\ remoteDeps'[FACTOR(M)] = Cardinality(Awaited(M)')
                      /\ FACTOR(M) \in graph' <=> Missing(Own(M), M)' # {} \/ Awaited(M)' # {}
    BY DEF FactorCounts
  <2>1. /\ localDeps[FACTOR(M)] = Cardinality(Missing(Own(M), M))
        /\ remoteDeps[FACTOR(M)] = Cardinality(Awaited(M))
        /\ FACTOR(M) \in graph <=> Missing(Own(M), M) # {} \/ Awaited(M) # {}
    BY DEF FactorInv, FactorCounts
  <2>2. FACTOR(M) \in Tasks
    BY FactorTaskShape
  <2>3. Missing(Own(M), M)' = Missing(Own(M), M) /\ localDeps'[FACTOR(M)] = localDeps[FACTOR(M)]
    BY <1>1, <1>6, <2>2, ComputedSame
  <2>4. Awaited(M)' = {q \in Rank \ {Own(M)} : Sources(q, M) # {} /\ ~Added(q, M)'}
    BY DEF Awaited
  <2>5. CASE M # K
    <3>1. Awaited(M)' = Awaited(M)
      BY <1>9, <2>4, <2>5 DEF Awaited
    <3>2. FACTOR(M) # FACTOR(K)
      BY <2>5, NamesApart
    <3>3. remoteDeps'[FACTOR(M)] = remoteDeps[FACTOR(M)]
      BY <1>1, <2>1, <2>2, <3>2, AwaitedFacts
    <3>4. FACTOR(M) \in graph' <=> FACTOR(M) \in graph
      BY <1>1, <1>5, <3>2
    <3> QED
      BY <2>1, <2>3, <3>1, <3>3, <3>4
  <2>6. CASE M = K
    <3>1. Awaited(K)' = Awaited(K) \ {s}
      BY <1>9, <2>4, <2>6 DEF Awaited
    <3>2. s \in Awaited(K)
      BY <1>1 DEF Awaited, Sends
    <3>3. /\ Cardinality(Awaited(K)') = Cardinality(Awaited(K)) - 1
          /\ IsFiniteSet(Awaited(K)')
      BY <3>1, <3>2, AwaitedFacts, FS_RemoveElement
    <3>4. remoteDeps'[FACTOR(K)] = Cardinality(Awaited(K)')
      BY <1>1, <2>1, <2>2, <2>6, <3>3
    <3>5. /\ remoteDeps'[FACTOR(K)] = 0 <=> Awaited(K)' = {}
          /\ localDeps'[FACTOR(K)] = 0 <=> Missing(Own(K), K)' = {}
      BY <2>1, <2>3, <2>6, <3>3, <3>4, MissingFacts, FS_EmptySet
    <3>6. FACTOR(K) \in DueNow({FACTOR(K)}) <=> localDeps'[FACTOR(K)] = 0 /\ remoteDeps'[FACTOR(K)] = 0
      BY DEF DueNow
    <3> QED
      BY <1>1, <2>1, <2>3, <2>6, <3>4, <3>5, <3>6
  <2> QED
    BY <2>5, <2>6
<1>16. SumExact'
  <2> SUFFICES ASSUME NEW q \in Rank, NEW M \in Sup, NEW L \in Sup
               PROVE  sum'[q][M][L] = IF Holds(q, M, L)' THEN 1 ELSE 0
    BY DEF SumExact
  <2>1. sum[q][M][L] = IF Holds(q, M, L) THEN 1 ELSE 0
    BY DEF FactorInv, SumExact
  <2>2. sum'[q][M][L] = IF q = r /\ M = K THEN sum[q][M][L] + Whole(s, K)[L] ELSE sum[q][M][L]
    BY <1>1, <1>2 DEF FactorInv, FTypes
  <2>3. Whole(s, K)[L] = IF L \in Sources(s, K) THEN 1 ELSE 0
    BY DEF Whole
  <2>4. L \in Sources(s, K) <=> K \in Struct[L] /\ Updater(K, L) = s
    BY SourcesFacts
  <2>5. M \in Struct[L] => (Computed(L, M)' <=> Computed(L, M))
    BY <1>6 DEF SameComputed
  <2>6. Holds(q, M, L)' <=> Holds(q, M, L) \/ (q = r /\ M = K /\ L \in Sources(s, K))
    BY <1>1, <1>9, <1>10, <2>4, <2>5 DEF Holds
  <2>7. q = r /\ M = K /\ L \in Sources(s, K) => ~Holds(q, M, L)
    BY <1>1, <2>4 DEF Holds
  <2> QED
    BY <2>1, <2>2, <2>3, <2>6, <2>7
<1>17. TodoExact'
  BY <1>2, <1>6, ComputedSame DEF FactorInv, TodoExact
<1>18. CarrierExact'
  <2> SUFFICES ASSUME NEW L \in Sup, NEW M \in Struct[L], Carries(L, M)'
               PROVE  /\ Updater(M, L) # Own(M)
                      /\ Full(Updater(M, L), M)'
                      /\ \A N \in Sources(Updater(M, L), M) : Carries(N, M)' => N = L
                      /\ ~(AggMsg(L, M) \in Pend' /\ AGGREGATE(L, M) \in ready')
                      /\ AGGREGATE(L, M) \in ready' =>
                           AggMsg(L, M) \in DOMAIN got' /\ got'[AggMsg(L, M)] = Whole(Updater(M, L), M)
    BY DEF CarrierExact
  <2>1. /\ Updater(M, L) # Own(M)
        /\ Full(Updater(M, L), M)
        /\ \A N \in Sources(Updater(M, L), M) : Carries(N, M) => N = L
        /\ ~(AggMsg(L, M) \in Pend /\ AGGREGATE(L, M) \in ready)
        /\ AGGREGATE(L, M) \in ready =>
             AggMsg(L, M) \in DOMAIN got /\ got[AggMsg(L, M)] = Whole(Updater(M, L), M)
    BY <1>7 DEF FactorInv, CarrierExact
  <2>2. AGGREGATE(L, M) \in ready' => AggMsg(L, M)[2] # t
    BY <1>1, <1>7, AggShape, NamesApart
  <2>3. AGGREGATE(L, M) \in ready' =>
             AggMsg(L, M) \in DOMAIN got' /\ got'[AggMsg(L, M)] = Whole(Updater(M, L), M)
    BY <1>3, <1>7, <2>1, <2>2
  <2> QED
    BY <1>7, <1>8, <2>1, <2>3
<1>19. FreesExact'
  <2>1. ASSUME NEW f \in frees' PROVE Sends(f[1], f[2]) /\ Added(f[1], f[2])'
    <3>1. CASE f \in frees
      BY <1>9, <3>1 DEF FactorInv, FreesExact
    <3>2. CASE f = <<s, K>>
      BY <1>1, <1>9, <3>2
    <3> QED
      BY <1>2, <3>1, <3>2
  <2> QED
    BY <2>1 DEF FreesExact, Sends
<1>20. LentExact'
  <2>1. \A q \in Rank : Lent(q)' = Lent(q)
    BY <1>8, <1>10 DEF Lent, Sends
  <2> QED
    BY <1>2, <2>1 DEF FactorInv, LentExact
<1> QED
  BY <1>11, <1>12, <1>13, <1>14, <1>15, <1>16, <1>17, <1>18, <1>19, <1>20 DEF FactorInv

-----------------------------------------------------------------------------
(* The rpc that frees an aggregate.                                        *)

LEMMA FreeKeepsFactor ==
  ASSUME FactorInv, NEW f, FreeAggregate(f)
  PROVE  FactorInv'
<1>1. /\ f \in frees /\ frees' = frees \ {f}
      /\ remDealloc' = [remDealloc EXCEPT ![f[1]] = @ - 1]
      /\ sum' = [sum EXCEPT ![f[1]][f[2]] = Nothing]
      /\ UNCHANGED <<factored, todo>>
      /\ UNCHANGED <<graph, ready, localDeps, remoteDeps, net, async, blocking, got>>
  BY DEF FreeAggregate, runVars, graphVars, commVars
<1>2. PICK s \in Rank, K \in Sup : f = <<s, K>>
  BY <1>1 DEF FactorInv, FTypes
<1>3. /\ Sends(s, K) /\ Added(s, K) /\ ~Freed(s, K) /\ s # Own(K)
  BY <1>1, <1>2 DEF FactorInv, FreesExact, Freed, Sends
<1>4. Pend' = Pend
  BY <1>1, NoMoves
<1>5. \A t : Gone(t)' <=> Gone(t)
  BY <1>1 DEF Gone
<1>6. SameComputed
  BY <1>5 DEF SameComputed, Computed
<1>7. \A L, M : Carries(L, M)' <=> Carries(L, M)
  BY <1>1, <1>4 DEF Carries
<1>8. SameCarries /\ SameAdded
  BY <1>6, <1>7, AddedSame DEF SameCarries, SameAdded
<1>9. \A q, M : /\ Added(q, M)' <=> Added(q, M)
                /\ Full(q, M)' <=> Full(q, M)
                /\ Missing(q, M)' = Missing(q, M)
  BY <1>6, <1>8, AddedSame, ComputedSame
<1>10. \A q, M : Freed(q, M)' <=> Freed(q, M) \/ (q = s /\ M = K)
  <2> TAKE q, M
  <2>1. <<q, M>> = f <=> q = s /\ M = K
    BY <1>2
  <2> QED
    BY <1>1, <1>3, <1>9, <2>1 DEF Freed
<1>11. FTypes'
  <2>1. Nothing \in [Sup -> Int]
    BY DEF Nothing
  <2> QED
    BY <1>1, <1>2, <2>1 DEF FactorInv, FTypes
<1>12. FKinds'
  BY <1>1, <1>4 DEF FactorInv, FKinds, IsFirstMsg, IsAggMsg
<1>13. FactorStatus'
  BY <1>1, <1>5 DEF FactorInv, FactorStatus
<1>14. UpdateStatus'
  BY <1>1, <1>4 DEF FactorInv, UpdateStatus
<1>15. FactorCounts'
  BY <1>1, <1>8, <1>9, AwaitedSame DEF FactorInv, FactorCounts
<1>16. SumExact'
  <2> SUFFICES ASSUME NEW q \in Rank, NEW M \in Sup, NEW L \in Sup
               PROVE  sum'[q][M][L] = IF Holds(q, M, L)' THEN 1 ELSE 0
    BY DEF SumExact
  <2>1. sum[q][M][L] = IF Holds(q, M, L) THEN 1 ELSE 0
    BY DEF FactorInv, SumExact
  <2>2. sum'[q][M][L] = IF q = s /\ M = K THEN 0 ELSE sum[q][M][L]
    BY <1>1, <1>2 DEF FactorInv, FTypes, Nothing
  <2>3. M \in Struct[L] => (Computed(L, M)' <=> Computed(L, M))
    BY <1>6 DEF SameComputed
  <2>4. Holds(q, M, L)' <=> Holds(q, M, L) /\ ~(q = s /\ M = K)
    BY <1>3, <1>9, <1>10, <2>3 DEF Holds
  <2> QED
    BY <2>1, <2>2, <2>4
<1>17. TodoExact'
  BY <1>1, <1>9 DEF FactorInv, TodoExact
<1>18. CarrierExact'
  BY <1>1, <1>4, <1>7, <1>9 DEF FactorInv, CarrierExact
<1>19. FreesExact'
  BY <1>1, <1>9 DEF FactorInv, FreesExact, Sends
<1>20. LentExact'
  <2>1. K \in Lent(s)
    BY <1>3 DEF Lent, Added
  <2>2. \A q \in Rank : Lent(q)' = IF q = s THEN Lent(q) \ {K} ELSE Lent(q)
    BY <1>9, <1>10 DEF Lent, Sends
  <2>3. \A q \in Rank : IsFiniteSet(Lent(q))
    <3>1. IsFiniteSet(Sup)
      BY UpTo, DistributionAssumption DEF Sup
    <3> QED
      BY <3>1, FS_Subset DEF Lent
  <2>4. Cardinality(Lent(s) \ {K}) = Cardinality(Lent(s)) - 1
    BY <2>1, <2>3, FS_RemoveElement
  <2>5. \A q \in Rank : remDealloc'[q] = IF q = s THEN remDealloc[q] - 1 ELSE remDealloc[q]
    BY <1>1, <1>2 DEF FactorInv, FTypes
  <2>6. \A q \in Rank : remDealloc[q] = Cardinality(Lent(q))
    BY DEF FactorInv, LentExact
  <2> QED
    BY <2>2, <2>4, <2>5, <2>6 DEF LentExact
<1> QED
  BY <1>11, <1>12, <1>13, <1>14, <1>15, <1>16, <1>17, <1>18, <1>19, <1>20 DEF FactorInv

-----------------------------------------------------------------------------
(* A message of the factorization is handled.                              *)

LEMMA FirstMessageKeepsFactor ==
  ASSUME FactorInv, NEW m \in Pend, NEW data, NEW atOnce, IsFirstMsg(m), ~atOnce,
         Pend' = Pend \ {m}, Received(m, data, atOnce), UNCHANGED factorVars
  PROVE  FactorInv'
<1>0. /\ UNCHANGED <<factored, sum, todo, remDealloc, frees>>
      /\ localDeps \in [Tasks -> Int] /\ remoteDeps \in [Tasks -> Int]
  BY DEF factorVars, FactorInv, FTypes
<1>0a. PICK I \in Sup : m \in FactorMessages(I)
  BY DEF IsFirstMsg
<1>1. PICK t \in UpdateTasks(I) : m = <<I, t>> /\ RemoteOf(t) = 1 /\ LocalOf(t) = 0
  BY <1>0a, FirstMsgShape
<1>2. /\ \A k : k \in DOMAIN got => k = m \/ (k \in DOMAIN got' /\ got'[k] = got[k])
      /\ graph' = graph \ DueNow({t}) /\ ready' = ready \cup DueNow({t})
      /\ localDeps' = localDeps /\ remoteDeps' \in [Tasks -> Int]
      /\ \A u \in Tasks : remoteDeps'[u] = remoteDeps[u] - IF u = t THEN 1 ELSE 0
  <2>1. /\ \A k : /\ k \in DOMAIN got' <=> k \in DOMAIN got \/ k = m
                  /\ k \in DOMAIN got' => got'[k] = IF k = m THEN data ELSE got[k]
        /\ graph' = graph \ DueNow({m[2]})
        /\ ready' = ready \cup DueNow({m[2]})
        /\ localDeps' = localDeps
        /\ remoteDeps' \in [Tasks -> Int]
        /\ \A u \in Tasks : remoteDeps'[u] = remoteDeps[u] - IF u = m[2] THEN 1 ELSE 0
    <3>1. HasReceived(m, data, atOnce)
      BY <1>0, ReceivedEffects
    <3> QED
      BY <3>1 DEF HasReceived
  <2>2. m[2] = t /\ DueNow({m[2]}) = DueNow({t})
    BY <1>1
  <2> HIDE DEF DueNow
  <2> QED
    BY <2>1, <2>2
<1>3. /\ t \in graph /\ I \in factored /\ localDeps[t] = 0 /\ remoteDeps[t] = 1
      /\ t \in Tasks /\ t \in FactorTasks /\ ~IsSolve(t) /\ t[1] = "UPDATE"
  BY <1>1, UpdateTaskShape DEF FactorInv, UpdateStatus
<1>4. graph' = graph \ {t} /\ ready' = ready \cup {t}
  <2>1. DueNow({t}) = {t}
    BY <1>2, <1>3 DEF DueNow
  <2> QED
    BY <1>2, <2>1
<1>5. \A u : Gone(u)' <=> Gone(u)
  BY <1>3, <1>4 DEF Gone
<1>6. SameComputed
  BY <1>5 DEF SameComputed, Computed
<1>7. \A L, M : /\ AggMsg(L, M) \in Pend' <=> AggMsg(L, M) \in Pend
                /\ AGGREGATE(L, M) \in ready' <=> AGGREGATE(L, M) \in ready
                /\ Carries(L, M)' <=> Carries(L, M)
                /\ AggMsg(L, M) # m
  <2> TAKE L, M
  <2>1. AGGREGATE(L, M) # t /\ AggMsg(L, M) # m
    BY <1>1, <1>3, AggShape
  <2> QED
    BY <1>4, <2>1 DEF Carries
<1>8. SameCarries /\ SameAdded
  BY <1>6, <1>7, AddedSame DEF SameCarries, SameAdded
<1>9. \A q, M : /\ Added(q, M)' <=> Added(q, M)
                /\ Full(q, M)' <=> Full(q, M)
                /\ Missing(q, M)' = Missing(q, M)
  BY <1>6, <1>8, AddedSame, ComputedSame
<1>10. FTypes'
  BY <1>0, <1>2 DEF FactorInv, FTypes
<1>11. FKinds'
  BY <1>3, <1>4 DEF FactorInv, FKinds, IsFirstMsg, IsAggMsg
<1>12. FactorStatus'
  BY <1>0, <1>5 DEF FactorInv, FactorStatus
<1>13. UpdateStatus'
  <2> SUFFICES ASSUME NEW L \in Sup, NEW u \in UpdateTasks(L)
               PROVE  /\ localDeps'[u]  = IF u \in graph' THEN LocalOf(u) ELSE 0
                      /\ remoteDeps'[u] = IF u \in graph' THEN RemoteOf(u) ELSE 0
                      /\ u \in graph' <=> L \notin factored \/ <<L, u>> \in Pend'
                      /\ <<L, u>> \in Pend' => L \in factored
    BY <1>0 DEF UpdateStatus
  <2>1. /\ localDeps[u]  = IF u \in graph THEN LocalOf(u) ELSE 0
        /\ remoteDeps[u] = IF u \in graph THEN RemoteOf(u) ELSE 0
        /\ u \in graph <=> L \notin factored \/ <<L, u>> \in Pend
        /\ <<L, u>> \in Pend => L \in factored
    BY DEF FactorInv, UpdateStatus
  <2>2. u \in Tasks /\ u[2] = L /\ t[2] = I /\ remoteDeps[u] \in Int
    BY <1>0, <1>1, UpdateTaskShape
  <2>3. CASE u # t
    <3>1. <<L, u>> # m
      BY <1>1, <2>3
    <3>2. localDeps'[u] = localDeps[u] /\ remoteDeps'[u] = remoteDeps[u] - 0
      BY <1>2, <2>2, <2>3
    <3>3. <<L, u>> \in Pend' <=> <<L, u>> \in Pend
      BY <3>1
    <3> QED
      BY <1>4, <2>1, <2>2, <2>3, <3>2, <3>3
  <2>4. CASE u = t
    <3>1. <<L, u>> = m /\ L = I
      BY <1>1, <2>2, <2>4
    <3>2. localDeps'[u] = 0 /\ remoteDeps'[u] = 1 - 1
      BY <1>2, <1>3, <2>4
    <3> QED
      BY <1>3, <1>4, <2>4, <3>1, <3>2
  <2> QED
    BY <2>3, <2>4
<1>14. FactorCounts'
  <2>1. \A M \in Sup : FACTOR(M) # t /\ FACTOR(M) \in Tasks
    BY <1>3, FactorTaskShape
  <2>2. \A M \in Sup : /\ remoteDeps'[FACTOR(M)] = remoteDeps[FACTOR(M)]
                       /\ FACTOR(M) \in graph' <=> FACTOR(M) \in graph
    <3> SUFFICES ASSUME NEW M \in Sup
                 PROVE  /\ remoteDeps'[FACTOR(M)] = remoteDeps[FACTOR(M)]
                        /\ FACTOR(M) \in graph' <=> FACTOR(M) \in graph
      OBVIOUS
    <3>1. remoteDeps[FACTOR(M)] \in Int
      BY <1>0, <2>1
    <3>2. remoteDeps'[FACTOR(M)] = remoteDeps[FACTOR(M)] - 0
      BY <1>2, <2>1
    <3> QED
      BY <1>4, <2>1, <3>1, <3>2
  <2> QED
    BY <1>2, <1>8, <1>9, <2>2, AwaitedSame DEF FactorInv, FactorCounts
<1>15. SumExact'
  BY <1>0, <1>6, <1>8, HoldsSame DEF FactorInv, SumExact
<1>16. TodoExact'
  BY <1>0, <1>9 DEF FactorInv, TodoExact
<1>17. CarrierExact'
  <2> SUFFICES ASSUME NEW L \in Sup, NEW M \in Struct[L], Carries(L, M)
               PROVE  /\ Updater(M, L) # Own(M)
                      /\ Full(Updater(M, L), M)'
                      /\ \A N \in Sources(Updater(M, L), M) : Carries(N, M)' => N = L
                      /\ ~(AggMsg(L, M) \in Pend' /\ AGGREGATE(L, M) \in ready')
                      /\ AGGREGATE(L, M) \in ready' =>
                           AggMsg(L, M) \in DOMAIN got' /\ got'[AggMsg(L, M)] = Whole(Updater(M, L), M)
    BY <1>7 DEF CarrierExact
  <2>1. /\ Updater(M, L) # Own(M)
        /\ Full(Updater(M, L), M)
        /\ \A N \in Sources(Updater(M, L), M) : Carries(N, M) => N = L
        /\ ~(AggMsg(L, M) \in Pend /\ AGGREGATE(L, M) \in ready)
        /\ AGGREGATE(L, M) \in ready =>
             AggMsg(L, M) \in DOMAIN got /\ got[AggMsg(L, M)] = Whole(Updater(M, L), M)
    BY DEF FactorInv, CarrierExact
  <2> QED
    BY <1>2, <1>7, <1>9, <2>1
<1>18. FreesExact'
  BY <1>0, <1>9 DEF FactorInv, FreesExact, Sends
<1>19. LentExact'
  BY <1>0, <1>6, <1>8, LentSame DEF FactorInv, LentExact
<1> QED
  BY <1>10, <1>11, <1>12, <1>13, <1>14, <1>15, <1>16, <1>17, <1>18, <1>19 DEF FactorInv

LEMMA AggregateMessageKeepsFactor ==
  ASSUME FactorInv, NEW I \in Sup, NEW K \in Struct[I], Updater(K, I) # Own(K),
         NEW m, m = AggMsg(I, K), m \in Pend, Pend' = Pend \ {m},
         NEW data, data = sum[Updater(K, I)][K], NEW atOnce, atOnce,
         Received(m, data, atOnce), UNCHANGED factorVars
  PROVE  FactorInv'
<1> DEFINE s == Updater(K, I)
<1>0. /\ UNCHANGED <<factored, sum, todo, remDealloc, frees>>
      /\ localDeps \in [Tasks -> Int] /\ remoteDeps \in [Tasks -> Int]
  BY DEF factorVars, FactorInv, FTypes
<1>1. /\ \A k : /\ k \in DOMAIN got' <=> k \in DOMAIN got \/ k = m
                /\ k \in DOMAIN got' => got'[k] = IF k = m THEN data ELSE got[k]
      /\ ready' = ready \cup {AGGREGATE(I, K)}
      /\ UNCHANGED <<graph, localDeps, remoteDeps>>
  <2>1. /\ \A k : /\ k \in DOMAIN got' <=> k \in DOMAIN got \/ k = m
                  /\ k \in DOMAIN got' => got'[k] = IF k = m THEN data ELSE got[k]
        /\ ready' = ready \cup {m[2]}
        /\ UNCHANGED <<graph, localDeps, remoteDeps>>
    <3>1. HasReceived(m, data, atOnce)
      BY <1>0, ReceivedEffects
    <3> QED
      BY <3>1 DEF HasReceived
  <2> QED
    BY <2>1, AggShape
<1>2. K \in Sup /\ s \in Rank /\ I \in Sources(s, K) /\ AGGREGATE(I, K) \notin FactorTasks
      /\ ~IsSolve(AGGREGATE(I, K)) /\ m[2] = AGGREGATE(I, K)
  BY StructFacts, AggShape
<1>3. /\ Full(s, K) /\ Carries(I, K) /\ AGGREGATE(I, K) \notin ready
      /\ \A L \in Sources(s, K) : Carries(L, K) => L = I
  BY DEF FactorInv, CarrierExact, Carries
<1>4. ~Added(s, K)
  BY <1>2, <1>3 DEF Added
<1>5. AGGREGATE(I, K) \notin graph
  BY <1>2 DEF FactorInv, FKinds
<1>6. \A u : u # AGGREGATE(I, K) => (Gone(u)' <=> Gone(u))
  BY <1>1 DEF Gone
<1>7. SameComputed
  <2>1. \A L \in Sup : \A M \in Struct[L] : TaskFor(L, M) # AGGREGATE(I, K)
    BY <1>2, TaskForFacts, UpdateTaskShape
  <2> QED
    BY <1>6, <2>1 DEF SameComputed, Computed
<1>8. \A L, M : /\ AggMsg(L, M) \in Pend' <=> AggMsg(L, M) \in Pend /\ ~(L = I /\ M = K)
                /\ AGGREGATE(L, M) \in ready' <=> AGGREGATE(L, M) \in ready \/ (L = I /\ M = K)
                /\ Carries(L, M)' <=> Carries(L, M)
  <2> TAKE L, M
  <2>1. /\ AggMsg(L, M) = m <=> L = I /\ M = K
        /\ AGGREGATE(L, M) = AGGREGATE(I, K) <=> L = I /\ M = K
    BY NamesApart
  <2> QED
    BY <1>1, <1>3, <2>1 DEF Carries
<1>9. SameCarries /\ SameAdded
  BY <1>7, <1>8, AddedSame DEF SameCarries, SameAdded
<1>10. \A q, M : /\ Added(q, M)' <=> Added(q, M)
                 /\ Full(q, M)' <=> Full(q, M)
                 /\ Missing(q, M)' = Missing(q, M)
  BY <1>7, <1>9, AddedSame, ComputedSame
<1>11. sum[s][K] = Whole(s, K)
  <2>1. sum[s][K] \in [Sup -> Int]
    BY <1>2 DEF FactorInv, FTypes
  <2>2. \A L \in Sup : sum[s][K][L] = IF L \in Sources(s, K) THEN 1 ELSE 0
    <3> SUFFICES ASSUME NEW L \in Sup
                 PROVE  Holds(s, K, L) <=> L \in Sources(s, K)
      BY <1>2 DEF FactorInv, SumExact
    <3>1. L \in Sources(s, K) <=> K \in Struct[L] /\ Updater(K, L) = s
      BY SourcesFacts
    <3>2. L \in Sources(s, K) => Computed(L, K)
      BY <1>3 DEF Full
    <3>3. ~Freed(s, K)
      BY <1>4 DEF Freed
    <3> QED
      BY <3>1, <3>2, <3>3 DEF Holds
  <2> QED
    BY <2>1, <2>2 DEF Whole
<1>12. FTypes'
  BY <1>0, <1>1 DEF FactorInv, FTypes
<1>13. FKinds'
  <2>1. \A t \in graph' : ~IsSolve(t) => t \in FactorTasks /\ t \notin ready'
    BY <1>1, <1>5 DEF FactorInv, FKinds
  <2>2. \A t \in ready' : ~IsSolve(t) =>
          t \in FactorTasks \/ \E L \in Sup : \E M \in Struct[L] :
                                  Updater(M, L) # Own(M) /\ t = AGGREGATE(L, M)
    BY <1>1 DEF FactorInv, FKinds
  <2>3. \A k \in Pend' : ~IsSolve(k[2]) => IsFirstMsg(k) \/ IsAggMsg(k)
    BY DEF FactorInv, FKinds
  <2> QED
    BY <2>1, <2>2, <2>3 DEF FKinds, IsAggMsg, IsFirstMsg
<1>14. FactorStatus'
  <2>1. \A M \in Sup : FACTOR(M) # AGGREGATE(I, K)
    BY NamesApart
  <2> QED
    BY <1>0, <1>6, <2>1 DEF FactorInv, FactorStatus
<1>15. UpdateStatus'
  <2>1. \A L \in Sup : \A u \in UpdateTasks(L) : <<L, u>> # m
    BY <1>2, UpdateTaskShape
  <2> QED
    BY <1>0, <1>1, <2>1 DEF FactorInv, UpdateStatus
<1>16. FactorCounts'
  BY <1>1, <1>9, <1>10, AwaitedSame DEF FactorInv, FactorCounts
<1>17. SumExact'
  BY <1>0, <1>7, <1>9, HoldsSame DEF FactorInv, SumExact
<1>18. TodoExact'
  BY <1>0, <1>10 DEF FactorInv, TodoExact
<1>19. CarrierExact'
  <2> SUFFICES ASSUME NEW L \in Sup, NEW M \in Struct[L], Carries(L, M)
               PROVE  /\ Updater(M, L) # Own(M)
                      /\ Full(Updater(M, L), M)'
                      /\ \A N \in Sources(Updater(M, L), M) : Carries(N, M)' => N = L
                      /\ ~(AggMsg(L, M) \in Pend' /\ AGGREGATE(L, M) \in ready')
                      /\ AGGREGATE(L, M) \in ready' =>
                           AggMsg(L, M) \in DOMAIN got' /\ got'[AggMsg(L, M)] = Whole(Updater(M, L), M)
    BY <1>8 DEF CarrierExact
  <2>1. /\ Updater(M, L) # Own(M)
        /\ Full(Updater(M, L), M)
        /\ \A N \in Sources(Updater(M, L), M) : Carries(N, M) => N = L
        /\ ~(AggMsg(L, M) \in Pend /\ AGGREGATE(L, M) \in ready)
        /\ AGGREGATE(L, M) \in ready =>
             AggMsg(L, M) \in DOMAIN got /\ got[AggMsg(L, M)] = Whole(Updater(M, L), M)
    BY DEF FactorInv, CarrierExact
  <2>2. ~(AggMsg(L, M) \in Pend' /\ AGGREGATE(L, M) \in ready')
    BY <1>8, <2>1
  <2>3. AGGREGATE(L, M) \in ready' =>
          AggMsg(L, M) \in DOMAIN got' /\ got'[AggMsg(L, M)] = Whole(Updater(M, L), M)
    <3>1. CASE L = I /\ M = K
      BY <1>1, <1>11, <3>1
    <3>2. CASE ~(L = I /\ M = K)
      <4>1. AggMsg(L, M) # m
        BY <3>2, NamesApart
      <4> QED
        BY <1>1, <1>8, <2>1, <3>2, <4>1
    <3> QED
      BY <3>1, <3>2
  <2> QED
    BY <1>8, <1>10, <2>1, <2>2, <2>3
<1>20. FreesExact'
  BY <1>0, <1>10 DEF FactorInv, FreesExact, Sends
<1>21. LentExact'
  BY <1>0, <1>7, <1>9, LentSame DEF FactorInv, LentExact
<1> QED
  BY <1>12, <1>13, <1>14, <1>15, <1>16, <1>17, <1>18, <1>19, <1>20, <1>21 DEF FactorInv

-----------------------------------------------------------------------------
(* The solve: its messages, and what its tasks still wait for.             *)

(* The message of a child to its parent, and the one of a parent to the    *)
(* first child on rank q, which hands it on; the ranks that get one; what  *)
(* the backward phase of a supernode starts with.                          *)
Up(c)       == <<c, FUC(Parent(c))>>
FirstOn(q, P) == HighestOf(ChildrenOn(q, P))
Down(q, P)  == <<P, BU(P, FirstOn(q, P))>>
Others(P)   == {Own(c) : c \in RemChildren(P)}
Before(I)   == IF IsRoot(I) THEN FUC(I) ELSE BU(Parent(I), I)

(* The contributions of c, or the solution of P, have not come.            *)
NotUp(c)      == Waits(FUC(c)) \/ Up(c) \in Pend
NotDown(q, P) == Waits(BUC(P)) \/ Down(q, P) \in Pend

(* The rows of P have not come to the task of I: not to its rank, or they  *)
(* are still with a sibling that gets them before I does.                  *)
Blocks(P, I) ==
  \/ NotDown(Own(I), P)
  \/ \E c \in ChildrenOn(Own(I), P) : c > I /\ Waits(BU(P, c))

(* The messages of the solve.                                              *)
IsUp(m)   == \E c \in Sup : ~IsRoot(c) /\ Own(Parent(c)) # Own(c) /\ m = Up(c)
IsDown(m) == \E P \in Sup : \E q \in Others(P) : m = Down(q, P)

(* The tasks and messages there are; one that waits is not ready.          *)
SolveKinds ==
  /\ localDeps \in [Tasks -> Int] /\ remoteDeps \in [Tasks -> Int]
  /\ \A t \in graph \cup ready : IsSolve(t) => t \in SolveTasks
  /\ \A t \in SolveTasks : ~(t \in graph /\ t \in ready)
  /\ \A m \in Pend : IsSolve(m[2]) => IsUp(m) \/ IsDown(m)

(* Nothing is announced before it is there.                                *)
SentAfter ==
  /\ \A P \in Sup : \A c \in RemChildren(P) : Up(c) \in Pend => ~Waits(FUC(c))
  /\ \A P \in Sup : \A q \in Others(P) : Down(q, P) \in Pend => ~Waits(BUC(P))

(* The counts, one kind of task after the other.                           *)
FUCCounts ==
  \A I \in Sup :
    /\ localDeps[FUC(I)] = Cardinality({c \in LocalChildren(I) : Waits(FUC(c))})
    /\ remoteDeps[FUC(I)] = Cardinality({c \in RemChildren(I) : NotUp(c)})

BUCCounts ==
  \A I \in Sup :
    /\ localDeps[BUC(I)] = IF Waits(Before(I)) THEN 1 ELSE 0
    /\ remoteDeps[BUC(I)] = 0

BUCounts ==
  \A I \in Sup : ~IsRoot(I) =>
    LET P == Parent(I)  t == BU(P, I) IN
    IF Own(P) = Own(I)
    THEN localDeps[t] = (IF Waits(BUC(P)) THEN 1 ELSE 0) /\ remoteDeps[t] = 0
    ELSE localDeps[t] = 0 /\ remoteDeps[t] = (IF Blocks(P, I) THEN 1 ELSE 0)

SolveStatus ==
  \A t \in SolveTasks : call[RankOf(t)] = 2 =>
    (t \in graph <=> localDeps[t] # 0 \/ remoteDeps[t] # 0)

(* What has been read for a task is kept until the task has run.           *)
GotExact ==
  /\ \A I \in Sup : \A c \in RemChildren(I) :
       Waits(FUC(I)) => (Up(c) \in DOMAIN got <=> ~NotUp(c))
  /\ \A P \in Sup : \A q \in Others(P) :
       Waits(BU(P, FirstOn(q, P))) => (Down(q, P) \in DOMAIN got <=> ~NotDown(q, P))

(* Nothing is kept for a task that is gone.                                *)
GotOnly ==
  /\ got = [m \in DOMAIN got |-> got[m]]
  /\ \A m \in DOMAIN got : m[2] \in graph \cup ready

SolveCounts == SentAfter /\ FUCCounts /\ BUCCounts /\ BUCounts /\ GotExact
SolveInv    == SolveKinds /\ SolveCounts /\ SolveStatus

-----------------------------------------------------------------------------
(* The supernodal tree.                                                    *)

LEMMA TreeFacts ==
  ASSUME NEW P
  PROVE  /\ \A c \in Children(P) :
              /\ c \in Sup /\ ~IsRoot(c) /\ Parent(c) = P /\ P \in Sup /\ P > c
              /\ Own(c) \in Rank
         /\ IsFiniteSet(Children(P)) /\ Children(P) \subseteq Sup
         /\ \A c \in Sup : ~IsRoot(c) /\ Parent(c) = P => c \in Children(P)
<1>1. ASSUME NEW c \in Children(P)
      PROVE  /\ c \in Sup /\ ~IsRoot(c) /\ Parent(c) = P /\ P \in Sup /\ P > c
             /\ Own(c) \in Rank
  <2>1. c \in Sup /\ ~IsRoot(c) /\ Parent(c) = P
    BY DEF Children
  <2>2. Struct[c] \subseteq Sup /\ Struct[c] # {}
    BY <2>1, DistributionAssumption DEF IsRoot
  <2>3. P \in Struct[c]
    BY <2>1, <2>2, LowestIsLeast DEF Parent
  <2>4. P > c /\ P \in Sup
    BY <2>1, <2>3, DistributionAssumption
  <2> QED
    BY <2>1, <2>4, OwnersAreRanks
<1>2. IsFiniteSet(Children(P)) /\ Children(P) \subseteq Sup
  BY UpTo, DistributionAssumption, FS_Subset DEF Sup, Children
<1> QED
  BY <1>1, <1>2 DEF Children

LEMMA BranchFacts ==
  ASSUME NEW P
  PROVE  /\ \A q : ChildrenOn(q, P) \subseteq Children(P) /\ IsFiniteSet(ChildrenOn(q, P))
         /\ \A c : c \in LocalChildren(P) <=> c \in Children(P) /\ Own(c) = Own(P)
         /\ \A c : c \in RemChildren(P) <=> c \in Children(P) /\ Own(c) # Own(P)
         /\ IsFiniteSet(LocalChildren(P)) /\ IsFiniteSet(RemChildren(P))
<1>1. \A q : ChildrenOn(q, P) \subseteq Children(P) /\ IsFiniteSet(ChildrenOn(q, P))
  BY TreeFacts, FS_Subset DEF ChildrenOn
<1>2. /\ \A c : c \in LocalChildren(P) <=> c \in Children(P) /\ Own(c) = Own(P)
      /\ \A c : c \in RemChildren(P) <=> c \in Children(P) /\ Own(c) # Own(P)
  BY DEF LocalChildren, RemChildren, ChildrenOn
<1>3. IsFiniteSet(LocalChildren(P)) /\ IsFiniteSet(RemChildren(P))
  BY TreeFacts, FS_Subset DEF LocalChildren, RemChildren, ChildrenOn
<1> QED
  BY <1>1, <1>2, <1>3

LEMMA FirstFacts ==
  ASSUME NEW P, NEW q, ChildrenOn(q, P) # {}
  PROVE  /\ FirstOn(q, P) \in ChildrenOn(q, P) /\ FirstOn(q, P) \in Children(P)
         /\ Own(FirstOn(q, P)) = q
         /\ \A c \in ChildrenOn(q, P) : FirstOn(q, P) >= c
<1>1. ChildrenOn(q, P) \subseteq Sup
  BY TreeFacts, BranchFacts
<1>2. /\ FirstOn(q, P) \in ChildrenOn(q, P)
      /\ \A c \in ChildrenOn(q, P) : FirstOn(q, P) >= c
  BY <1>1, HighestIsGreatest DEF FirstOn
<1> QED
  BY <1>2 DEF ChildrenOn

LEMMA OthersFacts ==
  ASSUME NEW P, NEW q \in Others(P)
  PROVE  /\ ChildrenOn(q, P) # {} /\ q # Own(P) /\ P \in Sup
         /\ FirstOn(q, P) \in RemChildren(P)
         /\ FirstOn(q, P) \in Sup /\ ~IsRoot(FirstOn(q, P)) /\ Parent(FirstOn(q, P)) = P
<1>1. PICK c \in RemChildren(P) : q = Own(c)
  BY DEF Others
<1>2. c \in Children(P) /\ q # Own(P) /\ P \in Sup
  BY <1>1, BranchFacts, TreeFacts
<1>3. ChildrenOn(q, P) # {}
  BY <1>1, <1>2 DEF ChildrenOn
<1>4. FirstOn(q, P) \in Children(P) /\ Own(FirstOn(q, P)) = q
  BY <1>3, FirstFacts
<1> QED
  BY <1>2, <1>3, <1>4, BranchFacts, TreeFacts

LEMMA SolveNames ==
  /\ \A I, K : FUC(I) = FUC(K) => I = K
  /\ \A I, K : BUC(I) = BUC(K) => I = K
  /\ \A I, K, P, Q : BU(P, I) = BU(Q, K) => P = Q /\ I = K
  /\ \A I, K : FUC(I) # BUC(K)
  /\ \A I, K, P : FUC(I) # BU(P, K) /\ BUC(I) # BU(P, K)
  /\ \A I, P : /\ IsSolve(FUC(I)) /\ IsSolve(BUC(I)) /\ IsSolve(BU(P, I))
               /\ RankOf(FUC(I)) = Own(I) /\ RankOf(BUC(I)) = Own(I)
               /\ RankOf(BU(P, I)) = Own(I)
  /\ \A I, K : Up(I) = Up(K) => I = K
  /\ \A I, P, q : Up(I) # Down(q, P)
  /\ \A I, P, q : /\ Up(I)[2] = FUC(Parent(I)) /\ Down(q, P)[2] = BU(P, FirstOn(q, P))
                  /\ Up(I)[1] = I /\ Down(q, P)[1] = P
  BY DEF FUC, BUC, BU, IsSolve, RankOf, Up, Down

LEMMA DownNames ==
  ASSUME NEW P, NEW Q, NEW p \in Others(P), NEW q \in Others(Q), Down(p, P) = Down(q, Q)
  PROVE  P = Q /\ p = q
<1>1. P = Q /\ FirstOn(p, P) = FirstOn(q, Q)
  BY DEF Down, BU
<1>2. Own(FirstOn(p, P)) = p /\ Own(FirstOn(q, Q)) = q
  BY OthersFacts, FirstFacts
<1> QED
  BY <1>1, <1>2

LEMMA SolveMembers ==
  /\ \A I \in Sup : /\ FUC(I) \in SolveTasks /\ BUC(I) \in SolveTasks
                    /\ ~IsRoot(I) => BU(Parent(I), I) \in SolveTasks /\ Parent(I) \in Sup
                    /\ Before(I) \in SolveTasks
  /\ \A P : \A c \in Children(P) : /\ FUC(c) \in SolveTasks /\ BU(P, c) \in SolveTasks
                                   /\ P \in Sup /\ FUC(P) \in SolveTasks /\ BUC(P) \in SolveTasks
  /\ \A t \in SolveTasks : /\ t \in Tasks /\ t \in AnyTask /\ IsSolve(t) /\ RankOf(t) \in Rank
                           /\ t \notin FactorTasks
<1>1. \A I \in Sup : /\ FUC(I) \in SolveTasks /\ BUC(I) \in SolveTasks
                     /\ ~IsRoot(I) => BU(Parent(I), I) \in SolveTasks /\ Parent(I) \in Sup
                     /\ Before(I) \in SolveTasks
  BY ParentIsSup DEF SolveTasks, Before
<1>2. ASSUME NEW P, NEW c \in Children(P)
      PROVE  /\ FUC(c) \in SolveTasks /\ BU(P, c) \in SolveTasks
             /\ P \in Sup /\ FUC(P) \in SolveTasks /\ BUC(P) \in SolveTasks
  <2>1. c \in Sup /\ ~IsRoot(c) /\ Parent(c) = P /\ P \in Sup
    BY TreeFacts
  <2>2. /\ FUC(c) \in SolveTasks /\ BU(Parent(c), c) \in SolveTasks
        /\ FUC(P) \in SolveTasks /\ BUC(P) \in SolveTasks
    BY <1>1, <2>1
  <2> QED
    BY <2>1, <2>2
<1>3. \A t \in SolveTasks : IsSolve(t)
  BY SolveNames DEF SolveTasks
<1>4. \A t \in SolveTasks : /\ t \in Tasks /\ t \in AnyTask /\ RankOf(t) \in Rank
                            /\ t \notin FactorTasks
  BY <1>3, TasksTyped, TaskType DEF Tasks
<1> QED
  BY <1>1, <1>2, <1>3, <1>4

LEMMA SolveTaskCases ==
  ASSUME NEW t \in SolveTasks
  PROVE  \/ \E I \in Sup : t = FUC(I)
         \/ \E I \in Sup : t = BUC(I)
         \/ \E I \in Sup : ~IsRoot(I) /\ t = BU(Parent(I), I)
  BY DEF SolveTasks

LEMMA UpIs ==
  ASSUME NEW P, NEW c \in RemChildren(P)
  PROVE  /\ IsUp(Up(c)) /\ Up(c) = <<c, FUC(P)>> /\ c \in Sup /\ ~IsRoot(c)
         /\ Parent(c) = P /\ P \in Sup /\ Own(c) # Own(P) /\ c \in Children(P)
  BY BranchFacts, TreeFacts DEF IsUp, Up

LEMMA DownIs ==
  ASSUME NEW P, NEW q \in Others(P)
  PROVE  IsDown(Down(q, P))
  BY OthersFacts DEF IsDown

-----------------------------------------------------------------------------
(* Steps that do not touch the solve.                                      *)

SolveUntouched ==
  /\ \A t : IsSolve(t) => /\ t \in graph' <=> t \in graph
                          /\ t \in ready' <=> t \in ready
  /\ \A m : IsSolve(m[2]) => /\ m \in Pend' <=> m \in Pend
                             /\ m \in DOMAIN got' <=> m \in DOMAIN got
  /\ \A t \in Tasks : IsSolve(t) => /\ localDeps'[t] = localDeps[t]
                                    /\ remoteDeps'[t] = remoteDeps[t]
  /\ localDeps' \in [Tasks -> Int] /\ remoteDeps' \in [Tasks -> Int]
  /\ UNCHANGED call

(* Nothing that the counts depend on has changed.                          *)
SolveSame ==
  /\ \A t \in SolveTasks : /\ Waits(t)' <=> Waits(t)
                           /\ localDeps'[t] = localDeps[t]
                           /\ remoteDeps'[t] = remoteDeps[t]
  /\ \A m : IsUp(m) \/ IsDown(m) => /\ m \in Pend' <=> m \in Pend
                                    /\ m \in DOMAIN got' <=> m \in DOMAIN got

LEMMA SameKeepsCounts ==
  ASSUME SolveCounts, SolveSame
  PROVE  SolveCounts'
<1>1. \A I \in Sup : /\ Waits(FUC(I))' <=> Waits(FUC(I))
                     /\ Waits(BUC(I))' <=> Waits(BUC(I))
                     /\ Waits(Before(I))' <=> Waits(Before(I))
                     /\ ~IsRoot(I) => (Waits(BU(Parent(I), I))' <=> Waits(BU(Parent(I), I)))
  BY SolveMembers DEF SolveSame
<1>2. ASSUME NEW P, NEW c \in Children(P)
      PROVE  /\ Waits(FUC(c))' <=> Waits(FUC(c))
             /\ Waits(BU(P, c))' <=> Waits(BU(P, c))
             /\ Waits(BUC(P))' <=> Waits(BUC(P))
  BY SolveMembers DEF SolveSame
<1>3. ASSUME NEW P, NEW c \in RemChildren(P)
      PROVE  /\ Up(c) \in Pend' <=> Up(c) \in Pend
             /\ Up(c) \in DOMAIN got' <=> Up(c) \in DOMAIN got
             /\ NotUp(c)' <=> NotUp(c)
  <2>1. /\ Up(c) \in Pend' <=> Up(c) \in Pend
        /\ Up(c) \in DOMAIN got' <=> Up(c) \in DOMAIN got
    BY UpIs DEF SolveSame
  <2>2. Waits(FUC(c))' <=> Waits(FUC(c))
    BY <1>2, UpIs
  <2> QED
    BY <2>1, <2>2 DEF NotUp, Up
<1>4. ASSUME NEW P, NEW q \in Others(P)
      PROVE  /\ Down(q, P) \in Pend' <=> Down(q, P) \in Pend
             /\ Down(q, P) \in DOMAIN got' <=> Down(q, P) \in DOMAIN got
             /\ NotDown(q, P)' <=> NotDown(q, P)
             /\ Waits(BU(P, FirstOn(q, P)))' <=> Waits(BU(P, FirstOn(q, P)))
  <2>1. /\ Down(q, P) \in Pend' <=> Down(q, P) \in Pend
        /\ Down(q, P) \in DOMAIN got' <=> Down(q, P) \in DOMAIN got
    BY DownIs DEF SolveSame
  <2>2. FirstOn(q, P) \in Children(P)
    BY OthersFacts, UpIs
  <2> QED
    BY <1>2, <2>1, <2>2 DEF NotDown, Down, FirstOn
<1>5. SentAfter'
  BY <1>2, <1>3, <1>4, UpIs, OthersFacts, <1>1 DEF SolveCounts, SentAfter
<1>6. FUCCounts'
  <2> SUFFICES ASSUME NEW I \in Sup
               PROVE  /\ localDeps'[FUC(I)] = Cardinality({c \in LocalChildren(I) : Waits(FUC(c))'})
                      /\ remoteDeps'[FUC(I)] = Cardinality({c \in RemChildren(I) : NotUp(c)'})
    BY DEF FUCCounts, FUC
  <2>1. {c \in LocalChildren(I) : Waits(FUC(c))'} = {c \in LocalChildren(I) : Waits(FUC(c))}
    BY <1>2, BranchFacts
  <2>2. {c \in RemChildren(I) : NotUp(c)'} = {c \in RemChildren(I) : NotUp(c)}
    BY <1>3
  <2>3. localDeps'[FUC(I)] = localDeps[FUC(I)] /\ remoteDeps'[FUC(I)] = remoteDeps[FUC(I)]
    BY SolveMembers DEF SolveSame
  <2> QED
    BY <2>1, <2>2, <2>3 DEF SolveCounts, FUCCounts
<1>7. BUCCounts'
  <2>1. \A I \in Sup : localDeps'[BUC(I)] = localDeps[BUC(I)] /\ remoteDeps'[BUC(I)] = remoteDeps[BUC(I)]
    BY SolveMembers DEF SolveSame
  <2> QED
    BY <1>1, <2>1 DEF SolveCounts, BUCCounts, BUC, Before
<1>8. BUCounts'
  <2> SUFFICES ASSUME NEW I \in Sup, ~IsRoot(I), NEW P, P = Parent(I), NEW t, t = BU(P, I)
               PROVE  IF Own(P) = Own(I)
                      THEN localDeps'[t] = (IF Waits(BUC(P))' THEN 1 ELSE 0) /\ remoteDeps'[t] = 0
                      ELSE localDeps'[t] = 0 /\ remoteDeps'[t] = (IF Blocks(P, I)' THEN 1 ELSE 0)
    BY DEF BUCounts
  <2>1. localDeps'[t] = localDeps[t] /\ remoteDeps'[t] = remoteDeps[t]
    BY SolveMembers DEF SolveSame
  <2>2. I \in Children(P)
    BY TreeFacts
  <2>3. Waits(BUC(P))' <=> Waits(BUC(P))
    BY <1>2, <2>2
  <2>4. Own(P) # Own(I) => (Blocks(P, I)' <=> Blocks(P, I))
    <3> SUFFICES ASSUME Own(P) # Own(I) PROVE Blocks(P, I)' <=> Blocks(P, I)
      OBVIOUS
    <3>1. Own(I) \in Others(P)
      BY <2>2, BranchFacts DEF Others
    <3>2. NotDown(Own(I), P)' <=> NotDown(Own(I), P)
      BY <1>4, <3>1
    <3>3. \A c \in ChildrenOn(Own(I), P) : Waits(BU(P, c))' <=> Waits(BU(P, c))
      BY <1>2, BranchFacts
    <3> QED
      BY <3>2, <3>3 DEF Blocks
  <2> QED
    BY <2>1, <2>3, <2>4 DEF SolveCounts, BUCounts
<1>9. GotExact'
  BY <1>1, <1>3, <1>4, OthersFacts DEF SolveCounts, GotExact
<1> QED
  BY <1>5, <1>6, <1>7, <1>8, <1>9 DEF SolveCounts

LEMMA UntouchedKeepsSolve ==
  ASSUME SolveInv, SolveUntouched
  PROVE  SolveInv'
<1>1. \A t \in SolveTasks : /\ t \in graph' <=> t \in graph
                            /\ t \in ready' <=> t \in ready
                            /\ Waits(t)' <=> Waits(t)
                            /\ localDeps'[t] = localDeps[t]
                            /\ remoteDeps'[t] = remoteDeps[t]
  BY SolveMembers DEF SolveUntouched, Waits, Unexecuted
<1>2. \A m : IsUp(m) \/ IsDown(m) => IsSolve(m[2])
  BY SolveNames DEF IsUp, IsDown
<1>3. SolveSame
  BY <1>1, <1>2 DEF SolveSame, SolveUntouched
<1>4. SolveCounts'
  BY <1>3, SameKeepsCounts DEF SolveInv
<1>5. SolveKinds'
  BY <1>1 DEF SolveInv, SolveKinds, SolveUntouched, IsUp, IsDown, Up, Down
<1>6. SolveStatus'
  BY <1>1 DEF SolveInv, SolveStatus, SolveUntouched
<1> QED
  BY <1>4, <1>5, <1>6 DEF SolveInv

-----------------------------------------------------------------------------
(* A task of either call runs.                                             *)

LEMMA RunKeepsGot ==
  ASSUME GotOnly, NEW r \in Rank, NEW t, NEW local, NEW remote, NEW sent, NEW handed,
         Run(r, t, local, remote, sent, handed), HasRun(r, t, local, remote, sent),
         local \cup remote \subseteq graph, t \notin graph,
         \A m \in DOMAIN handed : m[2] \in graph
  PROVE  GotOnly'
<1>1. \A m : m \in DOMAIN got' <=> (m \in DOMAIN got /\ m[2] # t) \/ m \in DOMAIN handed
  BY GotAfterRun
<1>2. got' = [m \in DOMAIN got' |-> got'[m]]
  <2>1. got' = [m \in {k \in DOMAIN got : k[2] # t} \cup DOMAIN handed |->
               IF m \in DOMAIN handed THEN handed[m] ELSE got[m]]
    BY DEF Run
  <2> QED
    BY <2>1
<1>3. \A u : u \in graph \cup ready /\ u # t => u \in graph' \cup ready'
  BY DEF HasRun
<1> QED
  BY <1>1, <1>2, <1>3 DEF GotOnly

(* A solve task and the factorization, a factor task and the solve.        *)
LEMMA SolveRunUntouched ==
  ASSUME NEW r \in Rank, NEW t, NEW local, NEW remote, NEW sent, NEW handed,
         Run(r, t, local, remote, sent, handed), HasRun(r, t, local, remote, sent),
         localDeps \in [Tasks -> Int], remoteDeps \in [Tasks -> Int],
         IsSolve(t), \A u \in local \cup remote : IsSolve(u),
         \A m \in sent \cup DOMAIN handed : IsSolve(m[2]),
         UNCHANGED factorVars
  PROVE  FactorUntouched
<1>1. \A m : /\ m \in DOMAIN got' <=> (m \in DOMAIN got /\ m[2] # t) \/ m \in DOMAIN handed
             /\ m \in DOMAIN got' => got'[m] = IF m \in DOMAIN handed THEN handed[m] ELSE got[m]
  BY GotAfterRun
<1>2. \A u : ~IsSolve(u) => u # t /\ u \notin local /\ u \notin remote /\ u \notin DueNow(local \cup remote)
  BY DEF DueNow
<1>3. \A u : ~IsSolve(u) => /\ u \in graph' <=> u \in graph
                            /\ u \in ready' <=> u \in ready
  BY <1>2 DEF HasRun
<1>4. \A u \in Tasks : ~IsSolve(u) => localDeps'[u] = localDeps[u] /\ remoteDeps'[u] = remoteDeps[u]
  <2>1. \A u \in Tasks : localDeps[u] \in Int /\ remoteDeps[u] \in Int
    OBVIOUS
  <2>2. \A u \in Tasks : ~IsSolve(u) => localDeps'[u] = localDeps[u] - 0 /\ remoteDeps'[u] = remoteDeps[u] - 0
    BY <1>2 DEF HasRun
  <2> QED
    BY <2>1, <2>2
<1>5. \A m : ~IsSolve(m[2]) => /\ m \in Pend' <=> m \in Pend
                               /\ m \in DOMAIN got => m \in DOMAIN got' /\ got'[m] = got[m]
  BY <1>1, <1>2 DEF HasRun
<1> QED
  BY <1>3, <1>4, <1>5 DEF FactorUntouched, HasRun

LEMMA FactorRunUntouched ==
  ASSUME NEW r \in Rank, NEW t, NEW local, NEW remote, NEW sent,
         Run(r, t, local, remote, sent, <<>>), HasRun(r, t, local, remote, sent),
         localDeps \in [Tasks -> Int], remoteDeps \in [Tasks -> Int],
         ~IsSolve(t), \A u \in local \cup remote : ~IsSolve(u),
         \A m \in sent : ~IsSolve(m[2])
  PROVE  SolveUntouched
<1>1. \A m : m \in DOMAIN got' <=> (m \in DOMAIN got /\ m[2] # t)
  <2>1. \A m : /\ m \in DOMAIN got' <=> (m \in DOMAIN got /\ m[2] # t) \/ m \in DOMAIN <<>>
               /\ m \in DOMAIN got' => got'[m] = IF m \in DOMAIN <<>> THEN (<<>>)[m] ELSE got[m]
    BY GotAfterRun
  <2>2. DOMAIN <<>> = {}
    OBVIOUS
  <2> QED
    BY <2>1, <2>2
<1>2. \A u : IsSolve(u) => u # t /\ u \notin local /\ u \notin remote /\ u \notin DueNow(local \cup remote)
  BY DEF DueNow
<1>3. \A u : IsSolve(u) => /\ u \in graph' <=> u \in graph
                           /\ u \in ready' <=> u \in ready
  BY <1>2 DEF HasRun
<1>4. \A u \in Tasks : IsSolve(u) => localDeps'[u] = localDeps[u] /\ remoteDeps'[u] = remoteDeps[u]
  <2>1. \A u \in Tasks : localDeps[u] \in Int /\ remoteDeps[u] \in Int
    OBVIOUS
  <2>2. \A u \in Tasks : IsSolve(u) => localDeps'[u] = localDeps[u] - 0 /\ remoteDeps'[u] = remoteDeps[u] - 0
    BY <1>2 DEF HasRun
  <2> QED
    BY <2>1, <2>2
<1>5. \A m : IsSolve(m[2]) => /\ m \in Pend' <=> m \in Pend
                              /\ m \in DOMAIN got' <=> m \in DOMAIN got
  BY <1>1, <1>2 DEF HasRun
<1> QED
  BY <1>3, <1>4, <1>5 DEF SolveUntouched, HasRun

-----------------------------------------------------------------------------
(* A task of the solve runs.                                               *)

Ran(t) == Waits(t) /\ \A u : Waits(u)' <=> Waits(u) /\ u # t

LEMMA SolveRan ==
  ASSUME CallsInv, SolveInv, NEW r \in Rank, NEW t \in SolveTasks,
         NEW local, NEW remote, NEW sent, HasRun(r, t, local, remote, sent),
         local \cup remote \subseteq graph,
         \A m \in sent : IsUp(m) \/ IsDown(m)
  PROVE  Ran(t) /\ SolveKinds' /\ SolveStatus' /\ t \notin graph
<1> DEFINE S == local \cup remote
<1>0. PICK D : D = DueNow(S)
  OBVIOUS
<1>1. /\ t \in ready /\ RankOf(t) = r /\ UNCHANGED call
      /\ graph' = graph \ D /\ ready' = (ready \ {t}) \cup D
      /\ Pend' = Pend \cup sent
      /\ localDeps' \in [Tasks -> Int] /\ remoteDeps' \in [Tasks -> Int]
      /\ \A u \in Tasks : /\ localDeps'[u] = localDeps[u] - IF u \in local THEN 1 ELSE 0
                          /\ remoteDeps'[u] = remoteDeps[u] - IF u \in remote THEN 1 ELSE 0
  BY <1>0 DEF HasRun
<1>2. t \notin graph /\ call[r] = 2 /\ call[RankOf(t)] = 2
  BY <1>1, SolveMembers DEF SolveInv, SolveKinds, CallsInv, TasksInv
<1>3. D \subseteq graph /\ t \notin D
  BY <1>0, <1>2 DEF DueNow
<1>4. Ran(t)
  <2>1. Waits(t)
    BY <1>1 DEF Waits, Unexecuted
  <2>2. \A u : u # t => (Waits(u)' <=> Waits(u))
    BY <1>1, <1>3 DEF Waits, Unexecuted
  <2>3. ~Waits(t)'
    BY <1>1, <1>2, <1>3 DEF Waits, Unexecuted
  <2> QED
    BY <2>1, <2>2, <2>3 DEF Ran
<1>5. SolveKinds'
  <2>1. graph' \cup ready' \subseteq graph \cup ready
    BY <1>1, <1>3
  <2>2. \A u \in SolveTasks : ~(u \in graph' /\ u \in ready')
    BY <1>1 DEF SolveInv, SolveKinds
  <2>3. \A m \in Pend' : IsSolve(m[2]) => IsUp(m) \/ IsDown(m)
    BY <1>1 DEF SolveInv, SolveKinds
  <2> QED
    BY <1>1, <2>1, <2>2, <2>3 DEF SolveInv, SolveKinds, IsUp, IsDown, Up, Down
<1>6. SolveStatus'
  <2> SUFFICES ASSUME NEW u \in SolveTasks, call[RankOf(u)] = 2
               PROVE  u \in graph' <=> localDeps'[u] # 0 \/ remoteDeps'[u] # 0
    BY <1>1 DEF SolveStatus
  <2>1. u \in graph <=> localDeps[u] # 0 \/ remoteDeps[u] # 0
    BY DEF SolveInv, SolveStatus
  <2>2. u \in Tasks /\ localDeps[u] \in Int /\ remoteDeps[u] \in Int
    BY SolveMembers DEF SolveInv, SolveKinds
  <2>3. CASE u \in S
    <3>1. u \in D <=> localDeps'[u] = 0 /\ remoteDeps'[u] = 0
      BY <1>0, <2>3 DEF DueNow
    <3> QED
      BY <1>1, <2>3, <3>1
  <2>4. CASE u \notin S
    <3>1. u \notin D
      BY <1>0, <2>4 DEF DueNow
    <3>2. localDeps'[u] = localDeps[u] - 0 /\ remoteDeps'[u] = remoteDeps[u] - 0
      BY <1>1, <2>2, <2>4
    <3> QED
      BY <1>1, <2>1, <2>2, <3>1, <3>2
  <2> QED
    BY <2>3, <2>4
<1> QED
  BY <1>2, <1>4, <1>5, <1>6

(* A task whose counts are not zero is in the graph.                       *)
LEMMA InGraph ==
  ASSUME SolveInv, NEW u \in SolveTasks, call[RankOf(u)] = 2
  PROVE  /\ u \in graph <=> localDeps[u] # 0 \/ remoteDeps[u] # 0
         /\ Waits(u) <=> u \in graph \cup ready
         /\ localDeps[u] \in Int /\ remoteDeps[u] \in Int
<1>1. Waits(u) <=> u \in graph \cup ready
  BY DEF Waits, Unexecuted
<1> QED
  BY <1>1, SolveMembers DEF SolveInv, SolveStatus, SolveKinds

(* What a run of a task of the solve keeps.                                *)
SolveStep ==
  /\ SolveInv' /\ FactorUntouched /\ (GotOnly => GotOnly') /\ (OnePlace => OnePlace')
  /\ graph' \cup ready' \subseteq graph \cup ready

LEMMA SolveStepDone ==
  ASSUME CallsInv, SolveInv, NEW r \in Rank, NEW t \in SolveTasks, NEW local, NEW remote,
         NEW sent, NEW handed,
         Run(r, t, local, remote, sent, handed), HasRun(r, t, local, remote, sent),
         local \cup remote \subseteq graph, \A u \in local \cup remote : IsSolve(u),
         \A m \in sent : (IsUp(m) \/ IsDown(m)) /\ m \notin Pend,
         \A m \in DOMAIN handed : m[2] \in remote,
         SolveCounts', UNCHANGED factorVars
  PROVE  SolveStep
<1>1. Ran(t) /\ SolveKinds' /\ SolveStatus' /\ t \notin graph
  BY SolveRan
<1>2. SolveInv'
  BY <1>1 DEF SolveInv
<1>3. localDeps \in [Tasks -> Int] /\ remoteDeps \in [Tasks -> Int] /\ IsSolve(t)
  BY SolveMembers DEF SolveInv, SolveKinds
<1>4. \A m : IsUp(m) \/ IsDown(m) => IsSolve(m[2])
  BY SolveNames DEF IsUp, IsDown
<1>5. FactorUntouched
  BY <1>3, <1>4, SolveRunUntouched
<1>6. GotOnly => GotOnly'
  BY <1>1, RunKeepsGot
<1>7. OnePlace => OnePlace'
  <2>1. sent \cap Pend = {} /\ net' = net \cup sent /\ UNCHANGED <<async, blocking>>
    BY DEF HasRun
  <2> QED
    BY <2>1, OnePlaceLater DEF MsgsInv
<1>8. graph' \cup ready' \subseteq graph \cup ready
  BY DEF HasRun, DueNow
<1> QED
  BY <1>2, <1>5, <1>6, <1>7, <1>8 DEF SolveStep

LEMMA ForwardKeepsSolve ==
  ASSUME CallsInv, SolveInv, NEW r \in Rank, NEW I \in Sup, Own(I) = r,
         Forward(r, I), UNCHANGED factorVars
  PROVE  SolveStep
<1> DEFINE near == ~IsRoot(I) /\ Own(Parent(I)) = r
           ff == IF IsRoot(I) THEN {BUC(I)} ELSE IF near THEN {FUC(Parent(I))} ELSE {}
           ss == IF IsRoot(I) \/ near THEN {} ELSE {Up(I)}
           tt == FUC(I)
<1>0. localDeps \in [Tasks -> Int] /\ remoteDeps \in [Tasks -> Int]
  BY DEF SolveInv, SolveKinds
<1>1. Run(r, tt, ff, {}, ss, <<>>)
  BY DEF Forward, Up
<1>2. /\ tt \in SolveTasks /\ \A K : tt = FUC(K) => K = I
      /\ ~IsRoot(I) => Parent(I) \in Sup /\ I \in Children(Parent(I))
      /\ near => I \in LocalChildren(Parent(I))
      /\ ~IsRoot(I) /\ ~near => I \in RemChildren(Parent(I))
  BY SolveNames, SolveMembers, TreeFacts, BranchFacts
<1>3. PICK t, local, sent : t = tt /\ local = ff /\ sent = ss
  OBVIOUS
<1>4. /\ \A K : t = FUC(K) => K = I
      /\ t = FUC(I) /\ \A K, P : t # BUC(K) /\ t # BU(P, K)
  BY <1>2, <1>3, SolveNames
<1>5. /\ \A K \in Sup : FUC(K) \in local <=> I \in LocalChildren(K)
      /\ \A K \in Sup : BUC(K) \in local <=> K = I /\ IsRoot(I)
      /\ \A K, P : BU(P, K) \notin local
      /\ \A u \in local : u \in SolveTasks
      /\ \A P : \A c \in RemChildren(P) : Up(c) \in sent <=> c = I
      /\ \A P, q : Down(q, P) \notin sent
      /\ \A m \in sent : ~IsRoot(I) /\ I \in RemChildren(Parent(I)) /\ m = Up(I)
  <2>1. \A K \in Sup : FUC(K) \in local <=> I \in LocalChildren(K)
    BY <1>3, SolveNames, TreeFacts, BranchFacts
  <2>2. \A K \in Sup : BUC(K) \in local <=> K = I /\ IsRoot(I)
    BY <1>3, SolveNames
  <2>3. \A K, P : BU(P, K) \notin local
    BY <1>3, SolveNames
  <2>4. \A u \in local : u \in SolveTasks
    BY <1>2, <1>3, SolveMembers
  <2>5. ASSUME NEW P, NEW c \in RemChildren(P) PROVE Up(c) \in sent <=> c = I
    <3>1. Up(c) = Up(I) <=> c = I
      BY SolveNames
    <3>2. ~IsRoot(c) /\ Own(Parent(c)) # Own(c)
      BY UpIs
    <3> QED
      BY <1>3, <3>1, <3>2
  <2>6. \A P, q : Down(q, P) \notin sent
    BY <1>3, SolveNames
  <2>7. \A m \in sent : ~IsRoot(I) /\ I \in RemChildren(Parent(I)) /\ m = Up(I)
    BY <1>2, <1>3
  <2> QED
    BY <2>1, <2>2, <2>3, <2>4, <2>5, <2>6, <2>7
<1>6. Run(r, t, local, {}, sent, <<>>)
  <2> HIDE DEF tt, ff, ss
  <2> QED
    BY <1>1, <1>3
<1>7. t \in SolveTasks /\ HasRun(r, t, local, {}, sent)
  BY <1>0, <1>2, <1>3, <1>6, RunEffects
<1> HIDE DEF tt, ff, ss, near
<1>8. Waits(t) /\ call[r] = 2 /\ t \in ready
  BY <1>7, SolveMembers DEF HasRun, Waits, Unexecuted, CallsInv, TasksInv
<1>9. local \cup {} \subseteq graph
  <2>1. ASSUME NEW u \in local PROVE u \in graph
    <3>1. u \in SolveTasks /\ (\E K \in Sup : u = FUC(K) \/ u = BUC(K))
      BY <1>5, SolveTaskCases
    <3>2. CASE \E K \in Sup : u = FUC(K)
      <4>1. PICK K \in Sup : u = FUC(K)
        BY <3>2
      <4>2. I \in LocalChildren(K) /\ RankOf(u) = r
        BY <1>5, <4>1, BranchFacts, SolveNames
      <4>3. I \in {c \in LocalChildren(K) : Waits(FUC(c))}
        BY <1>4, <1>8, <4>2
      <4>4. IsFiniteSet({c \in LocalChildren(K) : Waits(FUC(c))})
        BY BranchFacts, FS_Subset
      <4>5. localDeps[u] # 0
        BY <4>1, <4>3, <4>4, FS_EmptySet DEF SolveInv, SolveCounts, FUCCounts
      <4> QED
        BY <1>8, <3>1, <4>2, <4>5, InGraph
    <3>3. CASE \E K \in Sup : u = BUC(K)
      <4>1. u = BUC(I) /\ IsRoot(I) /\ RankOf(u) = r
        BY <1>5, <3>3, SolveNames
      <4>2. localDeps[u] = 1
        BY <1>4, <1>8, <4>1 DEF SolveInv, SolveCounts, BUCCounts, Before
      <4> QED
        BY <1>8, <3>1, <4>1, <4>2, InGraph
    <3> QED
      BY <3>1, <3>2, <3>3
  <2> QED
    BY <2>1
<1>10. \A m \in sent : IsUp(m)
  BY <1>5, UpIs
<1>11. Ran(t) /\ SolveKinds' /\ SolveStatus' /\ t \notin graph
  BY <1>7, <1>9, <1>10, SolveRan
<1>12. \A u \in SolveTasks : /\ localDeps'[u] = localDeps[u] - IF u \in local THEN 1 ELSE 0
                             /\ remoteDeps'[u] = remoteDeps[u]
                             /\ localDeps[u] \in Int
  <2>1. \A u \in SolveTasks : u \in Tasks /\ localDeps[u] \in Int /\ remoteDeps[u] \in Int
    BY <1>0, SolveMembers
  <2>2. \A u \in SolveTasks : /\ localDeps'[u] = localDeps[u] - IF u \in local THEN 1 ELSE 0
                              /\ remoteDeps'[u] = remoteDeps[u] - IF u \in {} THEN 1 ELSE 0
    BY <1>7, <2>1 DEF HasRun
  <2> QED
    BY <2>1, <2>2
<1>13. \A m : /\ m \in Pend' <=> m \in Pend \/ m \in sent
              /\ m \in DOMAIN got' <=> m \in DOMAIN got /\ m[2] # t
  <2>1. \A m : /\ m \in DOMAIN got' <=> (m \in DOMAIN got /\ m[2] # t) \/ m \in DOMAIN <<>>
               /\ m \in DOMAIN got' => got'[m] = IF m \in DOMAIN <<>> THEN (<<>>)[m] ELSE got[m]
    BY <1>6, GotAfterRun
  <2>2. DOMAIN <<>> = {}
    OBVIOUS
  <2> QED
    BY <1>7, <2>1, <2>2 DEF HasRun
<1>14. /\ \A K, P : /\ Waits(BUC(K))' <=> Waits(BUC(K))
                    /\ Waits(BU(P, K))' <=> Waits(BU(P, K))
       /\ \A K : Waits(FUC(K))' <=> Waits(FUC(K)) /\ K # I
  BY <1>4, <1>11 DEF Ran
<1>15. \A P : \A c \in RemChildren(P) : /\ NotUp(c)' <=> NotUp(c)
                                        /\ Up(c) \in Pend' <=> Up(c) \in Pend \/ c = I
  <2> SUFFICES ASSUME NEW P, NEW c \in RemChildren(P)
               PROVE  /\ NotUp(c)' <=> NotUp(c)
                      /\ Up(c) \in Pend' <=> Up(c) \in Pend \/ c = I
    OBVIOUS
  <2>1. Up(c) \in Pend' <=> Up(c) \in Pend \/ c = I
    BY <1>5, <1>13
  <2>2. NotUp(c)' <=> Waits(FUC(c))' \/ Up(c) \in Pend'
    BY DEF NotUp, Up
  <2>3. c = I => Waits(FUC(c))
    BY <1>4, <1>8
  <2> QED
    BY <1>14, <2>1, <2>2, <2>3 DEF NotUp
<1>16. \A P, q : /\ Down(q, P) \in Pend' <=> Down(q, P) \in Pend
                 /\ NotDown(q, P)' <=> NotDown(q, P)
  <2> TAKE P, q
  <2>1. Down(q, P) \in Pend' <=> Down(q, P) \in Pend
    BY <1>5, <1>13
  <2>2. NotDown(q, P)' <=> Waits(BUC(P))' \/ Down(q, P) \in Pend'
    BY DEF NotDown, Down, FirstOn
  <2> QED
    BY <1>14, <2>1, <2>2 DEF NotDown
<1>17. SentAfter'
  BY <1>14, <1>15, <1>16 DEF SolveInv, SolveCounts, SentAfter, Up, Down, FirstOn
<1>18. FUCCounts'
  <2> SUFFICES ASSUME NEW K \in Sup
               PROVE  /\ localDeps'[FUC(K)] = Cardinality({c \in LocalChildren(K) : Waits(FUC(c))'})
                      /\ remoteDeps'[FUC(K)] = Cardinality({c \in RemChildren(K) : NotUp(c)'})
    BY DEF FUCCounts, FUC
  <2>1. {c \in RemChildren(K) : NotUp(c)'} = {c \in RemChildren(K) : NotUp(c)}
    BY <1>15
  <2>2. /\ localDeps[FUC(K)] = Cardinality({c \in LocalChildren(K) : Waits(FUC(c))})
        /\ remoteDeps[FUC(K)] = Cardinality({c \in RemChildren(K) : NotUp(c)})
    BY DEF SolveInv, SolveCounts, FUCCounts
  <2>3. FUC(K) \in SolveTasks
    BY SolveMembers
  <2>4. localDeps'[FUC(K)] = Cardinality({c \in LocalChildren(K) : Waits(FUC(c))'})
    <3> DEFINE C == {c \in LocalChildren(K) : Waits(FUC(c))}
    <3>1. {c \in LocalChildren(K) : Waits(FUC(c))'} = C \ {I}
      BY <1>14
    <3>2. IsFiniteSet(C)
      BY BranchFacts, FS_Subset
    <3>3. I \in C <=> FUC(K) \in local
      BY <1>4, <1>5, <1>8
    <3>4. I \in C => Cardinality(C \ {I}) = Cardinality(C) - 1
      BY <3>2, FS_RemoveElement
    <3>5. I \notin C => C \ {I} = C
      OBVIOUS
    <3> HIDE DEF C
    <3>6. localDeps'[FUC(K)] = localDeps[FUC(K)] - IF FUC(K) \in local THEN 1 ELSE 0
      BY <1>12, <2>3
    <3>7. localDeps[FUC(K)] = Cardinality(C) /\ localDeps[FUC(K)] \in Int
      BY <1>12, <2>2, <2>3 DEF C
    <3>8. localDeps'[FUC(K)] = Cardinality(C \ {I})
      <4>1. CASE I \in C
        <5>1. localDeps'[FUC(K)] = localDeps[FUC(K)] - 1
          BY <3>3, <3>6, <4>1
        <5> QED
          BY <3>4, <3>7, <4>1, <5>1
      <4>2. CASE I \notin C
        <5>1. localDeps'[FUC(K)] = localDeps[FUC(K)] - 0
          BY <3>3, <3>6, <4>2
        <5> QED
          BY <3>5, <3>7, <4>2, <5>1
      <4> QED
        BY <4>1, <4>2
    <3> QED
      BY <3>1, <3>8
  <2> QED
    BY <1>12, <2>1, <2>2, <2>3, <2>4
<1>19. BUCCounts'
  <2> SUFFICES ASSUME NEW K \in Sup
               PROVE  /\ localDeps'[BUC(K)] = IF Waits(Before(K))' THEN 1 ELSE 0
                      /\ remoteDeps'[BUC(K)] = 0
    BY DEF BUCCounts, BUC, Before
  <2>1. /\ localDeps[BUC(K)] = IF Waits(Before(K)) THEN 1 ELSE 0
        /\ remoteDeps[BUC(K)] = 0
    BY DEF SolveInv, SolveCounts, BUCCounts
  <2>2. BUC(K) \in SolveTasks
    BY SolveMembers
  <2>3. Waits(Before(K))' <=> Waits(Before(K)) /\ ~(IsRoot(K) /\ K = I)
    BY <1>14 DEF Before
  <2>4. IsRoot(K) /\ K = I => Waits(Before(K))
    BY <1>4, <1>8 DEF Before
  <2>5. BUC(K) \in local <=> IsRoot(K) /\ K = I
    BY <1>5
  <2> QED
    BY <1>12, <2>1, <2>2, <2>3, <2>4, <2>5
<1>20. BUCounts'
  <2> SUFFICES ASSUME NEW K \in Sup, ~IsRoot(K), NEW P, P = Parent(K), NEW u, u = BU(P, K)
               PROVE  IF Own(P) = Own(K)
                      THEN localDeps'[u] = (IF Waits(BUC(P))' THEN 1 ELSE 0) /\ remoteDeps'[u] = 0
                      ELSE localDeps'[u] = 0 /\ remoteDeps'[u] = (IF Blocks(P, K)' THEN 1 ELSE 0)
    BY DEF BUCounts
  <2>1. localDeps'[u] = localDeps[u] /\ remoteDeps'[u] = remoteDeps[u]
    BY <1>5, <1>12, SolveMembers
  <2>2. Blocks(P, K)' <=> Blocks(P, K)
    BY <1>14, <1>16 DEF Blocks
  <2> QED
    BY <1>14, <2>1, <2>2 DEF SolveInv, SolveCounts, BUCounts
<1>21. GotExact'
  <2>1. ASSUME NEW K \in Sup, NEW c \in RemChildren(K), Waits(FUC(K))'
        PROVE  Up(c) \in DOMAIN got' <=> ~NotUp(c)'
    <3>1. K # I /\ Waits(FUC(K))
      BY <1>14, <2>1
    <3>2. Up(c)[2] # t
      BY <1>4, <3>1, UpIs
    <3> QED
      BY <1>13, <1>15, <3>1, <3>2 DEF SolveInv, SolveCounts, GotExact
  <2>2. ASSUME NEW P \in Sup, NEW q \in Others(P), Waits(BU(P, FirstOn(q, P)))'
        PROVE  Down(q, P) \in DOMAIN got' <=> ~NotDown(q, P)'
    <3>1. Waits(BU(P, FirstOn(q, P))) /\ Down(q, P)[2] # t
      BY <1>4, <1>14, <2>2, SolveNames
    <3> QED
      BY <1>13, <1>16, <3>1 DEF SolveInv, SolveCounts, GotExact
  <2> QED
    BY <2>1, <2>2 DEF GotExact, Up, Down, FirstOn
<1>22. SolveCounts'
  BY <1>17, <1>18, <1>19, <1>20, <1>21 DEF SolveCounts
<1>23. \A m \in sent : m \notin Pend
  <2> SUFFICES ASSUME NEW m \in sent, m \in Pend PROVE FALSE
    OBVIOUS
  <2>1. I \in RemChildren(Parent(I)) /\ m = Up(I)
    BY <1>5
  <2>2. Parent(I) \in Sup
    BY <2>1, UpIs
  <2> QED
    BY <1>4, <1>8, <2>1, <2>2 DEF SolveInv, SolveCounts, SentAfter
<1>24. \A u \in local \cup {} : IsSolve(u)
  BY <1>5, SolveMembers
<1>25. \A m \in DOMAIN <<>> : m[2] \in {}
  OBVIOUS
<1> QED
  BY <1>6, <1>7, <1>9, <1>10, <1>22, <1>23, <1>24, <1>25, SolveStepDone

(* What a task of the solve gives to its rank is in the graph.             *)
LEMMA BackwardKeepsSolve ==
  ASSUME CallsInv, SolveInv, NEW r \in Rank, NEW I \in Sup, Own(I) = r,
         Backward(r, I), UNCHANGED factorVars
  PROVE  SolveStep
<1>0. localDeps \in [Tasks -> Int] /\ remoteDeps \in [Tasks -> Int]
  BY DEF SolveInv, SolveKinds
<1>1. PICK t, local, sent : /\ t = BUC(I) /\ local = {BU(I, c) : c \in LocalChildren(I)}
                            /\ sent = {Down(q, I) : q \in Others(I)}
  OBVIOUS
<1>2. Run(r, t, local, {}, sent, <<>>)
  BY <1>1 DEF Backward, Down, Others, FirstOn
<1>3. /\ t \in SolveTasks
      /\ \A K : t = BUC(K) => K = I
      /\ \A K, P : t # FUC(K) /\ t # BU(P, K)
  BY <1>1, SolveNames, SolveMembers
<1>4. /\ \A K : FUC(K) \notin local /\ BUC(K) \notin local
      /\ \A P : \A c \in Children(P) : BU(P, c) \in local <=> P = I /\ Own(c) = Own(P)
      /\ \A u \in local : \E c \in LocalChildren(I) : u = BU(I, c) /\ u \in SolveTasks
      /\ \A c : Up(c) \notin sent
      /\ \A P : \A q \in Others(P) : Down(q, P) \in sent <=> P = I
      /\ \A m \in sent : \E q \in Others(I) : m = Down(q, I)
  <2>1. \A K : FUC(K) \notin local /\ BUC(K) \notin local
    BY <1>1, SolveNames
  <2>2. \A P : \A c \in Children(P) : BU(P, c) \in local <=> P = I /\ Own(c) = Own(P)
    BY <1>1, SolveNames, BranchFacts
  <2>3. \A u \in local : \E c \in LocalChildren(I) : u = BU(I, c) /\ u \in SolveTasks
    BY <1>1, SolveMembers, BranchFacts
  <2>4. \A c : Up(c) \notin sent
    BY <1>1, SolveNames
  <2>5. \A P : \A q \in Others(P) : Down(q, P) \in sent <=> P = I
    BY <1>1, DownNames
  <2>6. \A m \in sent : \E q \in Others(I) : m = Down(q, I)
    BY <1>1
  <2> QED
    BY <2>1, <2>2, <2>3, <2>4, <2>5, <2>6
<1>5. HasRun(r, t, local, {}, sent)
  BY <1>0, <1>2, RunEffects
<1>6. Waits(t) /\ call[r] = 2
  BY <1>3, <1>5, SolveMembers DEF HasRun, Waits, Unexecuted, CallsInv, TasksInv
<1>7. local \cup {} \subseteq graph
  <2> SUFFICES ASSUME NEW u \in local PROVE u \in graph
    OBVIOUS
  <2>1. PICK c \in LocalChildren(I) : u = BU(I, c) /\ u \in SolveTasks
    BY <1>4
  <2>2. c \in Sup /\ ~IsRoot(c) /\ Parent(c) = I /\ Own(c) = r
    BY BranchFacts, TreeFacts
  <2>3. localDeps[u] = 1
    BY <1>1, <1>6, <2>1, <2>2 DEF SolveInv, SolveCounts, BUCounts
  <2>4. call[RankOf(u)] = 2
    BY <1>6, <2>1, <2>2, SolveNames
  <2> QED
    BY <2>1, <2>3, <2>4, InGraph
<1>8. \A m \in sent : IsUp(m) \/ IsDown(m)
  BY <1>4, DownIs
<1>9. Ran(t) /\ SolveKinds' /\ SolveStatus' /\ t \notin graph
  BY <1>3, <1>5, <1>7, <1>8, SolveRan
<1>10. \A u \in SolveTasks :
         /\ u \in local => localDeps'[u] = localDeps[u] - 1
         /\ u \notin local => localDeps'[u] = localDeps[u]
         /\ remoteDeps'[u] = remoteDeps[u]
         /\ localDeps[u] \in Int
  <2>1. \A u \in SolveTasks : u \in Tasks /\ localDeps[u] \in Int /\ remoteDeps[u] \in Int
    BY <1>0, SolveMembers
  <2>2. \A u \in SolveTasks :
          /\ localDeps'[u] = localDeps[u] - IF u \in local THEN 1 ELSE 0
          /\ remoteDeps'[u] = remoteDeps[u] - IF u \in {} THEN 1 ELSE 0
    BY <1>5, <2>1 DEF HasRun
  <2> QED
    BY <2>1, <2>2
<1>11. \A m : /\ m \in Pend' <=> m \in Pend \/ m \in sent
              /\ m \in DOMAIN got' <=> m \in DOMAIN got /\ m[2] # t
  <2>1. \A m : /\ m \in DOMAIN got' <=> (m \in DOMAIN got /\ m[2] # t) \/ m \in DOMAIN <<>>
               /\ m \in DOMAIN got' => got'[m] = IF m \in DOMAIN <<>> THEN (<<>>)[m] ELSE got[m]
    BY <1>2, GotAfterRun
  <2>2. DOMAIN <<>> = {}
    OBVIOUS
  <2> QED
    BY <1>5, <2>1, <2>2 DEF HasRun
<1>12. /\ \A K, P : /\ Waits(FUC(K))' <=> Waits(FUC(K))
                    /\ Waits(BU(P, K))' <=> Waits(BU(P, K))
       /\ \A K : Waits(BUC(K))' <=> Waits(BUC(K)) /\ K # I
  BY <1>1, <1>3, <1>9 DEF Ran
<1>13. \A c : /\ NotUp(c)' <=> NotUp(c)
              /\ Up(c) \in Pend' <=> Up(c) \in Pend
  <2> TAKE c
  <2>1. Up(c) \in Pend' <=> Up(c) \in Pend
    BY <1>4, <1>11
  <2>2. NotUp(c)' <=> Waits(FUC(c))' \/ Up(c) \in Pend'
    BY DEF NotUp, Up
  <2> QED
    BY <1>12, <2>1, <2>2 DEF NotUp
<1>14. \A P : \A q \in Others(P) : /\ Down(q, P) \in Pend' <=> Down(q, P) \in Pend \/ P = I
                                   /\ NotDown(q, P)' <=> NotDown(q, P)
  <2> SUFFICES ASSUME NEW P, NEW q \in Others(P)
               PROVE  /\ Down(q, P) \in Pend' <=> Down(q, P) \in Pend \/ P = I
                      /\ NotDown(q, P)' <=> NotDown(q, P)
    OBVIOUS
  <2>1. Down(q, P) \in Pend' <=> Down(q, P) \in Pend \/ P = I
    BY <1>4, <1>11
  <2>2. NotDown(q, P)' <=> Waits(BUC(P))' \/ Down(q, P) \in Pend'
    BY DEF NotDown, Down, FirstOn
  <2>3. P = I => Waits(BUC(P))
    BY <1>1, <1>6
  <2> QED
    BY <1>12, <2>1, <2>2, <2>3 DEF NotDown
<1>15. SentAfter'
  <2>1. \A P \in Sup : \A c \in RemChildren(P) : Up(c) \in Pend' => ~Waits(FUC(c))'
    BY <1>12, <1>13 DEF SolveInv, SolveCounts, SentAfter
  <2>2. \A P \in Sup : \A q \in Others(P) : Down(q, P) \in Pend' => ~Waits(BUC(P))'
    BY <1>12, <1>14 DEF SolveInv, SolveCounts, SentAfter
  <2> QED
    BY <2>1, <2>2 DEF SentAfter, Up, Down, FirstOn
<1>16. FUCCounts'
  <2> SUFFICES ASSUME NEW K \in Sup
               PROVE  /\ localDeps'[FUC(K)] = Cardinality({c \in LocalChildren(K) : Waits(FUC(c))'})
                      /\ remoteDeps'[FUC(K)] = Cardinality({c \in RemChildren(K) : NotUp(c)'})
    BY DEF FUCCounts, FUC
  <2>1. /\ {c \in RemChildren(K) : NotUp(c)'} = {c \in RemChildren(K) : NotUp(c)}
        /\ {c \in LocalChildren(K) : Waits(FUC(c))'} = {c \in LocalChildren(K) : Waits(FUC(c))}
    BY <1>12, <1>13
  <2>2. /\ localDeps[FUC(K)] = Cardinality({c \in LocalChildren(K) : Waits(FUC(c))})
        /\ remoteDeps[FUC(K)] = Cardinality({c \in RemChildren(K) : NotUp(c)})
    BY DEF SolveInv, SolveCounts, FUCCounts
  <2>3. FUC(K) \in SolveTasks
    BY SolveMembers
  <2>4. localDeps'[FUC(K)] = localDeps[FUC(K)] /\ remoteDeps'[FUC(K)] = remoteDeps[FUC(K)]
    BY <1>4, <1>10, <2>3
  <2> QED
    BY <2>1, <2>2, <2>4
<1>17. BUCCounts'
  <2> SUFFICES ASSUME NEW K \in Sup
               PROVE  /\ localDeps'[BUC(K)] = IF Waits(Before(K))' THEN 1 ELSE 0
                      /\ remoteDeps'[BUC(K)] = 0
    BY DEF BUCCounts, BUC, Before
  <2>1. /\ localDeps[BUC(K)] = IF Waits(Before(K)) THEN 1 ELSE 0
        /\ remoteDeps[BUC(K)] = 0
    BY DEF SolveInv, SolveCounts, BUCCounts
  <2>2. BUC(K) \in SolveTasks
    BY SolveMembers
  <2>3. Waits(Before(K))' <=> Waits(Before(K))
    BY <1>12 DEF Before
  <2> QED
    BY <1>4, <1>10, <2>1, <2>2, <2>3
<1>18. BUCounts'
  <2> SUFFICES ASSUME NEW K \in Sup, ~IsRoot(K), NEW P, P = Parent(K), NEW u, u = BU(P, K)
               PROVE  IF Own(P) = Own(K)
                      THEN localDeps'[u] = (IF Waits(BUC(P))' THEN 1 ELSE 0) /\ remoteDeps'[u] = 0
                      ELSE localDeps'[u] = 0 /\ remoteDeps'[u] = (IF Blocks(P, K)' THEN 1 ELSE 0)
    BY DEF BUCounts
  <2>1. u \in SolveTasks /\ K \in Children(P)
    BY SolveMembers, TreeFacts
  <2>2. u \in local <=> P = I /\ Own(K) = Own(P)
    BY <1>4, <2>1
  <2>3. CASE Own(P) = Own(K)
    <3>1. localDeps[u] = (IF Waits(BUC(P)) THEN 1 ELSE 0) /\ remoteDeps[u] = 0
      BY <2>3 DEF SolveInv, SolveCounts, BUCounts
    <3>2. P = I => Waits(BUC(P))
      BY <1>1, <1>6
    <3> QED
      BY <1>10, <1>12, <2>1, <2>2, <2>3, <3>1, <3>2
  <2>4. CASE Own(P) # Own(K)
    <3>1. localDeps[u] = 0 /\ remoteDeps[u] = (IF Blocks(P, K) THEN 1 ELSE 0)
      BY <2>4 DEF SolveInv, SolveCounts, BUCounts
    <3>2. Own(K) \in Others(P)
      BY <2>1, <2>4, BranchFacts DEF Others
    <3>3. Blocks(P, K)' <=> Blocks(P, K)
      BY <1>12, <1>14, <3>2 DEF Blocks
    <3> QED
      BY <1>10, <2>1, <2>2, <2>4, <3>1, <3>3
  <2> QED
    BY <2>3, <2>4
<1>19. GotExact'
  <2>1. ASSUME NEW K \in Sup, NEW c \in RemChildren(K), Waits(FUC(K))'
        PROVE  Up(c) \in DOMAIN got' <=> ~NotUp(c)'
    <3>1. Waits(FUC(K)) /\ Up(c)[2] # t
      BY <1>3, <1>12, <2>1, SolveNames
    <3> QED
      BY <1>11, <1>13, <3>1 DEF SolveInv, SolveCounts, GotExact
  <2>2. ASSUME NEW P \in Sup, NEW q \in Others(P), Waits(BU(P, FirstOn(q, P)))'
        PROVE  Down(q, P) \in DOMAIN got' <=> ~NotDown(q, P)'
    <3>1. Waits(BU(P, FirstOn(q, P))) /\ Down(q, P)[2] # t
      BY <1>3, <1>12, <2>2, SolveNames
    <3> QED
      BY <1>11, <1>14, <3>1 DEF SolveInv, SolveCounts, GotExact
  <2> QED
    BY <2>1, <2>2 DEF GotExact, Up, Down, FirstOn
<1>20. SolveCounts'
  BY <1>15, <1>16, <1>17, <1>18, <1>19 DEF SolveCounts
<1>21. \A m \in sent : (IsUp(m) \/ IsDown(m)) /\ m \notin Pend
  <2> SUFFICES ASSUME NEW m \in sent, m \in Pend PROVE FALSE
    BY <1>8
  <2>1. PICK q \in Others(I) : m = Down(q, I)
    BY <1>4
  <2> QED
    BY <1>1, <1>6, <2>1 DEF SolveInv, SolveCounts, SentAfter
<1>22. \A u \in local \cup {} : IsSolve(u)
  BY <1>4, SolveMembers
<1>23. \A m \in DOMAIN <<>> : m[2] \in {}
  OBVIOUS
<1> QED
  BY <1>2, <1>3, <1>5, <1>7, <1>20, <1>21, <1>22, <1>23, SolveStepDone

(* The rows that came in a message are handed to the next child of the     *)
(* rank: the only one that waited for this task and for no other.          *)
HandsOn(r, P, I, next) ==
  /\ \A u \in next : \E d \in ChildrenOn(r, P) :
       u = BU(P, d) /\ d < I /\ Own(P) # r /\ u \in graph
  /\ Own(P) # r =>
       /\ ~NotDown(r, P)
       /\ \A K \in ChildrenOn(r, P) :
            BU(P, K) \in next <=>
              /\ Blocks(P, K)
              /\ ~ \E c \in ChildrenOn(r, P) : c > K /\ c # I /\ Waits(BU(P, c))

LEMMA NextOnRank ==
  ASSUME CallsInv, SolveInv, NEW r \in Rank, call[r] = 2,
         NEW P, NEW I \in ChildrenOn(r, P), BU(P, I) \in ready,
         NEW waiting, waiting = {c \in ChildrenOn(r, P) : Own(P) # r /\ BU(P, c) \in graph},
         NEW next, next = IF waiting = {} THEN {} ELSE {BU(P, HighestOf(waiting))}
  PROVE  HandsOn(r, P, I, next)
<1>1. /\ ChildrenOn(r, P) \subseteq Sup
      /\ \A c \in ChildrenOn(r, P) : /\ c \in Children(P) /\ c \in Sup /\ c \in Int
                                     /\ Own(c) = r /\ ~IsRoot(c)
                                     /\ Parent(c) = P /\ BU(P, c) \in SolveTasks
  BY TreeFacts, BranchFacts, SolveMembers, DistributionAssumption DEF ChildrenOn, Sup
<1>2. CASE Own(P) = r
  BY <1>2 DEF HandsOn
<1>3. CASE Own(P) # r
  <2>1. \A c \in ChildrenOn(r, P) :
          /\ remoteDeps[BU(P, c)] = (IF Blocks(P, c) THEN 1 ELSE 0)
          /\ localDeps[BU(P, c)] = 0
          /\ BU(P, c) \in graph <=> Blocks(P, c)
    <3> TAKE c \in ChildrenOn(r, P)
    <3>1. remoteDeps[BU(P, c)] = (IF Blocks(P, c) THEN 1 ELSE 0) /\ localDeps[BU(P, c)] = 0
      BY <1>1, <1>3 DEF SolveInv, SolveCounts, BUCounts
    <3>2. RankOf(BU(P, c)) = r
      BY <1>1, SolveNames
    <3>3. BU(P, c) \in graph <=> localDeps[BU(P, c)] # 0 \/ remoteDeps[BU(P, c)] # 0
      BY <1>1, <3>2 DEF SolveInv, SolveStatus
    <3> QED
      BY <3>1, <3>3
  <2>2. BU(P, I) \notin graph /\ ~Blocks(P, I)
    BY <1>1, <2>1 DEF SolveInv, SolveKinds
  <2>3. ~NotDown(r, P) /\ \A c \in ChildrenOn(r, P) : c > I => ~Waits(BU(P, c))
    BY <1>1, <2>2 DEF Blocks
  <2>4. \A c : BU(P, c) \in graph \cup ready => Waits(BU(P, c))
    BY DEF Waits, Unexecuted
  <2>5. \A c \in ChildrenOn(r, P) : c \in waiting <=> c < I
    <3> TAKE c \in ChildrenOn(r, P)
    <3>1. c < I => Blocks(P, c)
      BY <1>1, <2>4 DEF Blocks
    <3>2. c > I => c \notin waiting
      BY <2>3, <2>4
    <3>3. c = I => c \notin waiting
      BY <2>2
    <3>4. c < I \/ c > I \/ c = I
      BY <1>1
    <3>5. c < I => ~(c > I) /\ c # I
      BY <1>1
    <3>6. c \in waiting <=> Blocks(P, c)
      BY <1>3, <2>1
    <3> QED
      BY <3>1, <3>2, <3>3, <3>4, <3>5, <3>6
  <2>6. \A c \in ChildrenOn(r, P) : Waits(BU(P, c)) /\ c # I <=> c < I
    <3> TAKE c \in ChildrenOn(r, P)
    <3>1. c < I => Waits(BU(P, c)) /\ c # I
      BY <1>1, <2>4, <2>5
    <3>2. c < I \/ c > I \/ c = I
      BY <1>1
    <3> QED
      BY <2>3, <3>1, <3>2
  <2>7. waiting \subseteq ChildrenOn(r, P)
    OBVIOUS
  <2>8. CASE waiting = {}
    <3>1. next = {} /\ \A K \in ChildrenOn(r, P) : ~Blocks(P, K)
      BY <1>3, <2>1, <2>8
    <3> QED
      BY <2>3, <3>1 DEF HandsOn
  <2>9. CASE waiting # {}
    <3>1. PICK d : d = HighestOf(waiting)
      OBVIOUS
    <3>2. d \in waiting /\ \A c \in waiting : d >= c
      BY <1>1, <2>7, <2>9, <3>1, HighestIsGreatest
    <3>3. next = {BU(P, d)} /\ d \in ChildrenOn(r, P) /\ d < I /\ BU(P, d) \in graph
      BY <2>5, <2>7, <2>9, <3>1, <3>2
    <3>4. ASSUME NEW K \in ChildrenOn(r, P)
          PROVE  K = d <=>
                   /\ Blocks(P, K)
                   /\ ~ \E c \in ChildrenOn(r, P) : c > K /\ c # I /\ Waits(BU(P, c))
      <4>1. K = d => Blocks(P, K)
        BY <2>1, <3>3
      <4>2. ASSUME K = d, NEW c \in ChildrenOn(r, P), c > K, c # I, Waits(BU(P, c))
            PROVE  FALSE
        <5>1. c \in waiting
          BY <2>5, <2>6, <4>2
        <5> QED
          BY <1>1, <3>2, <4>2, <5>1
      <4>3. ASSUME K # d, Blocks(P, K)
            PROVE  d > K /\ d # I /\ Waits(BU(P, d))
        <5>1. K \in waiting
          BY <1>3, <2>1, <4>3
        <5> QED
          BY <1>1, <2>6, <3>2, <3>3, <4>3, <5>1
      <4> QED
        BY <3>3, <4>1, <4>2, <4>3
    <3>5. \A K : BU(P, K) \in next <=> K = d
      BY <3>3, SolveNames
    <3> QED
      BY <1>3, <2>3, <3>3, <3>4, <3>5 DEF HandsOn
  <2> QED
    BY <2>8, <2>9
<1> QED
  BY <1>2, <1>3

LEMMA CopyDownKeepsSolve ==
  ASSUME CallsInv, SolveInv, NEW r \in Rank, NEW P \in Sup, NEW I \in Sup, Own(I) = r,
         CopyDown(r, P, I), UNCHANGED factorVars
  PROVE  SolveStep
<1>0. localDeps \in [Tasks -> Int] /\ remoteDeps \in [Tasks -> Int]
  BY DEF SolveInv, SolveKinds
<1>1. PICK waiting : waiting = {c \in ChildrenOn(r, P) : Own(P) # r /\ BU(P, c) \in graph}
  OBVIOUS
<1>2. PICK next : next = IF waiting = {} THEN {} ELSE {BU(P, HighestOf(waiting))}
  OBVIOUS
<1>3. PICK source : source = IF Own(P) # r THEN got[<<P, BU(P, I)>>] ELSE rows[P]
  OBVIOUS
<1>4. PICK t, local, handed : /\ t = BU(P, I) /\ local = {BUC(I)}
                              /\ handed = [m \in {<<P, u>> : u \in next} |-> source]
  OBVIOUS
<1>5. Run(r, t, local, next, {}, handed)
  BY <1>1, <1>2, <1>3, <1>4 DEF CopyDown
<1>6. HasRun(r, t, local, next, {})
  BY <1>0, <1>5, RunEffects
<1>7. t \in ready /\ IsSolve(t)
  BY <1>4, <1>6, SolveNames DEF HasRun
<1>8. t \in SolveTasks
  BY <1>7 DEF SolveInv, SolveKinds
<1>9. ~IsRoot(I) /\ P = Parent(I) /\ I \in ChildrenOn(r, P)
  <2>1. ~IsRoot(I) /\ P = Parent(I)
    BY <1>4, <1>8, SolveTaskCases, SolveNames
  <2> QED
    BY <2>1, TreeFacts DEF ChildrenOn
<1>10. Waits(t) /\ call[r] = 2
  BY <1>6, <1>8, SolveMembers DEF HasRun, Waits, Unexecuted, CallsInv, TasksInv
<1>11. HandsOn(r, P, I, next)
  BY <1>1, <1>2, <1>4, <1>7, <1>9, <1>10, NextOnRank
<1>12. /\ \A u \in next : \E d \in ChildrenOn(r, P) : u = BU(P, d) /\ d < I /\ Own(P) # r
       /\ next \subseteq graph
  BY <1>11 DEF HandsOn
<1>13. \A d \in ChildrenOn(r, P) : d \in Children(P) /\ Own(d) = r /\ d \in Int /\ d \in Sup
  BY BranchFacts, TreeFacts DEF ChildrenOn, Sup
<1>14. /\ \A K : t = BU(P, K) => K = I
       /\ \A K, Q : t = BU(Q, K) => Q = P /\ K = I
       /\ \A K : t # FUC(K) /\ t # BUC(K)
  BY <1>4, SolveNames
<1>15. /\ \A K : FUC(K) \notin local /\ FUC(K) \notin next /\ BUC(K) \notin next
       /\ \A K : BUC(K) \in local <=> K = I
       /\ \A K, Q : /\ BU(Q, K) \notin local
                    /\ BU(Q, K) \in next => Q = P /\ Own(K) = r /\ K < I /\ Own(P) # r
       /\ \A u \in next : u \in SolveTasks
  BY <1>4, <1>12, <1>13, SolveNames, SolveMembers
<1>16. BUC(I) \in SolveTasks
  BY SolveMembers
<1>17. local \cup next \subseteq graph
  <2>1. localDeps[BUC(I)] = 1
    BY <1>4, <1>9, <1>10 DEF SolveInv, SolveCounts, BUCCounts, Before
  <2>2. call[RankOf(BUC(I))] = 2
    BY <1>10, SolveNames
  <2>3. BUC(I) \in graph
    BY <1>16, <2>1, <2>2, InGraph
  <2> QED
    BY <1>4, <1>12, <2>3
<1>18. Ran(t) /\ SolveKinds' /\ SolveStatus' /\ t \notin graph
  BY <1>6, <1>8, <1>17, SolveRan
<1>19. \A u \in SolveTasks :
         /\ u \in local => localDeps'[u] = localDeps[u] - 1
         /\ u \notin local => localDeps'[u] = localDeps[u]
         /\ u \in next => remoteDeps'[u] = remoteDeps[u] - 1
         /\ u \notin next => remoteDeps'[u] = remoteDeps[u]
         /\ localDeps[u] \in Int /\ remoteDeps[u] \in Int
  <2>1. \A u \in SolveTasks : u \in Tasks /\ localDeps[u] \in Int /\ remoteDeps[u] \in Int
    BY <1>0, SolveMembers
  <2>2. \A u \in SolveTasks :
          /\ localDeps'[u] = localDeps[u] - IF u \in local THEN 1 ELSE 0
          /\ remoteDeps'[u] = remoteDeps[u] - IF u \in next THEN 1 ELSE 0
    BY <1>6, <2>1 DEF HasRun
  <2> QED
    BY <2>1, <2>2
<1>20. \A m : /\ m \in Pend' <=> m \in Pend
              /\ m \in DOMAIN got' <=> (m \in DOMAIN got /\ m[2] # t) \/ m \in DOMAIN handed
              /\ m \in DOMAIN handed => \E u \in next : m = <<P, u>>
  <2>1. \A m : /\ m \in DOMAIN got' <=> (m \in DOMAIN got /\ m[2] # t) \/ m \in DOMAIN handed
               /\ m \in DOMAIN got' => got'[m] = IF m \in DOMAIN handed THEN handed[m] ELSE got[m]
    BY <1>5, GotAfterRun
  <2>2. \A m \in DOMAIN handed : \E u \in next : m = <<P, u>>
    BY <1>4
  <2> QED
    BY <1>6, <2>1, <2>2 DEF HasRun
<1>21. /\ \A K : /\ Waits(FUC(K))' <=> Waits(FUC(K))
                 /\ Waits(BUC(K))' <=> Waits(BUC(K))
       /\ \A K, Q : Waits(BU(Q, K))' <=> Waits(BU(Q, K)) /\ ~(Q = P /\ K = I)
  BY <1>4, <1>14, <1>18 DEF Ran
<1>22. \A c : /\ NotUp(c)' <=> NotUp(c)
              /\ Up(c) \in Pend' <=> Up(c) \in Pend
  <2> TAKE c
  <2>1. Up(c) \in Pend' <=> Up(c) \in Pend
    BY <1>20
  <2>2. NotUp(c)' <=> Waits(FUC(c))' \/ Up(c) \in Pend'
    BY DEF NotUp, Up
  <2> QED
    BY <1>21, <2>1, <2>2 DEF NotUp
<1>23. \A Q, q : /\ Down(q, Q) \in Pend' <=> Down(q, Q) \in Pend
                 /\ NotDown(q, Q)' <=> NotDown(q, Q)
  <2> TAKE Q, q
  <2>1. Down(q, Q) \in Pend' <=> Down(q, Q) \in Pend
    BY <1>20
  <2>2. NotDown(q, Q)' <=> Waits(BUC(Q))' \/ Down(q, Q) \in Pend'
    BY DEF NotDown, Down, FirstOn
  <2> QED
    BY <1>21, <2>1, <2>2 DEF NotDown
<1>24. SentAfter'
  BY <1>21, <1>22, <1>23 DEF SolveInv, SolveCounts, SentAfter, Up, Down, FirstOn
<1>25. FUCCounts'
  <2> SUFFICES ASSUME NEW K \in Sup
               PROVE  /\ localDeps'[FUC(K)] = Cardinality({c \in LocalChildren(K) : Waits(FUC(c))'})
                      /\ remoteDeps'[FUC(K)] = Cardinality({c \in RemChildren(K) : NotUp(c)'})
    BY DEF FUCCounts, FUC
  <2>1. /\ {c \in RemChildren(K) : NotUp(c)'} = {c \in RemChildren(K) : NotUp(c)}
        /\ {c \in LocalChildren(K) : Waits(FUC(c))'} = {c \in LocalChildren(K) : Waits(FUC(c))}
    BY <1>21, <1>22
  <2>2. /\ localDeps[FUC(K)] = Cardinality({c \in LocalChildren(K) : Waits(FUC(c))})
        /\ remoteDeps[FUC(K)] = Cardinality({c \in RemChildren(K) : NotUp(c)})
    BY DEF SolveInv, SolveCounts, FUCCounts
  <2>3. FUC(K) \in SolveTasks
    BY SolveMembers
  <2>4. localDeps'[FUC(K)] = localDeps[FUC(K)] /\ remoteDeps'[FUC(K)] = remoteDeps[FUC(K)]
    BY <1>15, <1>19, <2>3
  <2> QED
    BY <2>1, <2>2, <2>4
<1>26. BUCCounts'
  <2> SUFFICES ASSUME NEW K \in Sup
               PROVE  /\ localDeps'[BUC(K)] = IF Waits(Before(K))' THEN 1 ELSE 0
                      /\ remoteDeps'[BUC(K)] = 0
    BY DEF BUCCounts, BUC, Before
  <2>1. /\ localDeps[BUC(K)] = IF Waits(Before(K)) THEN 1 ELSE 0
        /\ remoteDeps[BUC(K)] = 0
    BY DEF SolveInv, SolveCounts, BUCCounts
  <2>2. BUC(K) \in SolveTasks
    BY SolveMembers
  <2>3. Waits(Before(K))' <=> Waits(Before(K)) /\ K # I
    BY <1>9, <1>21 DEF Before
  <2>4. K = I => Waits(Before(K))
    BY <1>4, <1>9, <1>10 DEF Before
  <2> QED
    BY <1>15, <1>19, <2>1, <2>2, <2>3, <2>4
<1>27. BUCounts'
  <2> SUFFICES ASSUME NEW K \in Sup, ~IsRoot(K), NEW Q, Q = Parent(K), NEW u, u = BU(Q, K)
               PROVE  IF Own(Q) = Own(K)
                      THEN localDeps'[u] = (IF Waits(BUC(Q))' THEN 1 ELSE 0) /\ remoteDeps'[u] = 0
                      ELSE localDeps'[u] = 0 /\ remoteDeps'[u] = (IF Blocks(Q, K)' THEN 1 ELSE 0)
    BY DEF BUCounts
  <2>1. u \in SolveTasks /\ K \in Children(Q)
    BY SolveMembers, TreeFacts
  <2>2. localDeps'[u] = localDeps[u]
    BY <1>15, <1>19, <2>1
  <2>3. CASE Own(Q) = Own(K)
    <3>1. localDeps[u] = (IF Waits(BUC(Q)) THEN 1 ELSE 0) /\ remoteDeps[u] = 0
      BY <2>3 DEF SolveInv, SolveCounts, BUCounts
    <3>2. u \notin next
      BY <1>15, <2>3
    <3> QED
      BY <1>19, <1>21, <2>1, <2>2, <2>3, <3>1, <3>2
  <2>4. CASE Own(Q) # Own(K)
    <3>1. localDeps[u] = 0 /\ remoteDeps[u] = (IF Blocks(Q, K) THEN 1 ELSE 0)
      BY <2>4 DEF SolveInv, SolveCounts, BUCounts
    <3>2. Blocks(Q, K)' <=> Blocks(Q, K) /\ u \notin next
      <4>1. CASE Q = P /\ Own(K) = r
        <5>1. K \in ChildrenOn(r, P) /\ Own(P) # r
          BY <2>1, <2>4, <4>1 DEF ChildrenOn
        <5>2. ~NotDown(r, P)'
          BY <1>11, <1>23, <5>1 DEF HandsOn
        <5>3. Blocks(P, K)' <=> NotDown(r, P)' \/ \E c \in ChildrenOn(r, P) : c > K /\ Waits(BU(P, c))'
          BY <4>1 DEF Blocks
        <5>4. Blocks(P, K)' <=> \E c \in ChildrenOn(r, P) : c > K /\ c # I /\ Waits(BU(P, c))
          BY <1>21, <5>2, <5>3
        <5>5. (\E c \in ChildrenOn(r, P) : c > K /\ c # I /\ Waits(BU(P, c))) => Blocks(P, K)
          BY <4>1 DEF Blocks
        <5>6. u \in next <=>
                /\ Blocks(P, K)
                /\ ~ \E c \in ChildrenOn(r, P) : c > K /\ c # I /\ Waits(BU(P, c))
          BY <1>11, <4>1, <5>1 DEF HandsOn
        <5> QED
          BY <4>1, <5>4, <5>5, <5>6
      <4>2. CASE ~(Q = P /\ Own(K) = r)
        <5>1. u \notin next
          BY <1>15, <4>2
        <5>2. \A c \in ChildrenOn(Own(K), Q) : ~(Q = P /\ c = I)
          BY <1>9, <4>2 DEF ChildrenOn
        <5>3. Blocks(Q, K)' <=> Blocks(Q, K)
          BY <1>21, <1>23, <5>2 DEF Blocks
        <5> QED
          BY <5>1, <5>3
      <4> QED
        BY <4>1, <4>2
    <3>3. u \in next => Blocks(Q, K)
      <4> SUFFICES ASSUME u \in next PROVE Blocks(Q, K)
        OBVIOUS
      <4>1. Q = P /\ Own(K) = r /\ Own(P) # r
        BY <1>15
      <4>2. K \in ChildrenOn(r, P)
        BY <2>1, <4>1 DEF ChildrenOn
      <4> QED
        BY <1>11, <4>1, <4>2 DEF HandsOn
    <3>4. remoteDeps'[u] = IF Blocks(Q, K)' THEN 1 ELSE 0
      BY <1>19, <2>1, <3>1, <3>2, <3>3
    <3> QED
      BY <2>2, <2>4, <3>1, <3>4
  <2> QED
    BY <2>3, <2>4
<1>28. GotExact'
  <2>1. ASSUME NEW K \in Sup, NEW c \in RemChildren(K), Waits(FUC(K))'
        PROVE  Up(c) \in DOMAIN got' <=> ~NotUp(c)'
    <3>1. Waits(FUC(K)) /\ Up(c)[2] # t
      BY <1>4, <1>21, <2>1, SolveNames
    <3>2. Up(c) \notin DOMAIN handed
      <4> SUFFICES ASSUME NEW u \in next, Up(c) = <<P, u>> PROVE FALSE
        BY <1>20
      <4>1. \E d : u = BU(P, d)
        BY <1>12
      <4> QED
        BY <4>1, SolveNames DEF Up
    <3> QED
      BY <1>20, <1>22, <3>1, <3>2 DEF SolveInv, SolveCounts, GotExact
  <2>2. ASSUME NEW Q \in Sup, NEW q \in Others(Q), Waits(BU(Q, FirstOn(q, Q)))'
        PROVE  Down(q, Q) \in DOMAIN got' <=> ~NotDown(q, Q)'
    <3>1. Waits(BU(Q, FirstOn(q, Q))) /\ Down(q, Q)[2] # t
      BY <1>14, <1>21, <2>2, SolveNames
    <3>2. Down(q, Q) \notin DOMAIN handed
      <4> SUFFICES ASSUME NEW u \in next, Down(q, Q) = <<P, u>> PROVE FALSE
        BY <1>20
      <4>1. PICK d \in ChildrenOn(r, P) : u = BU(P, d) /\ d < I
        BY <1>12
      <4>2. Q = P /\ FirstOn(q, Q) = d
        BY <4>1, SolveNames DEF Down
      <4>3. Own(FirstOn(q, Q)) = q
        BY OthersFacts, FirstFacts
      <4>4. q = r
        BY <1>13, <4>2, <4>3
      <4>5. d >= I
        BY <1>9, <4>2, <4>4, FirstFacts
      <4> QED
        BY <1>9, <1>13, <4>1, <4>5
    <3> QED
      BY <1>20, <1>23, <3>1, <3>2 DEF SolveInv, SolveCounts, GotExact
  <2> QED
    BY <2>1, <2>2 DEF GotExact, Up, Down, FirstOn
<1>29. SolveCounts'
  BY <1>24, <1>25, <1>26, <1>27, <1>28 DEF SolveCounts
<1>30. \A u \in local \cup next : IsSolve(u)
  BY <1>4, <1>15, <1>16, SolveMembers
<1>31. \A m \in DOMAIN handed : m[2] \in next
  BY <1>20
<1> QED
  BY <1>5, <1>6, <1>8, <1>17, <1>29, <1>30, <1>31, SolveStepDone

-----------------------------------------------------------------------------
(* A message of the solve is handled.                                      *)

ReceivedForSolve(m, data) ==
  /\ HasReceived(m, data, FALSE)
  /\ m \in Pend /\ Pend' = Pend \ {m} /\ UNCHANGED call
  /\ call[RankOf(m[2])] = 2

LEMMA ReceivedIsFunction ==
  ASSUME NEW m, NEW data, NEW atOnce, Received(m, data, atOnce)
  PROVE  got' = [k \in DOMAIN got' |-> got'[k]]
<1>1. got' = [k \in DOMAIN got \cup {m} |-> IF k = m THEN data ELSE got[k]]
  BY DEF Received
<1> QED
  BY <1>1

LEMMA SolveReceived ==
  ASSUME CallsInv, SolveInv, NEW m, NEW data, ReceivedForSolve(m, data),
         m[2] \in SolveTasks, m[2] \in graph
  PROVE  /\ \A v : Waits(v)' <=> Waits(v)
         /\ SolveKinds' /\ SolveStatus'
         /\ \A v \in SolveTasks : /\ localDeps'[v] = localDeps[v]
                                  /\ v = m[2] => remoteDeps'[v] = remoteDeps[v] - 1
                                  /\ v # m[2] => remoteDeps'[v] = remoteDeps[v]
                                  /\ remoteDeps[v] \in Int
         /\ GotOnly /\ got' = [k \in DOMAIN got' |-> got'[k]] => GotOnly'
         /\ UNCHANGED factorVars => FactorUntouched
<1>0. PICK u, D : u = m[2] /\ D = DueNow({m[2]})
  OBVIOUS
<1>1. /\ u \in SolveTasks /\ u \in graph /\ u \in Tasks /\ IsSolve(u)
      /\ UNCHANGED call /\ Pend' = Pend \ {m}
      /\ graph' = graph \ D /\ ready' = ready \cup D
      /\ localDeps' = localDeps /\ remoteDeps' \in [Tasks -> Int]
      /\ \A v \in Tasks : remoteDeps'[v] = remoteDeps[v] - IF v = u THEN 1 ELSE 0
      /\ \A k : /\ k \in DOMAIN got' <=> k \in DOMAIN got \/ k = m
                /\ k \in DOMAIN got' => got'[k] = IF k = m THEN data ELSE got[k]
      /\ u = m[2]
  BY <1>0, SolveMembers DEF ReceivedForSolve, HasReceived
<1>2. /\ localDeps \in [Tasks -> Int] /\ remoteDeps \in [Tasks -> Int]
  BY DEF SolveInv, SolveKinds
<1>3. /\ D \subseteq {u}
      /\ u \in D <=> localDeps'[u] = 0 /\ remoteDeps'[u] = 0
  BY <1>0 DEF DueNow
<1>4. \A v : Waits(v)' <=> Waits(v)
  BY <1>1, <1>3 DEF Waits, Unexecuted
<1>5. \A v \in Tasks : /\ v = u => remoteDeps'[v] = remoteDeps[v] - 1
                       /\ v # u => remoteDeps'[v] = remoteDeps[v]
                       /\ remoteDeps[v] \in Int
  <2>1. \A v \in Tasks : remoteDeps[v] \in Int
    BY <1>2
  <2> QED
    BY <1>1, <2>1
<1>6. SolveKinds'
  <2>1. graph' \cup ready' \subseteq graph \cup ready
    BY <1>1, <1>3
  <2>2. \A v \in SolveTasks : ~(v \in graph' /\ v \in ready')
    BY <1>1 DEF SolveInv, SolveKinds
  <2>3. \A k \in Pend' : IsSolve(k[2]) => IsUp(k) \/ IsDown(k)
    BY <1>1 DEF SolveInv, SolveKinds
  <2> QED
    BY <1>1, <1>2, <2>1, <2>2, <2>3 DEF SolveInv, SolveKinds, IsUp, IsDown, Up, Down
<1>7. SolveStatus'
  <2> SUFFICES ASSUME NEW v \in SolveTasks, call[RankOf(v)] = 2
               PROVE  v \in graph' <=> localDeps'[v] # 0 \/ remoteDeps'[v] # 0
    BY <1>1 DEF SolveStatus
  <2>1. v \in graph <=> localDeps[v] # 0 \/ remoteDeps[v] # 0
    BY DEF SolveInv, SolveStatus
  <2>2. v \in Tasks
    BY SolveMembers
  <2>3. CASE v = u
    BY <1>1, <1>3, <2>3
  <2>4. CASE v # u
    BY <1>1, <1>3, <1>5, <2>1, <2>2, <2>4
  <2> QED
    BY <2>3, <2>4
<1>8. GotOnly /\ got' = [k \in DOMAIN got' |-> got'[k]] => GotOnly'
  BY <1>1, <1>3 DEF GotOnly
<1>9. UNCHANGED factorVars => FactorUntouched
  <2>1. \A v : ~IsSolve(v) => (v \in graph' <=> v \in graph) /\ (v \in ready' <=> v \in ready)
    BY <1>1, <1>3
  <2>2. \A k : ~IsSolve(k[2]) => /\ k \in Pend' <=> k \in Pend
                                 /\ k \in DOMAIN got => k \in DOMAIN got' /\ got'[k] = got[k]
    BY <1>1
  <2>3. \A v \in Tasks : ~IsSolve(v) => /\ localDeps'[v] = localDeps[v]
                                        /\ remoteDeps'[v] = remoteDeps[v]
    BY <1>1, <1>5
  <2> QED
    BY <1>1, <1>2, <2>1, <2>2, <2>3 DEF FactorUntouched
<1>10. \A v \in SolveTasks : v \in Tasks
  BY SolveMembers
<1> QED
  BY <1>1, <1>4, <1>5, <1>6, <1>7, <1>8, <1>9, <1>10

LEMMA UpReceived ==
  ASSUME CallsInv, SolveInv, NEW m, NEW data, ReceivedForSolve(m, data),
         NEW P, NEW b \in RemChildren(P), m = Up(b)
  PROVE  m[2] \in SolveTasks /\ m[2] \in graph /\ SolveCounts'
<1>1. /\ b \in Sup /\ P \in Sup /\ m[2] = FUC(P) /\ FUC(P) \in SolveTasks
      /\ b \in Children(P)
  BY UpIs, SolveMembers, SolveNames
<1>2. /\ m \in Pend /\ \A k : k \in Pend' <=> k \in Pend /\ k # m
      /\ \A k : k \in DOMAIN got' <=> k \in DOMAIN got \/ k = m
      /\ call[RankOf(m[2])] = 2
  BY DEF ReceivedForSolve, HasReceived
<1>3. ~Waits(FUC(b)) /\ NotUp(b)
  BY <1>1, <1>2 DEF SolveInv, SolveCounts, SentAfter, NotUp
<1>4. \A K \in Sup : IsFiniteSet({c \in RemChildren(K) : NotUp(c)})
  BY BranchFacts, FS_Subset
<1>5. m[2] \in graph
  <2>1. remoteDeps[FUC(P)] = Cardinality({c \in RemChildren(P) : NotUp(c)})
    BY <1>1 DEF SolveInv, SolveCounts, FUCCounts
  <2>2. b \in {c \in RemChildren(P) : NotUp(c)}
    BY <1>3
  <2>3. remoteDeps[FUC(P)] # 0
    BY <1>1, <1>4, <2>1, <2>2, FS_EmptySet
  <2> QED
    BY <1>1, <1>2, <2>3, InGraph
<1>6. /\ \A v : Waits(v)' <=> Waits(v)
      /\ \A v \in SolveTasks : /\ localDeps'[v] = localDeps[v]
                               /\ v = m[2] => remoteDeps'[v] = remoteDeps[v] - 1
                               /\ v # m[2] => remoteDeps'[v] = remoteDeps[v]
                               /\ remoteDeps[v] \in Int
  BY <1>1, <1>5, SolveReceived
<1>7. \A c : /\ NotUp(c)' <=> NotUp(c) /\ c # b
             /\ Up(c) \in Pend' <=> Up(c) \in Pend /\ c # b
             /\ Up(c) \in DOMAIN got' <=> Up(c) \in DOMAIN got \/ c = b
  <2> TAKE c
  <2>1. Up(c) = m <=> c = b
    BY SolveNames
  <2>2. NotUp(c)' <=> Waits(FUC(c))' \/ Up(c) \in Pend'
    BY DEF NotUp, Up
  <2> QED
    BY <1>2, <1>3, <1>6, <2>1, <2>2 DEF NotUp
<1>8. \A Q, q : /\ NotDown(q, Q)' <=> NotDown(q, Q)
                /\ Down(q, Q) \in Pend' <=> Down(q, Q) \in Pend
                /\ Down(q, Q) \in DOMAIN got' <=> Down(q, Q) \in DOMAIN got
  <2> TAKE Q, q
  <2>1. Down(q, Q) # m
    BY SolveNames
  <2>2. NotDown(q, Q)' <=> Waits(BUC(Q))' \/ Down(q, Q) \in Pend'
    BY DEF NotDown, Down, FirstOn
  <2> QED
    BY <1>2, <1>6, <2>1, <2>2 DEF NotDown
<1>9. SentAfter'
  <2>1. \A Q \in Sup : \A c \in RemChildren(Q) : Up(c) \in Pend' => ~Waits(FUC(c))'
    BY <1>6, <1>7 DEF SolveInv, SolveCounts, SentAfter
  <2>2. \A Q \in Sup : \A q \in Others(Q) : Down(q, Q) \in Pend' => ~Waits(BUC(Q))'
    BY <1>6, <1>8 DEF SolveInv, SolveCounts, SentAfter
  <2> QED
    BY <2>1, <2>2 DEF SentAfter, Up, Down, FirstOn
<1>10. FUCCounts'
  <2> SUFFICES ASSUME NEW K \in Sup
               PROVE  /\ localDeps'[FUC(K)] = Cardinality({c \in LocalChildren(K) : Waits(FUC(c))'})
                      /\ remoteDeps'[FUC(K)] = Cardinality({c \in RemChildren(K) : NotUp(c)'})
    BY DEF FUCCounts, FUC
  <2> DEFINE C == {c \in RemChildren(K) : NotUp(c)}
  <2>1. {c \in LocalChildren(K) : Waits(FUC(c))'} = {c \in LocalChildren(K) : Waits(FUC(c))}
    BY <1>6
  <2>2. /\ localDeps[FUC(K)] = Cardinality({c \in LocalChildren(K) : Waits(FUC(c))})
        /\ remoteDeps[FUC(K)] = Cardinality(C)
    BY DEF SolveInv, SolveCounts, FUCCounts
  <2>3. FUC(K) \in SolveTasks
    BY SolveMembers
  <2>4. {c \in RemChildren(K) : NotUp(c)'} = C \ {b}
    BY <1>7
  <2>5. FUC(K) = m[2] <=> K = P
    BY <1>1, SolveNames
  <2>6. remoteDeps'[FUC(K)] = Cardinality(C \ {b})
    <3>1. CASE K = P
      <4>1. b \in C /\ IsFiniteSet(C)
        BY <1>3, <1>4, <3>1
      <4>2. Cardinality(C \ {b}) = Cardinality(C) - 1
        BY <4>1, FS_RemoveElement
      <4> HIDE DEF C
      <4> QED
        BY <1>6, <2>2, <2>3, <2>5, <3>1, <4>2
    <3>2. CASE K # P
      <4>1. b \notin C
        BY <1>1, <3>2, UpIs
      <4>2. C \ {b} = C
        BY <4>1
      <4> QED
        BY <1>6, <2>2, <2>3, <2>5, <3>2, <4>2
    <3> QED
      BY <3>1, <3>2
  <2> QED
    BY <1>6, <2>1, <2>2, <2>3, <2>4, <2>6
<1>11. BUCCounts'
  <2> SUFFICES ASSUME NEW K \in Sup
               PROVE  /\ localDeps'[BUC(K)] = IF Waits(Before(K))' THEN 1 ELSE 0
                      /\ remoteDeps'[BUC(K)] = 0
    BY DEF BUCCounts, BUC, Before
  <2>1. /\ localDeps[BUC(K)] = IF Waits(Before(K)) THEN 1 ELSE 0
        /\ remoteDeps[BUC(K)] = 0
    BY DEF SolveInv, SolveCounts, BUCCounts
  <2>2. BUC(K) \in SolveTasks /\ BUC(K) # m[2]
    BY <1>1, SolveMembers, SolveNames
  <2> QED
    BY <1>6, <2>1, <2>2
<1>12. BUCounts'
  <2> SUFFICES ASSUME NEW K \in Sup, ~IsRoot(K), NEW Q, Q = Parent(K), NEW u, u = BU(Q, K)
               PROVE  IF Own(Q) = Own(K)
                      THEN localDeps'[u] = (IF Waits(BUC(Q))' THEN 1 ELSE 0) /\ remoteDeps'[u] = 0
                      ELSE localDeps'[u] = 0 /\ remoteDeps'[u] = (IF Blocks(Q, K)' THEN 1 ELSE 0)
    BY DEF BUCounts
  <2>1. u \in SolveTasks /\ u # m[2]
    BY <1>1, SolveMembers, SolveNames
  <2>2. Blocks(Q, K)' <=> Blocks(Q, K)
    BY <1>6, <1>8 DEF Blocks
  <2>3. localDeps'[u] = localDeps[u] /\ remoteDeps'[u] = remoteDeps[u]
    BY <1>6, <2>1
  <2> QED
    BY <1>6, <2>2, <2>3 DEF SolveInv, SolveCounts, BUCounts
<1>13. GotExact'
  <2>1. ASSUME NEW K \in Sup, NEW c \in RemChildren(K), Waits(FUC(K))'
        PROVE  Up(c) \in DOMAIN got' <=> ~NotUp(c)'
    BY <1>6, <1>7, <2>1 DEF SolveInv, SolveCounts, GotExact
  <2>2. ASSUME NEW Q \in Sup, NEW q \in Others(Q), Waits(BU(Q, FirstOn(q, Q)))'
        PROVE  Down(q, Q) \in DOMAIN got' <=> ~NotDown(q, Q)'
    BY <1>6, <1>8, <2>2 DEF SolveInv, SolveCounts, GotExact
  <2> QED
    BY <2>1, <2>2 DEF GotExact, Up, Down, FirstOn
<1> QED
  BY <1>1, <1>5, <1>9, <1>10, <1>11, <1>12, <1>13 DEF SolveCounts

LEMMA DownReceived ==
  ASSUME CallsInv, SolveInv, NEW m, NEW data, ReceivedForSolve(m, data),
         NEW P, NEW p \in Others(P), m = Down(p, P)
  PROVE  m[2] \in SolveTasks /\ m[2] \in graph /\ SolveCounts'
<1>0. PICK f : f = FirstOn(p, P)
  OBVIOUS
<1>1. /\ P \in Sup /\ f \in Sup /\ ~IsRoot(f) /\ Parent(f) = P /\ f \in RemChildren(P)
      /\ Own(f) = p /\ p # Own(P) /\ f \in ChildrenOn(p, P)
      /\ \A c \in ChildrenOn(p, P) : f >= c /\ c \in Int
      /\ m[2] = BU(P, f) /\ BU(P, f) \in SolveTasks
  <2>1. \A c \in ChildrenOn(p, P) : c \in Int
    BY TreeFacts, BranchFacts DEF Sup
  <2> QED
    BY <1>0, <2>1, OthersFacts, FirstFacts, SolveMembers, SolveNames
<1>2. /\ m \in Pend /\ \A k : k \in Pend' <=> k \in Pend /\ k # m
      /\ \A k : k \in DOMAIN got' <=> k \in DOMAIN got \/ k = m
      /\ call[RankOf(m[2])] = 2
  BY DEF ReceivedForSolve, HasReceived
<1>3. ~Waits(BUC(P)) /\ NotDown(p, P) /\ Blocks(P, f)
  BY <1>1, <1>2 DEF SolveInv, SolveCounts, SentAfter, NotDown, Blocks
<1>4. m[2] \in graph
  <2>1. remoteDeps[BU(P, f)] = 1
    BY <1>1, <1>3 DEF SolveInv, SolveCounts, BUCounts
  <2> QED
    BY <1>1, <1>2, <2>1, InGraph
<1>5. /\ \A v : Waits(v)' <=> Waits(v)
      /\ \A v \in SolveTasks : /\ localDeps'[v] = localDeps[v]
                               /\ v = m[2] => remoteDeps'[v] = remoteDeps[v] - 1
                               /\ v # m[2] => remoteDeps'[v] = remoteDeps[v]
                               /\ remoteDeps[v] \in Int
  BY <1>1, <1>4, SolveReceived
<1>6. Waits(BU(P, f))
  BY <1>1, <1>4 DEF Waits, Unexecuted
<1>7. \A c : /\ NotUp(c)' <=> NotUp(c)
             /\ Up(c) \in Pend' <=> Up(c) \in Pend
             /\ Up(c) \in DOMAIN got' <=> Up(c) \in DOMAIN got
  <2> TAKE c
  <2>1. Up(c) # m
    BY SolveNames
  <2>2. NotUp(c)' <=> Waits(FUC(c))' \/ Up(c) \in Pend'
    BY DEF NotUp, Up
  <2> QED
    BY <1>2, <1>5, <2>1, <2>2 DEF NotUp
<1>8. \A Q : \A q \in Others(Q) :
        /\ NotDown(q, Q)' <=> NotDown(q, Q) /\ ~(q = p /\ Q = P)
        /\ Down(q, Q) \in Pend' <=> Down(q, Q) \in Pend /\ ~(q = p /\ Q = P)
        /\ Down(q, Q) \in DOMAIN got' <=> Down(q, Q) \in DOMAIN got \/ (q = p /\ Q = P)
  <2> TAKE Q
  <2> TAKE q \in Others(Q)
  <2>1. Down(q, Q) = m <=> q = p /\ Q = P
    BY DownNames
  <2>2. NotDown(q, Q)' <=> Waits(BUC(Q))' \/ Down(q, Q) \in Pend'
    BY DEF NotDown, Down, FirstOn
  <2> QED
    BY <1>2, <1>3, <1>5, <2>1, <2>2 DEF NotDown
<1>9. SentAfter'
  <2>1. \A Q \in Sup : \A c \in RemChildren(Q) : Up(c) \in Pend' => ~Waits(FUC(c))'
    BY <1>5, <1>7 DEF SolveInv, SolveCounts, SentAfter
  <2>2. \A Q \in Sup : \A q \in Others(Q) : Down(q, Q) \in Pend' => ~Waits(BUC(Q))'
    BY <1>5, <1>8 DEF SolveInv, SolveCounts, SentAfter
  <2> QED
    BY <2>1, <2>2 DEF SentAfter, Up, Down, FirstOn
<1>10. FUCCounts'
  <2> SUFFICES ASSUME NEW K \in Sup
               PROVE  /\ localDeps'[FUC(K)] = Cardinality({c \in LocalChildren(K) : Waits(FUC(c))'})
                      /\ remoteDeps'[FUC(K)] = Cardinality({c \in RemChildren(K) : NotUp(c)'})
    BY DEF FUCCounts, FUC
  <2>1. /\ {c \in LocalChildren(K) : Waits(FUC(c))'} = {c \in LocalChildren(K) : Waits(FUC(c))}
        /\ {c \in RemChildren(K) : NotUp(c)'} = {c \in RemChildren(K) : NotUp(c)}
    BY <1>5, <1>7
  <2>2. /\ localDeps[FUC(K)] = Cardinality({c \in LocalChildren(K) : Waits(FUC(c))})
        /\ remoteDeps[FUC(K)] = Cardinality({c \in RemChildren(K) : NotUp(c)})
    BY DEF SolveInv, SolveCounts, FUCCounts
  <2>3. FUC(K) \in SolveTasks /\ FUC(K) # m[2]
    BY <1>1, SolveMembers, SolveNames
  <2> QED
    BY <1>5, <2>1, <2>2, <2>3
<1>11. BUCCounts'
  <2> SUFFICES ASSUME NEW K \in Sup
               PROVE  /\ localDeps'[BUC(K)] = IF Waits(Before(K))' THEN 1 ELSE 0
                      /\ remoteDeps'[BUC(K)] = 0
    BY DEF BUCCounts, BUC, Before
  <2>1. /\ localDeps[BUC(K)] = IF Waits(Before(K)) THEN 1 ELSE 0
        /\ remoteDeps[BUC(K)] = 0
    BY DEF SolveInv, SolveCounts, BUCCounts
  <2>2. BUC(K) \in SolveTasks /\ BUC(K) # m[2]
    BY <1>1, SolveMembers, SolveNames
  <2> QED
    BY <1>5, <2>1, <2>2
<1>12. BUCounts'
  <2> SUFFICES ASSUME NEW K \in Sup, ~IsRoot(K), NEW Q, Q = Parent(K), NEW u, u = BU(Q, K)
               PROVE  IF Own(Q) = Own(K)
                      THEN localDeps'[u] = (IF Waits(BUC(Q))' THEN 1 ELSE 0) /\ remoteDeps'[u] = 0
                      ELSE localDeps'[u] = 0 /\ remoteDeps'[u] = (IF Blocks(Q, K)' THEN 1 ELSE 0)
    BY DEF BUCounts
  <2>1. u \in SolveTasks /\ (u = m[2] <=> Q = P /\ K = f) /\ K \in Children(Q)
    BY <1>1, SolveMembers, SolveNames, TreeFacts
  <2>2. CASE Own(Q) = Own(K)
    <3>1. localDeps[u] = (IF Waits(BUC(Q)) THEN 1 ELSE 0) /\ remoteDeps[u] = 0
      BY <2>2 DEF SolveInv, SolveCounts, BUCounts
    <3>2. u # m[2]
      BY <1>1, <2>1, <2>2
    <3> QED
      BY <1>5, <2>1, <2>2, <3>1, <3>2
  <2>3. CASE Own(Q) # Own(K)
    <3>1. localDeps[u] = 0 /\ remoteDeps[u] = (IF Blocks(Q, K) THEN 1 ELSE 0)
      BY <2>3 DEF SolveInv, SolveCounts, BUCounts
    <3>2. Own(K) \in Others(Q) /\ K \in ChildrenOn(Own(K), Q)
      BY <2>1, <2>3, BranchFacts DEF Others, ChildrenOn
    <3>3. Blocks(Q, K)' <=> \/ NotDown(Own(K), Q)'
                            \/ \E c \in ChildrenOn(Own(K), Q) : c > K /\ Waits(BU(Q, c))
      BY <1>5 DEF Blocks
    <3>4. CASE u = m[2]
      <4>1. Q = P /\ K = f /\ ~NotDown(p, P)'
        BY <1>1, <1>8, <2>1, <3>4
      <4>2. ~ \E c \in ChildrenOn(p, P) : c > f
        BY <1>1
      <4>3. ~Blocks(Q, K)'
        BY <1>1, <3>3, <4>1, <4>2
      <4>4. remoteDeps[u] = 1
        BY <1>3, <3>1, <4>1
      <4> QED
        BY <1>5, <2>1, <2>3, <3>1, <3>4, <4>3, <4>4
    <3>5. CASE u # m[2]
      <4>1. Blocks(Q, K)' <=> Blocks(Q, K)
        <5>1. CASE Q = P /\ Own(K) = p
          <6>1. f > K /\ f \in ChildrenOn(p, P)
            BY <1>1, <2>1, <3>2, <3>5, <5>1
          <6>2. Blocks(Q, K)
            BY <1>6, <5>1, <6>1 DEF Blocks
          <6> QED
            BY <1>6, <3>3, <5>1, <6>1, <6>2
        <5>2. CASE ~(Q = P /\ Own(K) = p)
          <6>1. NotDown(Own(K), Q)' <=> NotDown(Own(K), Q)
            BY <1>8, <3>2, <5>2
          <6> QED
            BY <3>3, <6>1 DEF Blocks
        <5> QED
          BY <5>1, <5>2
      <4> QED
        BY <1>5, <2>1, <2>3, <3>1, <3>5, <4>1
    <3> QED
      BY <3>4, <3>5
  <2> QED
    BY <2>2, <2>3
<1>13. GotExact'
  <2>1. ASSUME NEW K \in Sup, NEW c \in RemChildren(K), Waits(FUC(K))'
        PROVE  Up(c) \in DOMAIN got' <=> ~NotUp(c)'
    BY <1>5, <1>7, <2>1 DEF SolveInv, SolveCounts, GotExact
  <2>2. ASSUME NEW Q \in Sup, NEW q \in Others(Q), Waits(BU(Q, FirstOn(q, Q)))'
        PROVE  Down(q, Q) \in DOMAIN got' <=> ~NotDown(q, Q)'
    BY <1>5, <1>8, <2>2 DEF SolveInv, SolveCounts, GotExact
  <2> QED
    BY <2>1, <2>2 DEF GotExact, Up, Down, FirstOn
<1> QED
  BY <1>1, <1>4, <1>9, <1>10, <1>11, <1>12, <1>13 DEF SolveCounts

LEMMA SolveMessageKeepsSolve ==
  ASSUME CallsInv, SolveInv, NEW m, NEW data, ReceivedForSolve(m, data), IsSolve(m[2]),
         got' = [k \in DOMAIN got' |-> got'[k]], UNCHANGED factorVars
  PROVE  SolveInv' /\ FactorUntouched /\ (GotOnly => GotOnly')
<1>1. IsUp(m) \/ IsDown(m)
  BY DEF ReceivedForSolve, SolveInv, SolveKinds
<1>2. m[2] \in SolveTasks /\ m[2] \in graph /\ SolveCounts'
  <2>1. CASE IsUp(m)
    <3>1. PICK c \in Sup : ~IsRoot(c) /\ Own(Parent(c)) # Own(c) /\ m = Up(c)
      BY <2>1 DEF IsUp
    <3>2. c \in RemChildren(Parent(c))
      BY <3>1, TreeFacts, BranchFacts
    <3> QED
      BY <3>1, <3>2, UpReceived
  <2>2. CASE IsDown(m)
    <3>1. PICK P \in Sup : \E q \in Others(P) : m = Down(q, P)
      BY <2>2 DEF IsDown
    <3>2. PICK q \in Others(P) : m = Down(q, P)
      BY <3>1
    <3> QED
      BY <3>2, DownReceived
  <2> QED
    BY <1>1, <2>1, <2>2
<1>3. SolveKinds' /\ SolveStatus' /\ (GotOnly => GotOnly') /\ FactorUntouched
  BY <1>2, SolveReceived
<1> QED
  BY <1>2, <1>3 DEF SolveInv

-----------------------------------------------------------------------------
(* The inductive invariant: what every step keeps.                         *)

Inv1D ==
  /\ CallsInv /\ OnePlace /\ FactorInv /\ SolveInv /\ GotOnly
  /\ Idle /\ Past /\ Quiet1

LEMMA NoNewTasks ==
  ASSUME Idle, Past, graph' \cup ready' \subseteq graph \cup ready, UNCHANGED <<call, pc>>
  PROVE  Idle' /\ Past'
<1>1. \A r : Mine(r, graph' \cup ready') \subseteq Mine(r, graph \cup ready)
  BY DEF Mine
<1>2. Idle'
  BY <1>1 DEF Idle, Mine
<1>3. Past'
  BY <1>1 DEF Past, Mine
<1> QED
  BY <1>2, <1>3

LEMMA SameQuiet ==
  ASSUME Quiet1, UNCHANGED <<call, pc, remDealloc>>
  PROVE  Quiet1'
  BY DEF Quiet1

LEMMA FactorTaskRuns ==
  ASSUME Inv1D, NEW r \in Rank, NEW t, NEW local, NEW remote, NEW sent,
         Run(r, t, local, remote, sent, <<>>), local \cup remote \subseteq graph,
         t \notin graph, ~IsSolve(t), \A u \in local \cup remote : ~IsSolve(u),
         \A m \in sent : ~IsSolve(m[2]), sent \cap Pend = {}
  PROVE  /\ SolveInv' /\ OnePlace' /\ GotOnly' /\ Idle' /\ Past'
         /\ pc[r] = "work" /\ call[r] # 2 /\ UNCHANGED <<call, pc>>
<1>1. localDeps \in [Tasks -> Int] /\ remoteDeps \in [Tasks -> Int]
  BY DEF Inv1D, FactorInv, FTypes
<1>2. HasRun(r, t, local, remote, sent)
  BY <1>1, RunEffects
<1>3. SolveInv'
  <2>1. SolveUntouched
    BY <1>1, <1>2, FactorRunUntouched
  <2> QED
    BY <2>1, UntouchedKeepsSolve DEF Inv1D
<1>4. OnePlace'
  BY <1>2, OnePlaceLater DEF HasRun, MsgsInv, Inv1D
<1>5. GotOnly'
  <2>1. \A m \in DOMAIN <<>> : m[2] \in graph
    OBVIOUS
  <2> QED
    BY <1>2, <2>1, RunKeepsGot DEF Inv1D
<1>6. UNCHANGED <<call, pc>> /\ t \in ready /\ RankOf(t) = r /\ pc[r] = "work"
  BY <1>2 DEF HasRun
<1>7. Idle' /\ Past'
  <2>1. graph' \cup ready' \subseteq graph \cup ready
    BY <1>2 DEF HasRun, DueNow
  <2> QED
    BY <1>6, <2>1, NoNewTasks DEF Inv1D
<1>8. call[r] # 2
  BY <1>6 DEF Inv1D, Past, Mine
<1> QED
  BY <1>3, <1>4, <1>5, <1>6, <1>7, <1>8

LEMMA FactorKeepsInv ==
  ASSUME Inv1D, NEW r \in Rank, NEW I \in Sup, Factor(r, I)
  PROVE  Inv1D'
<1>0. FactorInv
  BY DEF Inv1D
<1>1. CallsInv'
  BY FactorKeepsCalls DEF Inv1D
<1>2. FactorInv' /\ FactorMessages(I) \cap Pend = {}
  BY <1>0, FactorKeepsFactor
<1>3. PICK S : S = {UPDATE(I, J) : J \in UpdatesOn(r, I)}
  OBVIOUS
<1>4. Run(r, FACTOR(I), S, {}, FactorMessages(I), <<>>) /\ UNCHANGED remDealloc
  BY <1>3 DEF Factor
<1>5. S \subseteq graph /\ FACTOR(I) \notin graph /\ \A u \in S : u \in UpdateTasks(I)
  BY <1>0, <1>3, FactorReleases
<1>6. /\ ~IsSolve(FACTOR(I)) /\ \A u \in S \cup {} : ~IsSolve(u)
      /\ \A m \in FactorMessages(I) : ~IsSolve(m[2])
  <2>1. \A m \in FactorMessages(I) : \E u \in UpdateTasks(I) : m = <<I, u>>
    BY FirstMsgShape
  <2> QED
    BY <1>5, <2>1, FactorTaskShape, UpdateTaskShape
<1>7. /\ SolveInv' /\ OnePlace' /\ GotOnly' /\ Idle' /\ Past'
      /\ UNCHANGED <<call, pc>>
  BY <1>2, <1>4, <1>5, <1>6, FactorTaskRuns
<1>8. Quiet1'
  BY <1>4, <1>7, SameQuiet DEF Inv1D
<1> QED
  BY <1>1, <1>2, <1>7, <1>8 DEF Inv1D

LEMMA UpdateKeepsInv ==
  ASSUME Inv1D, NEW r \in Rank, NEW I \in Sup, NEW J \in Sup, Update(r, I, J)
  PROVE  Inv1D'
<1>0. FactorInv
  BY DEF Inv1D
<1>1. CallsInv'
  BY UpdateKeepsCalls DEF Inv1D
<1>2. PICK t, T, last, local, sent :
        /\ t = UPDATE(I, J) /\ T = Targets(r, I, J)
        /\ last = {K \in T : Announced(r, K)}
        /\ local = {FACTOR(K) : K \in {L \in T : Own(L) = r}}
        /\ sent = {AggMsg(I, K) : K \in last}
  OBVIOUS
<1>3. FactorInv' /\ sent \cap Pend = {}
  BY <1>0, <1>2, UpdateKeepsFactor
<1>4. /\ Run(r, t, local, {}, sent, <<>>)
      /\ remDealloc' = [remDealloc EXCEPT ![r] = @ + Cardinality(last)]
  BY <1>2 DEF Update, AggMsg
<1>5. /\ t \in UpdateTasks(I) /\ t \notin graph /\ local \subseteq graph
      /\ UpdateDone(r, I, T, last)
  BY <1>0, <1>2, UpdateReleases
<1>6. /\ ~IsSolve(t) /\ \A u \in local \cup {} : ~IsSolve(u)
      /\ \A m \in sent : ~IsSolve(m[2])
  <2>1. \A K \in T : K \in Sup
    BY <1>5 DEF UpdateDone
  <2> QED
    BY <1>2, <1>5, <2>1, FactorTaskShape, UpdateTaskShape, AggShape
<1>7. /\ SolveInv' /\ OnePlace' /\ GotOnly' /\ Idle' /\ Past'
      /\ pc[r] = "work" /\ call[r] # 2 /\ UNCHANGED <<call, pc>>
  BY <1>3, <1>4, <1>5, <1>6, FactorTaskRuns
<1>8. Quiet1'
  <2>1. \A q \in Rank : q # r => remDealloc'[q] = remDealloc[q]
    BY <1>0, <1>4 DEF FactorInv, FTypes
  <2> QED
    BY <1>7, <2>1 DEF Quiet1, Inv1D
<1> QED
  BY <1>1, <1>3, <1>7, <1>8 DEF Inv1D

LEMMA AggregateKeepsInv ==
  ASSUME Inv1D, NEW r \in Rank, NEW I \in Sup, NEW K \in Sup, Aggregate(r, I, K)
  PROVE  Inv1D'
<1>0. FactorInv
  BY DEF Inv1D
<1>1. CallsInv'
  BY AggregateKeepsCalls DEF Inv1D
<1>2. FactorInv'
  BY <1>0, AggregateKeepsFactor
<1>3. PICK t : t = AGGREGATE(I, K)
  OBVIOUS
<1>4. Run(r, t, {}, {FACTOR(K)}, {}, <<>>) /\ UNCHANGED remDealloc
  BY <1>3 DEF Aggregate
<1>5. t \notin graph /\ FACTOR(K) \in graph
  BY <1>0, <1>3, AggregateReleases
<1>6. ~IsSolve(t) /\ ~IsSolve(FACTOR(K))
  BY <1>3, FactorTaskShape, AggShape
<1>7. /\ SolveInv' /\ OnePlace' /\ GotOnly' /\ Idle' /\ Past'
      /\ UNCHANGED <<call, pc>>
  BY <1>4, <1>5, <1>6, FactorTaskRuns
<1>8. Quiet1'
  BY <1>4, <1>7, SameQuiet DEF Inv1D
<1> QED
  BY <1>1, <1>2, <1>7, <1>8 DEF Inv1D

(* A task of the solve.                                                    *)
LEMMA SolveStepKeepsInv ==
  ASSUME Inv1D, SolveStep, CallsInv',
         graph' \cup ready' \subseteq graph \cup ready, UNCHANGED <<call, pc, factorVars>>
  PROVE  Inv1D'
<1>1. SolveInv' /\ FactorUntouched /\ GotOnly' /\ OnePlace'
  BY DEF SolveStep, Inv1D
<1>2. FactorInv'
  BY <1>1, UntouchedKeepsFactor DEF Inv1D
<1>3. Idle' /\ Past'
  BY NoNewTasks DEF Inv1D
<1>4. Quiet1'
  BY SameQuiet DEF Inv1D, factorVars
<1> QED
  BY <1>1, <1>2, <1>3, <1>4 DEF Inv1D

LEMMA SolveTaskKeepsInv ==
  ASSUME Inv1D, NEW r \in Rank, SolveTask(r), UNCHANGED factorVars
  PROVE  Inv1D'
<1>1. CallsInv'
  BY ExecuteKeepsCalls DEF Inv1D, Execute
<1>2. PICK t \in Mine(r, ready) :
        \/ t[1] = "FUC" /\ Forward(r, t[3])
        \/ t[1] = "BUC" /\ Backward(r, t[3])
        \/ t[1] = "BU"  /\ CopyDown(r, t[2], t[3])
  BY DEF SolveTask
<1>3. t[2] \in Sup /\ t[3] \in Sup
  BY DEF Inv1D, CallsInv, TasksInv, Mine, AnyTask
<1>4. \/ Forward(r, t[3]) /\ Own(t[3]) = r
      \/ Backward(r, t[3]) /\ Own(t[3]) = r
      \/ CopyDown(r, t[2], t[3]) /\ Own(t[3]) = r
  <2>1. /\ Forward(r, t[3]) => RankOf(FUC(t[3])) = r
        /\ Backward(r, t[3]) => RankOf(BUC(t[3])) = r
        /\ CopyDown(r, t[2], t[3]) => RankOf(BU(t[2], t[3])) = r
    BY DEF Forward, Backward, CopyDown, Run, Mine
  <2> QED
    BY <1>2, <1>3, <2>1, SolveTaskTypes
<1>5. SolveStep
  BY <1>3, <1>4, ForwardKeepsSolve, BackwardKeepsSolve, CopyDownKeepsSolve DEF Inv1D
<1>6. UNCHANGED <<call, pc>>
  BY <1>4 DEF Forward, Backward, CopyDown, Run, placeVars
<1>7. graph' \cup ready' \subseteq graph \cup ready
  BY <1>5 DEF SolveStep
<1> QED
  BY <1>1, <1>5, <1>6, <1>7, SolveStepKeepsInv

-----------------------------------------------------------------------------
(* A message is handled: it is one of those the invariant says there are.  *)

MessageTaken(r, m, data, atOnce) ==
  /\ pc[r] = "check" /\ RankOf(m[2]) = r
  /\ Received(m, data, atOnce)
  /\ m \in Pend /\ Pend' = Pend \ {m} /\ OnePlace'
  /\ UNCHANGED <<call, pc, factorVars>>

LEMMA SolveMessageKeepsInv ==
  ASSUME Inv1D, CallsInv', NEW r \in Rank, NEW m, NEW data,
         MessageTaken(r, m, data, FALSE), IsSolve(m[2]), call[r] = 2
  PROVE  Inv1D'
<1>1. localDeps \in [Tasks -> Int] /\ remoteDeps \in [Tasks -> Int]
  BY DEF Inv1D, FactorInv, FTypes
<1>2. HasReceived(m, data, FALSE) /\ got' = [k \in DOMAIN got' |-> got'[k]]
  BY <1>1, ReceivedEffects, ReceivedIsFunction DEF MessageTaken
<1>3. ReceivedForSolve(m, data)
  BY <1>2 DEF ReceivedForSolve, MessageTaken
<1>4. SolveInv' /\ FactorUntouched /\ GotOnly'
  <2>1. UNCHANGED factorVars
    BY DEF MessageTaken
  <2> QED
    BY <1>2, <1>3, <2>1, SolveMessageKeepsSolve DEF Inv1D
<1>5. FactorInv'
  BY <1>4, UntouchedKeepsFactor DEF Inv1D
<1>6. Idle' /\ Past'
  <2>1. (IsUp(m) \/ IsDown(m)) => m[2] \in graph
    <3>1. ASSUME IsUp(m) PROVE m[2] \in graph
      <4>1. PICK c \in Sup : ~IsRoot(c) /\ Own(Parent(c)) # Own(c) /\ m = Up(c)
        BY <3>1 DEF IsUp
      <4>2. c \in RemChildren(Parent(c))
        BY <4>1, TreeFacts, BranchFacts
      <4> QED
        BY <1>3, <4>1, <4>2, UpReceived DEF Inv1D
    <3>2. ASSUME IsDown(m) PROVE m[2] \in graph
      <4>1. PICK P \in Sup : \E q \in Others(P) : m = Down(q, P)
        BY <3>2 DEF IsDown
      <4>2. PICK q \in Others(P) : m = Down(q, P)
        BY <4>1
      <4> QED
        BY <1>3, <4>2, DownReceived DEF Inv1D
    <3> QED
      BY <3>1, <3>2
  <2>2. m[2] \in graph
    BY <2>1 DEF MessageTaken, Inv1D, SolveInv, SolveKinds
  <2>3. graph' \cup ready' \subseteq graph \cup ready
    BY <1>2, <2>2 DEF HasReceived, DueNow
  <2> QED
    BY <2>3, NoNewTasks DEF Inv1D, MessageTaken
<1>7. Quiet1'
  BY SameQuiet DEF Inv1D, MessageTaken, factorVars
<1> QED
  BY <1>4, <1>5, <1>6, <1>7 DEF Inv1D, MessageTaken

LEMMA FactorMessageKeepsInv ==
  ASSUME Inv1D, CallsInv', NEW r \in Rank, NEW m, NEW data,
         MessageTaken(r, m, data, FALSE), IsFirstMsg(m)
  PROVE  Inv1D'
<1>0. FactorInv /\ m \in Pend /\ Pend' = Pend \ {m} /\ Received(m, data, FALSE)
  BY DEF Inv1D, MessageTaken
<1>1. FactorInv'
  BY <1>0, FirstMessageKeepsFactor DEF MessageTaken
<1>2. PICK I \in Sup : m \in FactorMessages(I)
  BY DEF IsFirstMsg
<1>3. PICK t \in UpdateTasks(I) : m = <<I, t>>
  BY <1>2, FirstMsgShape
<1>4. t \in graph /\ m[2] = t /\ ~IsSolve(t)
  BY <1>0, <1>3, UpdateTaskShape DEF FactorInv, UpdateStatus
<1>5. localDeps \in [Tasks -> Int] /\ remoteDeps \in [Tasks -> Int]
  BY DEF Inv1D, FactorInv, FTypes
<1>6. HasReceived(m, data, FALSE) /\ got' = [k \in DOMAIN got' |-> got'[k]]
  BY <1>0, <1>5, ReceivedEffects, ReceivedIsFunction
<1>7. PICK D : D = DueNow({t})
  OBVIOUS
<1>8. /\ graph' = graph \ D /\ ready' = ready \cup D /\ D \subseteq {t}
      /\ localDeps' = localDeps /\ remoteDeps' \in [Tasks -> Int]
      /\ \A u \in Tasks : remoteDeps'[u] = remoteDeps[u] - IF u = t THEN 1 ELSE 0
      /\ \A k : /\ k \in DOMAIN got' <=> k \in DOMAIN got \/ k = m
                /\ k \in DOMAIN got' => got'[k] = IF k = m THEN data ELSE got[k]
  BY <1>4, <1>6, <1>7 DEF HasReceived, DueNow
<1>9. SolveUntouched
  <2>1. \A u : IsSolve(u) => u \notin D /\ u # t
    BY <1>4, <1>8
  <2>2. \A u \in Tasks : remoteDeps[u] \in Int
    BY <1>5
  <2>3. \A u \in Tasks : IsSolve(u) => localDeps'[u] = localDeps[u] /\ remoteDeps'[u] = remoteDeps[u]
    BY <1>8, <2>1, <2>2
  <2>4. \A k : IsSolve(k[2]) => /\ k \in Pend' <=> k \in Pend
                                /\ k \in DOMAIN got' <=> k \in DOMAIN got
    BY <1>0, <1>4, <1>8
  <2>5. \A u : IsSolve(u) => (u \in graph' <=> u \in graph) /\ (u \in ready' <=> u \in ready)
    BY <1>8, <2>1
  <2> QED
    BY <1>5, <1>8, <2>3, <2>4, <2>5 DEF SolveUntouched, MessageTaken
<1>10. SolveInv'
  BY <1>9, UntouchedKeepsSolve DEF Inv1D
<1>11. GotOnly'
  BY <1>4, <1>6, <1>8 DEF GotOnly, Inv1D
<1>12. Idle' /\ Past'
  <2>1. graph' \cup ready' \subseteq graph \cup ready
    BY <1>4, <1>8
  <2> QED
    BY <2>1, NoNewTasks DEF Inv1D, MessageTaken
<1>13. Quiet1'
  BY SameQuiet DEF Inv1D, MessageTaken, factorVars
<1> QED
  BY <1>1, <1>10, <1>11, <1>12, <1>13 DEF Inv1D, MessageTaken

(* No aggregate comes to a rank that has left the loop of Factorize.       *)
LEMMA AggregateMessageKeepsInv ==
  ASSUME Inv1D, CallsInv', NEW r \in Rank, NEW m, NEW data,
         MessageTaken(r, m, data, TRUE), IsAggMsg(m),
         data = sum[Adder(m)][m[2][3]]
  PROVE  Inv1D'
<1>0. FactorInv /\ m \in Pend /\ Pend' = Pend \ {m} /\ Received(m, data, TRUE)
  BY DEF Inv1D, MessageTaken
<1>1. PICK I \in Sup : \E K \in Struct[I] : Updater(K, I) # Own(K) /\ m = AggMsg(I, K)
  BY DEF IsAggMsg
<1>2. PICK K \in Struct[I] : Updater(K, I) # Own(K) /\ m = AggMsg(I, K)
  BY <1>1
<1>3. PICK t, s : t = AGGREGATE(I, K) /\ s = Updater(K, I)
  OBVIOUS
<1>4. /\ m[2] = t /\ ~IsSolve(t) /\ RankOf(t) = Own(K) /\ Own(K) = r
      /\ data = sum[s][K]
  BY <1>2, <1>3, AggShape DEF MessageTaken
<1>5. FactorInv'
  <2>1. UNCHANGED factorVars
    BY DEF MessageTaken
  <2> QED
    BY <1>0, <1>2, <1>3, <1>4, <2>1, AggregateMessageKeepsFactor
<1>6. localDeps \in [Tasks -> Int] /\ remoteDeps \in [Tasks -> Int]
  BY DEF Inv1D, FactorInv, FTypes
<1>7. HasReceived(m, data, TRUE) /\ got' = [k \in DOMAIN got' |-> got'[k]]
  BY <1>0, <1>6, ReceivedEffects, ReceivedIsFunction
<1>8. /\ ready' = ready \cup {t} /\ UNCHANGED <<graph, localDeps, remoteDeps>>
      /\ \A k : /\ k \in DOMAIN got' <=> k \in DOMAIN got \/ k = m
                /\ k \in DOMAIN got' => got'[k] = IF k = m THEN data ELSE got[k]
  BY <1>4, <1>7 DEF HasReceived
<1>9. SolveUntouched
  <2>1. \A u : IsSolve(u) => (u \in graph' <=> u \in graph) /\ (u \in ready' <=> u \in ready)
    BY <1>4, <1>8
  <2>2. \A k : IsSolve(k[2]) => /\ k \in Pend' <=> k \in Pend
                                /\ k \in DOMAIN got' <=> k \in DOMAIN got
    BY <1>0, <1>4, <1>8
  <2> QED
    BY <1>6, <1>8, <2>1, <2>2 DEF SolveUntouched, MessageTaken
<1>10. SolveInv'
  BY <1>9, UntouchedKeepsSolve DEF Inv1D
<1>11. GotOnly'
  BY <1>4, <1>7, <1>8 DEF GotOnly, Inv1D
<1>12. FACTOR(K) \in graph
  <2>1. K \in Sup /\ s \in Rank /\ I \in Sources(s, K)
    BY <1>3, StructFacts
  <2>2. ~Added(s, K)
    BY <1>0, <1>2, <2>1 DEF Added, Carries
  <2>3. s \in Awaited(K)
    BY <1>2, <1>3, <2>1, <2>2 DEF Awaited
  <2> QED
    BY <1>0, <2>1, <2>3 DEF FactorInv, FactorCounts
<1>13. call[r] # 2
  <2>1. K \in Sup
    BY StructFacts
  <2>2. FACTOR(K) \in Mine(r, graph \cup ready) /\ ~IsSolve(FACTOR(K))
    BY <1>4, <1>12, <2>1, FactorTaskShape DEF Mine
  <2> QED
    BY <2>2 DEF Inv1D, Past
<1>14. \A q \in Rank : q # r => Mine(q, graph' \cup ready') = Mine(q, graph \cup ready)
  BY <1>4, <1>8 DEF Mine
<1>15. Idle'
  <2>1. \A q \in Rank : pc'[q] \in {"drain", "barrier", "end"} => q # r
    BY DEF MessageTaken
  <2> QED
    BY <1>14, <2>1 DEF Idle, Inv1D, MessageTaken, Mine
<1>16. Past'
  <2>1. \A q \in Rank : call'[q] = 2 => q # r
    BY <1>13 DEF MessageTaken
  <2> QED
    BY <1>14, <2>1 DEF Past, Inv1D, MessageTaken, Mine
<1>17. Quiet1'
  BY SameQuiet DEF Inv1D, MessageTaken, factorVars
<1> QED
  BY <1>5, <1>10, <1>11, <1>15, <1>16, <1>17 DEF Inv1D, MessageTaken

LEMMA MessageKeepsInv ==
  ASSUME Inv1D, CallsInv', NEW r \in Rank, NEW m,
         MessageTaken(r, m, Data(m), AtOnce(m)), Early => m \in FactorMessage
  PROVE  Inv1D'
<1>1. PICK d, a : d = Data(m) /\ a = AtOnce(m)
  OBVIOUS
<1>2. MessageTaken(r, m, d, a)
  BY <1>1
<1>3. m \in Pend /\ pc[r] = "check"
  BY <1>2 DEF MessageTaken
<1>4. CASE IsSolve(m[2])
  <2>1. a = FALSE
    BY <1>1, <1>4 DEF AtOnce
  <2>2. call[r] = 2
    BY <1>3, <1>4, SolveMessageInSolve DEF Inv1D
  <2> QED
    BY <1>2, <1>4, <2>1, <2>2, SolveMessageKeepsInv
<1>5. CASE ~IsSolve(m[2])
  <2>1. IsFirstMsg(m) \/ IsAggMsg(m)
    BY <1>3, <1>5 DEF Inv1D, FactorInv, FKinds
  <2>2. d = FactorData(m) /\ a \in BOOLEAN /\ (a <=> IsAggregate(m))
    BY <1>1, <1>5 DEF Data, AtOnce, IsAggregate
  <2>3. CASE IsFirstMsg(m)
    <3>1. PICK I \in Sup : m \in FactorMessages(I)
      BY <2>3 DEF IsFirstMsg
    <3>2. \E t \in UpdateTasks(I) : m = <<I, t>>
      BY <3>1, FirstMsgShape
    <3>3. ~IsAggregate(m)
      BY <3>2, UpdateTaskShape DEF IsAggregate
    <3>4. a = FALSE
      BY <2>2, <3>3
    <3> QED
      BY <1>2, <2>3, <3>4, FactorMessageKeepsInv
  <2>4. CASE IsAggMsg(m)
    <3>1. IsAggregate(m)
      BY <2>4, AggShape DEF IsAggMsg
    <3>2. a = TRUE /\ d = sum[Adder(m)][m[2][3]]
      BY <2>2, <3>1 DEF FactorData, IsAggregate
    <3> QED
      BY <1>2, <2>4, <3>2, AggregateMessageKeepsInv
  <2> QED
    BY <2>1, <2>3, <2>4
<1> QED
  BY <1>4, <1>5

LEMMA TakeAsyncKeepsInv ==
  ASSUME Inv1D, NEW r \in Rank, NEW m \in async,
         TakeAsync(r, m, Data(m), AtOnce(m)), UNCHANGED factorVars
  PROVE  Inv1D'
<1>1. PICK d, a : d = Data(m) /\ a = AtOnce(m)
  OBVIOUS
<1>2. TakeAsync(r, m, d, a)
  BY <1>1
<1>3. CallsInv'
  BY <1>2, TakeAsyncKeepsCalls DEF Inv1D
<1>4. /\ async' = async \ {m} /\ UNCHANGED <<net, blocking, call, pc>>
      /\ pc[r] = "check" /\ RankOf(m[2]) = r /\ Received(m, d, a)
  BY <1>2 DEF TakeAsync, placeVars, OnRank
<1>5. m \in Pend /\ Pend' = Pend \ {m} /\ OnePlace'
  BY <1>4, TakeAsyncMoves DEF Inv1D, MsgsInv
<1>6. MessageTaken(r, m, d, a)
  BY <1>4, <1>5 DEF MessageTaken
<1>7. Early => m \in FactorMessage
  BY DEF Inv1D, CallsInv, MessagesInv
<1> QED
  BY <1>1, <1>3, <1>6, <1>7, MessageKeepsInv

LEMMA TakeBlockingKeepsInv ==
  ASSUME Inv1D, NEW r \in Rank, NEW m \in Blocked(r),
         TakeBlocking(r, m, Data(m), AtOnce(m)), UNCHANGED factorVars
  PROVE  Inv1D'
<1>1. PICK d, a : d = Data(m) /\ a = AtOnce(m)
  OBVIOUS
<1>2. TakeBlocking(r, m, d, a)
  BY <1>1
<1>3. CallsInv'
  BY <1>2, TakeBlockingKeepsCalls DEF Inv1D
<1>4. /\ blocking' = [blocking EXCEPT ![r] = Tail(blocking[r])] /\ m = Head(blocking[r])
      /\ UNCHANGED <<net, async, call, pc>>
      /\ pc[r] = "check" /\ Received(m, d, a)
  BY <1>2 DEF TakeBlocking, placeVars
<1>5. RankOf(m[2]) = r /\ (Early => m \in FactorMessage)
  BY BlockedTypes DEF Inv1D, To
<1>6. blocking[r] # <<>>
  BY DEF Blocked
<1>7. m \in Pend /\ Pend' = Pend \ {m} /\ OnePlace'
  BY <1>4, <1>6, TakeBlockingMoves DEF Inv1D, MsgsInv
<1>8. MessageTaken(r, m, d, a)
  BY <1>4, <1>5, <1>7 DEF MessageTaken
<1> QED
  BY <1>1, <1>3, <1>5, <1>8, MessageKeepsInv

-----------------------------------------------------------------------------
(* Steps of run that touch no task and no data.                            *)

LEMMA NothingTouched ==
  ASSUME Inv1D, Pend' = Pend, UNCHANGED <<graphVars, got, factorVars>>
  PROVE  FactorInv' /\ (UNCHANGED call => SolveInv') /\ GotOnly'
<1>0. localDeps \in [Tasks -> Int] /\ remoteDeps \in [Tasks -> Int]
  BY DEF Inv1D, FactorInv, FTypes
<1>1. FactorUntouched
  BY <1>0 DEF FactorUntouched, graphVars
<1>2. UNCHANGED call => SolveUntouched
  BY <1>0 DEF SolveUntouched, graphVars
<1> QED
  BY <1>1, <1>2, UntouchedKeepsFactor, UntouchedKeepsSolve DEF Inv1D, GotOnly, graphVars

LEMMA ArriveKeepsInv ==
  ASSUME Inv1D, NEW m, Arrive(m), UNCHANGED factorVars
  PROVE  Inv1D'
<1>1. CallsInv' /\ Pend' = Pend /\ OnePlace'
  BY ArriveKeepsCalls, ArriveMoves DEF Inv1D, MsgsInv
<1>2. UNCHANGED <<graphVars, got, call, pc>>
  BY DEF Arrive, placeVars
<1>3. FactorInv' /\ SolveInv' /\ GotOnly'
  BY <1>1, <1>2, NothingTouched
<1>4. Idle' /\ Past'
  BY <1>2, NoNewTasks DEF Inv1D, graphVars
<1>5. Quiet1'
  BY <1>2, SameQuiet DEF Inv1D, factorVars
<1> QED
  BY <1>1, <1>3, <1>4, <1>5 DEF Inv1D

(* The rank moves on in run.                                               *)
LEMMA PlaceKeepsInv ==
  ASSUME Inv1D, CallsInv', Pend' = Pend, OnePlace',
         UNCHANGED <<call, graphVars, got, factorVars>>,
         NEW r \in Rank, NEW place, pc' = [pc EXCEPT ![r] = place],
         place \in {"drain", "barrier", "end"} => Mine(r, graph \cup ready) = {},
         place \in {"barrier", "end"} => remDealloc[r] = 0
  PROVE  Inv1D'
<1>1. FactorInv' /\ SolveInv' /\ GotOnly'
  BY NothingTouched
<1>2. \A q \in Rank : pc'[q] = IF q = r THEN place ELSE pc[q]
  BY DEF Inv1D, CallsInv, PlacesInv
<1>3. UNCHANGED <<graph, ready, remDealloc>>
  BY DEF graphVars, factorVars
<1>4. Idle'
  BY <1>2, <1>3 DEF Inv1D, Idle, Mine
<1>5. Past'
  BY <1>3 DEF Inv1D, Past, Mine
<1>6. Quiet1'
  BY <1>2, <1>3 DEF Inv1D, Quiet1
<1> QED
  BY <1>1, <1>4, <1>5, <1>6 DEF Inv1D

LEMMA PromoteKeepsInv ==
  ASSUME Inv1D, NEW r \in Rank, Promote(r), UNCHANGED factorVars
  PROVE  Inv1D'
<1>1. CallsInv' /\ Pend' = Pend /\ OnePlace'
  BY PromoteKeepsCalls, PromoteMoves DEF Inv1D, MsgsInv
<1>2. UNCHANGED <<call, graphVars, got>> /\ pc' = [pc EXCEPT ![r] = "work"]
  BY DEF Promote
<1> QED
  BY <1>1, <1>2, PlaceKeepsInv

LEMMA LoopBackKeepsInv ==
  ASSUME Inv1D, NEW r \in Rank, LoopBack(r), UNCHANGED factorVars
  PROVE  Inv1D'
<1>1. /\ UNCHANGED <<call, graphVars, got, net, async, blocking>>
      /\ pc' = [pc EXCEPT ![r] = Loop(r, graph, {})] /\ NothingReady(r)
  BY DEF LoopBack, commVars
<1>2. CallsInv' /\ Pend' = Pend /\ OnePlace'
  BY <1>1, LoopBackKeepsCalls, NoMoves DEF Inv1D
<1>3. PICK place : place = Loop(r, graph, {})
  OBVIOUS
<1>4. place \in {"check", "drain"} /\ (place = "drain" => Mine(r, graph \cup ready) = {})
  BY <1>1, <1>3 DEF Loop, NothingReady, Mine
<1> QED
  BY <1>1, <1>2, <1>3, <1>4, PlaceKeepsInv

LEMMA LeaveDrainKeepsInv ==
  ASSUME Inv1D, NEW r \in Rank, LeaveDrain(r, Drained(r)), UNCHANGED factorVars
  PROVE  Inv1D'
<1>1. /\ UNCHANGED <<call, graphVars, got, net, async, blocking>>
      /\ pc[r] = "drain" /\ pc' = [pc EXCEPT ![r] = "barrier"] /\ remDealloc[r] = 0
  BY DEF LeaveDrain, commVars, Drained
<1>2. CallsInv' /\ Pend' = Pend /\ OnePlace'
  BY <1>1, LeaveDrainKeepsCalls, NoMoves DEF Inv1D
<1>3. Mine(r, graph \cup ready) = {}
  BY <1>1 DEF Inv1D, Idle
<1> QED
  BY <1>1, <1>2, <1>3, PlaceKeepsInv

LEMMA PassBarrierKeepsInv ==
  ASSUME Inv1D, NEW r \in Rank, PassBarrier(r), UNCHANGED factorVars
  PROVE  Inv1D'
<1>1. /\ UNCHANGED <<call, graphVars, got, net, async, blocking>>
      /\ pc[r] = "barrier" /\ pc' = [pc EXCEPT ![r] = "end"]
  BY DEF PassBarrier, commVars
<1>2. CallsInv' /\ Pend' = Pend /\ OnePlace'
  BY <1>1, PassBarrierKeepsCalls, NoMoves DEF Inv1D
<1>3. Mine(r, graph \cup ready) = {} /\ remDealloc[r] = 0
  BY <1>1 DEF Inv1D, Idle, Quiet1
<1> QED
  BY <1>1, <1>2, <1>3, PlaceKeepsInv

(* The storage of an aggregate is freed: its rank is still in Factorize.   *)
LEMMA FreeKeepsInv ==
  ASSUME Inv1D, NEW f, FreeAggregate(f)
  PROVE  Inv1D'
<1>0. FactorInv
  BY DEF Inv1D
<1>1. /\ UNCHANGED <<call, pc, graphVars, net, async, blocking, got>>
      /\ f \in frees /\ remDealloc' = [remDealloc EXCEPT ![f[1]] = @ - 1]
  BY DEF FreeAggregate, runVars, placeVars, commVars
<1>2. CallsInv' /\ Pend' = Pend /\ OnePlace'
  BY <1>1, UnchangedKeepsCalls, NoMoves DEF Inv1D, graphVars
<1>3. FactorInv'
  BY <1>0, FreeKeepsFactor
<1>4. localDeps \in [Tasks -> Int] /\ remoteDeps \in [Tasks -> Int]
  BY DEF Inv1D, FactorInv, FTypes
<1>5. SolveInv' /\ GotOnly'
  <2>1. SolveUntouched
    BY <1>1, <1>2, <1>4 DEF SolveUntouched, graphVars
  <2> QED
    BY <1>1, <2>1, UntouchedKeepsSolve DEF Inv1D, GotOnly, graphVars
<1>6. Idle' /\ Past'
  BY <1>1, NoNewTasks DEF Inv1D, graphVars
<1>7. PICK s \in Rank, K \in Sup : f = <<s, K>>
  BY <1>0, <1>1 DEF FactorInv, FTypes
<1>8. remDealloc[s] # 0
  <2>1. K \in Lent(s)
    BY <1>0, <1>1, <1>7 DEF FactorInv, FreesExact, Lent, Freed, Added
  <2>2. IsFiniteSet(Lent(s))
    BY UpTo, DistributionAssumption, FS_Subset DEF Sup, Lent
  <2>3. remDealloc[s] = Cardinality(Lent(s))
    BY <1>0 DEF FactorInv, LentExact
  <2> QED
    BY <2>1, <2>2, <2>3, FS_EmptySet
<1>9. Quiet1'
  <2>1. \A q \in Rank : q # s => remDealloc'[q] = remDealloc[q]
    BY <1>0, <1>1, <1>7 DEF FactorInv, FTypes
  <2> QED
    BY <1>1, <1>8, <2>1 DEF Quiet1, Inv1D
<1> QED
  BY <1>2, <1>3, <1>5, <1>6, <1>9 DEF Inv1D

-----------------------------------------------------------------------------
(* Rank r calls Solve: its tasks have waited since the object was built.   *)
LEMMA SolveKeepsInv ==
  ASSUME Inv1D, NEW r \in Rank, Solve(r), UNCHANGED factorVars
  PROVE  Inv1D'
<1>0. localDeps \in [Tasks -> Int] /\ remoteDeps \in [Tasks -> Int]
  BY DEF Inv1D, FactorInv, FTypes
<1>1. CallsInv'
  BY SolveKeepsCalls DEF Inv1D
<1>2. PICK T, F1 : T = Mine(r, SolveTasks) /\ F1 = Free(T)
  OBVIOUS
<1>3. /\ pc[r] = "end" /\ call[r] = 1
      /\ call' = [call EXCEPT ![r] = call[r] + 1]
      /\ graph' = graph \cup (T \ F1) /\ ready' = ready \cup F1
      /\ pc' = [pc EXCEPT ![r] = Loop(r, graph', ready')]
      /\ UNCHANGED <<localDeps, remoteDeps, net, async, blocking, got>>
  BY <1>2 DEF Solve, RunAgain, commVars
<1>4. /\ \A t : t \in T <=> t \in SolveTasks /\ RankOf(t) = r
      /\ \A t : t \in F1 <=> t \in T /\ localDeps[t] = 0 /\ remoteDeps[t] = 0
      /\ \A t \in T : IsSolve(t)
  BY <1>2, SolveMembers DEF Mine, Free
<1>5. /\ \A q \in Rank : call'[q] = IF q = r THEN 2 ELSE call[q]
      /\ \A q \in Rank : q # r => pc'[q] = pc[q]
      /\ pc'[r] = Loop(r, graph', ready')
  BY <1>3 DEF Inv1D, CallsInv, PlacesInv
<1>6. /\ Mine(r, graph \cup ready) = {} /\ remDealloc[r] = 0
      /\ remDealloc' = remDealloc
  BY <1>3 DEF Inv1D, Idle, Quiet1, factorVars
<1>7. Pend' = Pend /\ OnePlace'
  BY <1>3, NoMoves DEF Inv1D
<1>8. \A t \in SolveTasks :
        /\ t \in T => t \notin graph /\ t \notin ready
        /\ t \notin T => /\ t \in graph' <=> t \in graph
                         /\ t \in ready' <=> t \in ready
                         /\ call'[RankOf(t)] = call[RankOf(t)]
        /\ RankOf(t) \in Rank
  <2> TAKE t \in SolveTasks
  <2>1. t \in T => t \notin graph /\ t \notin ready
    BY <1>4, <1>6 DEF Mine
  <2>2. RankOf(t) \in Rank
    BY SolveMembers
  <2>3. t \notin T => RankOf(t) # r
    BY <1>4
  <2> QED
    BY <1>3, <1>4, <1>5, <2>1, <2>2, <2>3
<1>9. \A t \in SolveTasks : Waits(t)' <=> Waits(t)
  <2> TAKE t \in SolveTasks
  <2>1. CASE t \in T
    <3>1. Waits(t)
      BY <1>3, <1>4, <2>1 DEF Waits, Unexecuted
    <3>2. Waits(t)'
      BY <1>3, <2>1 DEF Waits, Unexecuted
    <3> QED
      BY <3>1, <3>2
  <2>2. CASE t \notin T
    BY <1>8, <2>2 DEF Waits, Unexecuted
  <2> QED
    BY <2>1, <2>2
<1>10. SolveCounts'
  <2>1. SolveSame
    BY <1>3, <1>7, <1>9 DEF SolveSame
  <2> QED
    BY <2>1, SameKeepsCounts DEF Inv1D, SolveInv
<1>11. SolveKinds'
  <2>1. \A t \in graph' \cup ready' : IsSolve(t) => t \in SolveTasks
    BY <1>3, <1>4 DEF Inv1D, SolveInv, SolveKinds
  <2>2. \A t \in SolveTasks : ~(t \in graph' /\ t \in ready')
    <3> TAKE t \in SolveTasks
    <3>1. CASE t \in T
      BY <1>3, <1>8, <3>1
    <3>2. CASE t \notin T
      BY <1>8, <3>2 DEF Inv1D, SolveInv, SolveKinds
    <3> QED
      BY <3>1, <3>2
  <2> QED
    BY <1>0, <1>3, <1>7, <2>1, <2>2 DEF Inv1D, SolveInv, SolveKinds, IsUp, IsDown, Up, Down
<1>12. SolveStatus'
  <2> SUFFICES ASSUME NEW t \in SolveTasks, call'[RankOf(t)] = 2
               PROVE  t \in graph' <=> localDeps[t] # 0 \/ remoteDeps[t] # 0
    BY <1>3 DEF SolveStatus
  <2>1. CASE t \in T
    BY <1>3, <1>4, <1>8, <2>1
  <2>2. CASE t \notin T
    BY <1>8, <2>2 DEF Inv1D, SolveInv, SolveStatus
  <2> QED
    BY <2>1, <2>2
<1>13. SolveInv'
  BY <1>10, <1>11, <1>12 DEF SolveInv
<1>14. FactorInv'
  <2>1. \A t : ~IsSolve(t) => (t \in graph' <=> t \in graph) /\ (t \in ready' <=> t \in ready)
    BY <1>3, <1>4
  <2>2. FactorUntouched
    BY <1>0, <1>3, <1>7, <2>1 DEF FactorUntouched
  <2> QED
    BY <2>2, UntouchedKeepsFactor DEF Inv1D
<1>15. GotOnly'
  BY <1>3 DEF Inv1D, GotOnly
<1>16. \A q \in Rank : q # r => Mine(q, graph' \cup ready') = Mine(q, graph \cup ready)
  BY <1>3, <1>4 DEF Mine
<1>17. Idle'
  <2>1. pc'[r] \in {"drain", "barrier", "end"} => Mine(r, graph' \cup ready') = {}
    BY <1>5 DEF Loop
  <2> QED
    BY <1>5, <1>16, <2>1 DEF Inv1D, Idle, Mine
<1>18. Past'
  <2>1. \A t \in Mine(r, graph' \cup ready') : IsSolve(t)
    BY <1>3, <1>4, <1>6 DEF Mine
  <2> QED
    BY <1>5, <1>16, <2>1 DEF Inv1D, Past, Mine
<1>19. Quiet1'
  BY <1>5, <1>6 DEF Inv1D, Quiet1
<1> QED
  BY <1>1, <1>7, <1>13, <1>14, <1>15, <1>17, <1>18, <1>19 DEF Inv1D

-----------------------------------------------------------------------------
(* The initial state.                                                      *)

LEMMA CountsAreIntegers ==
  /\ \A t \in FactorTasks : LocalOf(t) \in Int /\ RemoteOf(t) \in Int
  /\ \A t \in SolveTasks : LocalDepsOf(t) \in Int /\ RemoteDepsOf(t) \in Int
<1>1. \A K \in Sup : LocalAggregates(K) \in Int /\ AggregatesToRecv(K) \in Int
  <2> TAKE K \in Sup
  <2>1. IsFiniteSet({r \in Rank \ {Own(K)} : Sources(r, K) # {}})
    BY DistributionAssumption, FS_Subset
  <2>2. LocalAggregates(K) \in Nat
    BY SourcesFacts, FS_CardinalityType DEF LocalAggregates
  <2>3. AggregatesToRecv(K) \in Nat
    BY <2>1, FS_CardinalityType DEF AggregatesToRecv
  <2> QED
    BY <2>2, <2>3
<1>2. \A t \in FactorTasks : LocalOf(t) \in Int /\ RemoteOf(t) \in Int
  BY <1>1, FactorTaskCases, FactorTaskShape, UpdateTaskShape
<1>3. ASSUME NEW t \in SolveTasks PROVE LocalDepsOf(t) \in Int /\ RemoteDepsOf(t) \in Int
  <2>1. \A K : Cardinality(LocalChildren(K)) \in Int /\ Cardinality(RemChildren(K)) \in Int
    BY BranchFacts, FS_CardinalityType
  <2>2. t[1] = "FUC" \/ t[1] = "BUC" \/ t[1] = "BU"
    BY DEF SolveTasks, FUC, BUC, BU
  <2>3. CASE t[1] = "FUC"
    BY <2>1, <2>3 DEF LocalDepsOf, RemoteDepsOf
  <2>4. CASE t[1] = "BUC"
    BY <2>4 DEF LocalDepsOf, RemoteDepsOf
  <2>5. CASE t[1] = "BU"
    BY <2>5 DEF LocalDepsOf, RemoteDepsOf
  <2> QED
    BY <2>2, <2>3, <2>4, <2>5
<1> QED
  BY <1>2, <1>3

(* The counts of the solve, one kind of task after the other.              *)
LEMMA SolveDepsOf ==
  /\ \A I \in Sup : /\ LocalDepsOf(FUC(I)) = Cardinality(LocalChildren(I))
                    /\ RemoteDepsOf(FUC(I)) = Cardinality(RemChildren(I))
                    /\ LocalDepsOf(BUC(I)) = 1 /\ RemoteDepsOf(BUC(I)) = 0
  /\ \A I, P : /\ LocalDepsOf(BU(P, I)) = IF Own(P) = Own(I) THEN 1 ELSE 0
               /\ RemoteDepsOf(BU(P, I)) = IF Own(P) = Own(I) THEN 0 ELSE 1
  BY DEF LocalDepsOf, RemoteDepsOf, FUC, BUC, BU, RankOf

(* Nothing is gone and nothing is under way.                               *)
AtStart ==
  /\ graph \cap ready = {} /\ graph \cup ready = FactorTasks
  /\ \A t \in FactorTasks : t \in graph <=> localDeps[t] # 0 \/ remoteDeps[t] # 0
  /\ \A t \in FactorTasks : localDeps[t] = LocalOf(t) /\ remoteDeps[t] = RemoteOf(t)
  /\ \A t \in SolveTasks : localDeps[t] = LocalDepsOf(t) /\ remoteDeps[t] = RemoteDepsOf(t)
  /\ localDeps \in [Tasks -> Int] /\ remoteDeps \in [Tasks -> Int]
  /\ Pend = {} /\ got = <<>>
  /\ \A r \in Rank : call[r] = 1

LEMMA InitAtStart ==
  ASSUME Init
  PROVE  AtStart /\ OnePlace
<1>1. /\ localDeps  = [t \in Tasks |-> IF IsSolve(t) THEN LocalDepsOf(t) ELSE LocalOf(t)]
      /\ remoteDeps = [t \in Tasks |-> IF IsSolve(t) THEN RemoteDepsOf(t) ELSE RemoteOf(t)]
      /\ graph = FactorTasks \ Free(FactorTasks) /\ ready = Free(FactorTasks)
      /\ net = {} /\ async = {} /\ blocking = [r \in Rank |-> <<>>] /\ got = <<>>
      /\ call = [r \in Rank |-> 1]
  BY DEF Init, RunInit
<1>2. \A t \in FactorTasks : t \in Tasks /\ ~IsSolve(t)
  BY TasksTyped DEF Tasks
<1>3. \A t \in SolveTasks : t \in Tasks /\ IsSolve(t)
  BY SolveMembers
<1>4. \A t \in Tasks : IF IsSolve(t) THEN t \in SolveTasks ELSE t \in FactorTasks
  BY <1>2, <1>3 DEF Tasks
<1>5. localDeps \in [Tasks -> Int] /\ remoteDeps \in [Tasks -> Int]
  BY <1>1, <1>4, CountsAreIntegers
<1>6. \A r \in Rank : Blocked(r) = {}
  BY <1>1 DEF Blocked
<1>7. Pend = {}
  BY <1>1, <1>6 DEF Pend
<1>8. OnePlace
  BY <1>1, <1>6 DEF OnePlace
<1>9. /\ graph \cap ready = {} /\ graph \cup ready = FactorTasks
      /\ \A t \in FactorTasks : t \in graph <=> localDeps[t] # 0 \/ remoteDeps[t] # 0
  BY <1>1 DEF Free
<1>10. \A t \in FactorTasks : localDeps[t] = LocalOf(t) /\ remoteDeps[t] = RemoteOf(t)
  BY <1>1, <1>2
<1>11. \A t \in SolveTasks : localDeps[t] = LocalDepsOf(t) /\ remoteDeps[t] = RemoteDepsOf(t)
  BY <1>1, <1>3
<1> QED
  BY <1>1, <1>5, <1>7, <1>8, <1>9, <1>10, <1>11 DEF AtStart

LEMMA InitFactor ==
  ASSUME AtStart, FactorInit
  PROVE  FactorInv
<1>1. \A I \in Sup : \A K \in Struct[I] : ~Computed(I, K)
  BY TaskForFacts, UpdateTaskShape DEF AtStart, Computed, Gone
<1>2. \A r, K : /\ Missing(r, K) = Sources(r, K)
                /\ Sources(r, K) # {} => ~Full(r, K)
  <2> SUFFICES ASSUME NEW r, NEW K
               PROVE  /\ Missing(r, K) = Sources(r, K)
                      /\ Sources(r, K) # {} => ~Full(r, K)
    OBVIOUS
  <2>1. \A I \in Sources(r, K) : ~Computed(I, K)
    BY <1>1, SourcesFacts
  <2> QED
    BY <2>1 DEF Missing, Full
<1>3. \A K \in Sup : Awaited(K) = {s \in Rank \ {Own(K)} : Sources(s, K) # {}}
  BY <1>2 DEF Awaited, Added
<1>4. /\ factored = {} /\ frees = {}
      /\ sum  = [r \in Rank |-> [K \in Sup |-> Nothing]]
      /\ todo = [r \in Rank |-> [K \in Sup |-> Cardinality(Sources(r, K))]]
      /\ remDealloc = [r \in Rank |-> 0]
  BY DEF FactorInit
<1>5. FTypes
  <2>1. \A r \in Rank : \A K \in Sup : Cardinality(Sources(r, K)) \in Int
    BY SourcesFacts, FS_CardinalityType
  <2> QED
    BY <1>4, <2>1 DEF FTypes, AtStart, Nothing
<1>6. FKinds
  BY DEF FKinds, AtStart
<1>7. FactorStatus
  BY <1>4, FactorTaskShape DEF FactorStatus, AtStart, Gone
<1>8. UpdateStatus
  <2> SUFFICES ASSUME NEW I \in Sup, NEW t \in UpdateTasks(I)
               PROVE  /\ localDeps[t]  = IF t \in graph THEN LocalOf(t) ELSE 0
                      /\ remoteDeps[t] = IF t \in graph THEN RemoteOf(t) ELSE 0
                      /\ t \in graph
    BY <1>4 DEF UpdateStatus, AtStart
  <2>1. /\ t \in FactorTasks /\ LocalOf(t) \in {0, 1} /\ RemoteOf(t) = 1 - LocalOf(t)
    BY UpdateTaskShape
  <2>2. localDeps[t] = LocalOf(t) /\ remoteDeps[t] = RemoteOf(t)
    BY <2>1 DEF AtStart
  <2>3. t \in graph
    BY <2>1, <2>2 DEF AtStart
  <2> QED
    BY <2>2, <2>3
<1>9. FactorCounts
  <2> SUFFICES ASSUME NEW K \in Sup
               PROVE  /\ localDeps[FACTOR(K)] = Cardinality(Missing(Own(K), K))
                      /\ remoteDeps[FACTOR(K)] = Cardinality(Awaited(K))
                      /\ FACTOR(K) \in graph <=> Missing(Own(K), K) # {} \/ Awaited(K) # {}
    BY DEF FactorCounts
  <2>1. /\ localDeps[FACTOR(K)] = LocalAggregates(K)
        /\ remoteDeps[FACTOR(K)] = AggregatesToRecv(K)
        /\ FACTOR(K) \in graph <=> localDeps[FACTOR(K)] # 0 \/ remoteDeps[FACTOR(K)] # 0
    BY FactorTaskShape DEF AtStart
  <2>2. /\ localDeps[FACTOR(K)] = Cardinality(Missing(Own(K), K))
        /\ remoteDeps[FACTOR(K)] = Cardinality(Awaited(K))
    BY <1>2, <1>3, <2>1 DEF LocalAggregates, AggregatesToRecv
  <2> QED
    BY <2>1, <2>2, MissingFacts, AwaitedFacts
<1>10. SumExact
  <2>1. ASSUME NEW r \in Rank, NEW K \in Sup, NEW I \in Sup PROVE ~Holds(r, K, I)
    <3>1. K \in Struct[I] => ~Computed(I, K) /\ ~Added(Updater(K, I), K)
      BY <1>1, StructFacts DEF Added, Full
    <3> QED
      BY <3>1 DEF Holds
  <2> QED
    BY <1>4, <2>1 DEF SumExact, Nothing
<1>11. TodoExact
  BY <1>2, <1>4 DEF TodoExact
<1>12. CarrierExact
  BY AggShape DEF CarrierExact, Carries, AtStart
<1>13. FreesExact
  BY <1>4 DEF FreesExact
<1>14. LentExact
  <2>1. \A s \in Rank : Lent(s) = {}
    BY <1>2 DEF Lent, Sends
  <2> QED
    BY <1>4, <2>1, FS_EmptySet DEF LentExact
<1> QED
  BY <1>5, <1>6, <1>7, <1>8, <1>9, <1>10, <1>11, <1>12, <1>13, <1>14 DEF FactorInv

LEMMA InitSolve ==
  ASSUME AtStart
  PROVE  SolveInv
<1>1. \A t \in SolveTasks : Waits(t)
  BY SolveMembers DEF AtStart, Waits, Unexecuted
<1>2. /\ \A I \in Sup : Waits(FUC(I)) /\ Waits(BUC(I)) /\ Waits(Before(I))
      /\ \A P \in Sup : \A c \in Children(P) : Waits(FUC(c)) /\ Waits(BUC(P))
  BY <1>1, SolveMembers
<1>3. SentAfter
  BY DEF SentAfter, AtStart
<1>4. FUCCounts
  <2> SUFFICES ASSUME NEW I \in Sup
               PROVE  /\ localDeps[FUC(I)] = Cardinality({c \in LocalChildren(I) : Waits(FUC(c))})
                      /\ remoteDeps[FUC(I)] = Cardinality({c \in RemChildren(I) : NotUp(c)})
    BY DEF FUCCounts
  <2>1. /\ {c \in LocalChildren(I) : Waits(FUC(c))} = LocalChildren(I)
        /\ {c \in RemChildren(I) : NotUp(c)} = RemChildren(I)
    BY <1>2, BranchFacts DEF NotUp
  <2> QED
    BY <2>1, SolveMembers, SolveDepsOf DEF AtStart
<1>5. BUCCounts
  BY <1>2, SolveMembers, SolveDepsOf DEF AtStart, BUCCounts
<1>6. BUCounts
  <2> SUFFICES ASSUME NEW I \in Sup, ~IsRoot(I), NEW P, P = Parent(I), NEW t, t = BU(P, I)
               PROVE  IF Own(P) = Own(I)
                      THEN localDeps[t] = (IF Waits(BUC(P)) THEN 1 ELSE 0) /\ remoteDeps[t] = 0
                      ELSE localDeps[t] = 0 /\ remoteDeps[t] = (IF Blocks(P, I) THEN 1 ELSE 0)
    BY DEF BUCounts
  <2>1. t \in SolveTasks /\ P \in Sup
    BY SolveMembers
  <2>2. localDeps[t] = LocalDepsOf(t) /\ remoteDeps[t] = RemoteDepsOf(t)
    BY <2>1 DEF AtStart
  <2>3. Waits(BUC(P)) /\ Blocks(P, I)
    BY <1>2, <2>1 DEF Blocks, NotDown
  <2> QED
    BY <2>2, <2>3, SolveDepsOf
<1>7. GotExact
  <2>1. DOMAIN got = {}
    BY DEF AtStart
  <2>2. \A I \in Sup : \A c \in RemChildren(I) : NotUp(c)
    BY <1>2, BranchFacts DEF NotUp
  <2>3. \A P \in Sup : \A q \in Others(P) : NotDown(q, P)
    BY <1>2 DEF NotDown
  <2> QED
    BY <2>1, <2>2, <2>3 DEF GotExact
<1>8. SolveKinds
  <2>1. \A t \in graph \cup ready : ~IsSolve(t)
    BY TasksTyped DEF AtStart
  <2> QED
    BY <2>1, SolveMembers DEF AtStart, SolveKinds
<1>9. SolveStatus
  BY SolveMembers DEF AtStart, SolveStatus
<1> QED
  BY <1>3, <1>4, <1>5, <1>6, <1>7, <1>8, <1>9 DEF SolveInv, SolveCounts

LEMMA InitInv1D == Init => Inv1D
<1> SUFFICES ASSUME Init PROVE Inv1D
  OBVIOUS
<1>1. AtStart /\ OnePlace
  BY InitAtStart
<1>2. FactorInv /\ SolveInv
  BY <1>1, InitFactor, InitSolve DEF Init
<1>3. CallsInv
  BY InitCalls
<1>4. GotOnly
  BY <1>1 DEF AtStart, GotOnly
<1>5. /\ \A r \in Rank : call[r] = 1 /\ pc[r] = Loop(r, graph, ready) /\ remDealloc[r] = 0
  BY DEF Init, RunInit, FactorInit
<1>6. Idle
  BY <1>5 DEF Idle, Loop
<1>7. Past /\ Quiet1
  BY <1>5 DEF Past, Quiet1, Loop
<1> QED
  BY <1>1, <1>2, <1>3, <1>4, <1>6, <1>7 DEF Inv1D

LEMMA UnchangedKeepsInv ==
  ASSUME Inv1D, UNCHANGED vars
  PROVE  Inv1D'
<1>1. /\ UNCHANGED <<call, pc, graphVars, net, async, blocking, got, factorVars>>
      /\ UNCHANGED <<graph, ready, remDealloc>>
  BY DEF vars, runVars, placeVars, graphVars, commVars, factorVars
<1>2. CallsInv' /\ Pend' = Pend /\ OnePlace'
  BY <1>1, UnchangedKeepsCalls, NoMoves DEF Inv1D, vars, runVars, placeVars, graphVars, commVars
<1>3. FactorInv' /\ SolveInv' /\ GotOnly'
  BY <1>1, <1>2, NothingTouched
<1>4. Idle' /\ Past' /\ Quiet1'
  BY <1>1, NoNewTasks, SameQuiet DEF Inv1D
<1> QED
  BY <1>2, <1>3, <1>4 DEF Inv1D

LEMMA FactorTaskKeepsInv ==
  ASSUME Inv1D, NEW r \in Rank, FactorTask(r)
  PROVE  Inv1D'
<1>1. PICK t \in Mine(r, ready) :
        \/ t[1] = "FACTOR"    /\ Factor(r, t[2])
        \/ t[1] = "UPDATE"    /\ Update(r, t[2], t[3])
        \/ t[1] = "AGGREGATE" /\ Aggregate(r, t[2], t[3])
  BY DEF FactorTask
<1>2. t[2] \in Sup /\ t[3] \in Sup
  BY DEF Inv1D, CallsInv, TasksInv, Mine, AnyTask
<1> QED
  BY <1>1, <1>2, FactorKeepsInv, UpdateKeepsInv, AggregateKeepsInv

LEMMA NextKeepsInv1D == Inv1D /\ [Next]_vars => Inv1D'
<1> SUFFICES ASSUME Inv1D, [Next]_vars PROVE Inv1D'
  OBVIOUS
<1>1. CASE UNCHANGED vars
  BY <1>1, UnchangedKeepsInv
<1>2. ASSUME NEW r \in Rank, RankStep(r) PROVE Inv1D'
  <2>1. CASE FactorTask(r)
    BY <2>1, FactorTaskKeepsInv
  <2>2. CASE SolveTask(r) /\ UNCHANGED factorVars
    BY <2>2, SolveTaskKeepsInv
  <2>3. CASE /\ \E m \in Blocked(r) : TakeBlocking(r, m, Data(m), AtOnce(m))
             /\ UNCHANGED factorVars
    BY <2>3, TakeBlockingKeepsInv
  <2>4. CASE Promote(r) /\ UNCHANGED factorVars
    BY <2>4, PromoteKeepsInv
  <2>5. CASE LoopBack(r) /\ UNCHANGED factorVars
    BY <2>5, LoopBackKeepsInv
  <2>6. CASE LeaveDrain(r, Drained(r)) /\ UNCHANGED factorVars
    BY <2>6, LeaveDrainKeepsInv
  <2>7. CASE PassBarrier(r) /\ UNCHANGED factorVars
    BY <2>7, PassBarrierKeepsInv
  <2>8. CASE Solve(r) /\ UNCHANGED factorVars
    BY <2>8, SolveKeepsInv
  <2> QED
    BY <1>2, <2>1, <2>2, <2>3, <2>4, <2>5, <2>6, <2>7, <2>8 DEF RankStep, Execute
<1>3. ASSUME NEW r \in Rank, Complete(r) PROVE Inv1D'
  <2>1. \E m \in async : TakeAsync(r, m, Data(m), AtOnce(m))
    BY <1>3 DEF Complete
  <2>2. UNCHANGED factorVars
    BY <1>3 DEF Complete
  <2> QED
    BY <2>1, <2>2, TakeAsyncKeepsInv
<1>4. ASSUME NEW r \in Rank, Reached(r) PROVE Inv1D'
  <2>1. CASE \E m \in OnRank(r, net) : Arrive(m) /\ UNCHANGED <<factorVars, rows>>
    BY <2>1, ArriveKeepsInv
  <2>2. CASE \E f \in frees : FreeAggregate(f)
    BY <2>2, FreeKeepsInv
  <2> QED
    BY <1>4, <2>1, <2>2 DEF Reached
<1> QED
  BY <1>1, <1>2, <1>3, <1>4 DEF Next, Terminated

(* The counts, the carriers and the places of both calls.                  *)
LEMMA AlwaysInv1D == Spec => []Inv1D
  BY InitInv1D, NextKeepsInv1D, PTL DEF Spec

-----------------------------------------------------------------------------
(* What the invariant says of the properties of the two calls.             *)

LEMMA PendingIs ==
  ASSUME CallsInv, NEW r \in Rank
  PROVE  \A m : m \in Pending(r) <=> m \in Pend /\ RankOf(m[2]) = r
<1>1. \A q \in Rank : \A m \in Blocked(q) : RankOf(m[2]) = q
  BY BlockedIs
<1> QED
  BY <1>1 DEF Pending, Pend, OnRank

LEMMA InvCountsFactor ==
  ASSUME Inv1D
  PROVE  FactorCountersExact
<1>0. FactorInv /\ CallsInv
  BY DEF Inv1D
<1>1. ASSUME NEW K \in Sup, NEW r, r = Own(K), NEW t, t = FACTOR(K)
      PROVE  /\ localDeps[t]  = Cardinality({I \in Sources(r, K) : sum[r][K][I] = 0})
             /\ remoteDeps[t] =
                  Cardinality({s \in Rank \ {r} :
                                 \E I \in Sources(s, K) : sum[r][K][I] = 0})
             /\ t \in graph <=> localDeps[t] + remoteDeps[t] > 0
  <2>1. r \in Rank
    BY <1>1, OwnersAreRanks
  <2>2. \A s : \A I \in Sources(s, K) :
          sum[r][K][I] = 0 <=> IF s = r THEN ~Computed(I, K) ELSE ~Added(s, K)
    <3> SUFFICES ASSUME NEW s, NEW I \in Sources(s, K)
                 PROVE  sum[r][K][I] = 0 <=>
                          IF s = r THEN ~Computed(I, K) ELSE ~Added(s, K)
      OBVIOUS
    <3>1. I \in Sup /\ K \in Struct[I] /\ Updater(K, I) = s
      BY SourcesFacts
    <3>2. sum[r][K][I] = IF Holds(r, K, I) THEN 1 ELSE 0
      BY <1>0, <2>1, <3>1 DEF FactorInv, SumExact
    <3> QED
      BY <1>1, <3>1, <3>2 DEF Holds
  <2>3. {I \in Sources(r, K) : sum[r][K][I] = 0} = Missing(r, K)
    BY <2>2 DEF Missing
  <2>4. {s \in Rank \ {r} : \E I \in Sources(s, K) : sum[r][K][I] = 0} = Awaited(K)
    BY <1>1, <2>2 DEF Awaited
  <2>5. /\ localDeps[t] = Cardinality(Missing(r, K)) /\ remoteDeps[t] = Cardinality(Awaited(K))
        /\ t \in graph <=> Missing(r, K) # {} \/ Awaited(K) # {}
    BY <1>0, <1>1 DEF FactorInv, FactorCounts
  <2>6. t \in graph <=> localDeps[t] + remoteDeps[t] > 0
    BY <2>5, MissingFacts, AwaitedFacts
  <2> QED
    BY <2>3, <2>4, <2>5, <2>6
<1>2. ASSUME NEW I \in Sup, NEW t \in UpdateTasks(I)
      PROVE  /\ localDeps[t] + remoteDeps[t] = (IF t \in graph THEN 1 ELSE 0)
             /\ t \in graph <=> I \notin factored \/ <<I, t>> \in Pending(RankOf(t))
  <2>1. /\ LocalOf(t) \in {0, 1} /\ RemoteOf(t) = 1 - LocalOf(t) /\ RankOf(t) \in Rank
    BY UpdateTaskShape, OwnersAreRanks
  <2>2. <<I, t>> \in Pending(RankOf(t)) <=> <<I, t>> \in Pend
    BY <1>0, <2>1, PendingIs
  <2>3. /\ localDeps[t]  = IF t \in graph THEN LocalOf(t) ELSE 0
        /\ remoteDeps[t] = IF t \in graph THEN RemoteOf(t) ELSE 0
        /\ t \in graph <=> I \notin factored \/ <<I, t>> \in Pend
    BY <1>0 DEF FactorInv, UpdateStatus
  <2> QED
    BY <2>1, <2>2, <2>3
<1> SUFFICES ASSUME NEW t \in FactorTasks
             PROVE
    IF t[1] = "FACTOR"
    THEN LET K == t[3]  r == Own(K) IN
         /\ localDeps[t]  = Cardinality({I \in Sources(r, K) : sum[r][K][I] = 0})
         /\ remoteDeps[t] =
              Cardinality({s \in Rank \ {r} :
                             \E I \in Sources(s, K) : sum[r][K][I] = 0})
         /\ t \in graph <=> localDeps[t] + remoteDeps[t] > 0
    ELSE LET I == t[2] IN
         /\ localDeps[t] + remoteDeps[t] = (IF t \in graph THEN 1 ELSE 0)
         /\ t \in graph <=> I \notin factored \/ <<I, t>> \in Pending(RankOf(t))
  BY DEF FactorCountersExact
<1>3. CASE \E K \in Sup : t = FACTOR(K)
  <2>1. PICK K \in Sup : t = FACTOR(K)
    BY <1>3
  <2>2. t[1] = "FACTOR" /\ t[3] = K
    BY <2>1, FactorTaskShape
  <2>3. PICK r : r = Own(K)
    OBVIOUS
  <2>4. /\ localDeps[t] = Cardinality({I \in Sources(r, K) : sum[r][K][I] = 0})
        /\ remoteDeps[t] =
             Cardinality({s \in Rank \ {r} :
                            \E I \in Sources(s, K) : sum[r][K][I] = 0})
        /\ t \in graph <=> localDeps[t] + remoteDeps[t] > 0
    <3> HIDE <1>3
    <3>1. PICK u : u = t
      OBVIOUS
    <3>2. u = FACTOR(K)
      BY <2>1, <3>1
    <3>3. /\ localDeps[u] = Cardinality({I \in Sources(r, K) : sum[r][K][I] = 0})
          /\ remoteDeps[u] =
               Cardinality({s \in Rank \ {r} :
                              \E I \in Sources(s, K) : sum[r][K][I] = 0})
          /\ u \in graph <=> localDeps[u] + remoteDeps[u] > 0
      BY <1>1, <2>3, <3>2
    <3> QED
      BY <3>1, <3>3
  <2> QED
    BY <2>2, <2>3, <2>4
<1>4. CASE \E I \in Sup : t \in UpdateTasks(I)
  <2>1. PICK I \in Sup : t \in UpdateTasks(I)
    BY <1>4
  <2>2. t[1] = "UPDATE" /\ t[2] = I
    BY <2>1, UpdateTaskShape
  <2> QED
    BY <1>2, <2>1, <2>2
<1> QED
  BY <1>3, <1>4, FactorTaskCases

(* What a task of the solve waits for has not come, so it waits.           *)
LEMMA AwaitedWaits ==
  ASSUME Inv1D
  PROVE  /\ \A t \in SolveTasks : ~Waits(t) => localDeps[t] = 0 /\ remoteDeps[t] = 0
         /\ \A I \in Sup : \A c \in RemChildren(I) : NotUp(c) => Waits(FUC(I))
         /\ \A P \in Sup : \A I \in RemChildren(P) : Blocks(P, I) => Waits(BU(P, I))
<1>0. /\ FUCCounts /\ BUCounts /\ SolveStatus /\ call \in [Rank -> {1, 2}]
  BY DEF Inv1D, SolveInv, SolveCounts, CallsInv, PlacesInv
<1>1. \A t \in SolveTasks : ~Waits(t) => localDeps[t] = 0 /\ remoteDeps[t] = 0
  BY <1>0, SolveMembers DEF Waits, Unexecuted, SolveStatus
<1>2. ASSUME NEW I \in Sup, NEW c \in RemChildren(I), NotUp(c), ~Waits(FUC(I)) PROVE FALSE
  <2>1. remoteDeps[FUC(I)] = Cardinality({d \in RemChildren(I) : NotUp(d)})
    BY <1>0 DEF FUCCounts
  <2>2. IsFiniteSet({d \in RemChildren(I) : NotUp(d)})
    BY BranchFacts, FS_Subset
  <2>3. remoteDeps[FUC(I)] = 0
    BY <1>1, <1>2, SolveMembers
  <2>4. {d \in RemChildren(I) : NotUp(d)} = {}
    BY <2>1, <2>2, <2>3, FS_EmptySet
  <2> QED
    BY <1>2, <2>4
<1>3. ASSUME NEW P \in Sup, NEW I \in RemChildren(P), Blocks(P, I), ~Waits(BU(P, I)) PROVE FALSE
  <2>1. I \in Sup /\ ~IsRoot(I) /\ Parent(I) = P /\ Own(I) # Own(P)
    BY UpIs
  <2>2. remoteDeps[BU(P, I)] = 0
    BY <1>1, <1>3, <2>1, SolveMembers
  <2> QED
    BY <1>0, <1>3, <2>1, <2>2 DEF BUCounts
<1> QED
  BY <1>1, <1>2, <1>3

LEMMA InvCountsSolve ==
  ASSUME Inv1D
  PROVE  SolveCountersExact
<1>0. /\ FUCCounts /\ BUCCounts /\ BUCounts /\ SolveStatus /\ GotExact /\ SolveKinds
      /\ call \in [Rank -> {1, 2}]
  BY DEF Inv1D, SolveInv, SolveCounts, CallsInv, PlacesInv
<1>1. \A t \in SolveTasks : ~Waits(t) => localDeps[t] = 0 /\ remoteDeps[t] = 0
  BY AwaitedWaits
<1>2. ASSUME NEW I \in Sup
      PROVE  /\ localDeps[FUC(I)] =
                  Cardinality({c \in LocalChildren(I) : Waits(FUC(c))})
             /\ remoteDeps[FUC(I)] =
                  Cardinality({c \in RemChildren(I) :
                     Waits(<<c, FUC(I)>>[2]) /\ <<c, FUC(I)>> \notin DOMAIN got})
             /\ localDeps[FUC(I)] >= 0 /\ remoteDeps[FUC(I)] >= 0
  <2>1. /\ localDeps[FUC(I)] = Cardinality({c \in LocalChildren(I) : Waits(FUC(c))})
        /\ remoteDeps[FUC(I)] = Cardinality({c \in RemChildren(I) : NotUp(c)})
    BY <1>0 DEF FUCCounts
  <2>2. /\ IsFiniteSet({c \in LocalChildren(I) : Waits(FUC(c))})
        /\ IsFiniteSet({c \in RemChildren(I) : NotUp(c)})
    BY BranchFacts, FS_Subset
  <2>3. \A c \in RemChildren(I) :
          NotUp(c) <=> Waits(<<c, FUC(I)>>[2]) /\ <<c, FUC(I)>> \notin DOMAIN got
    <3> SUFFICES ASSUME NEW c \in RemChildren(I)
                 PROVE  NotUp(c) <=> Waits(FUC(I)) /\ <<c, FUC(I)>> \notin DOMAIN got
      OBVIOUS
    <3>1. Up(c) = <<c, FUC(I)>>
      BY UpIs
    <3>2. Waits(FUC(I)) => (Up(c) \in DOMAIN got <=> ~NotUp(c))
      BY <1>0 DEF GotExact
    <3>3. ~Waits(FUC(I)) => ~NotUp(c)
      BY AwaitedWaits
    <3> QED
      BY <3>1, <3>2, <3>3
  <2>4. {c \in RemChildren(I) : NotUp(c)} =
        {c \in RemChildren(I) : Waits(<<c, FUC(I)>>[2]) /\ <<c, FUC(I)>> \notin DOMAIN got}
    BY <2>3
  <2>5. localDeps[FUC(I)] \in Nat /\ remoteDeps[FUC(I)] \in Nat
    BY <2>1, <2>2, FS_CardinalityType
  <2>6. localDeps[FUC(I)] >= 0 /\ remoteDeps[FUC(I)] >= 0
    BY <2>5
  <2>7. remoteDeps[FUC(I)] =
          Cardinality({c \in RemChildren(I) :
             Waits(<<c, FUC(I)>>[2]) /\ <<c, FUC(I)>> \notin DOMAIN got})
    BY <2>1, <2>4, Zenon
  <2> QED
    BY <2>1, <2>6, <2>7, Zenon
<1>3. ASSUME NEW I \in Sup
      PROVE  /\ remoteDeps[BUC(I)] = 0
             /\ localDeps[BUC(I)] = 1 <=>
                  Waits(IF IsRoot(I) THEN FUC(I) ELSE BU(Parent(I), I))
             /\ localDeps[BUC(I)] >= 0
  BY <1>0 DEF BUCCounts, Before
<1>4. ASSUME NEW I \in Sup, ~IsRoot(I), NEW P, P = Parent(I), NEW t, t = BU(P, I)
      PROVE  /\ IF Own(P) = Own(I)
                THEN remoteDeps[t] = 0 /\ (localDeps[t] = 1 <=> Waits(BUC(P)))
                ELSE localDeps[t] = 0 /\ (remoteDeps[t] = 1 <=> Blocks(P, I))
             /\ localDeps[t] >= 0 /\ remoteDeps[t] >= 0
    BY <1>0, <1>4 DEF BUCounts
<1>5. ASSUME NEW I \in Sup, ~IsRoot(I), NEW P, P = Parent(I), Own(P) # Own(I),
             NEW B, B = {c \in ChildrenOn(Own(I), P) : c > I}, B = {}
      PROVE  Blocks(P, I) <=> Waits(BU(P, I)) /\ <<P, BU(P, I)>> \notin DOMAIN got
  <2>1. I \in ChildrenOn(Own(I), P) /\ I \in RemChildren(P) /\ P \in Sup
    BY <1>5, TreeFacts, BranchFacts DEF ChildrenOn
  <2>2. PICK q \in Others(P) : q = Own(I)
    BY <2>1 DEF Others
  <2>3. FirstOn(q, P) = I
    <3>1. FirstOn(q, P) \in ChildrenOn(q, P) /\ FirstOn(q, P) >= I /\ FirstOn(q, P) \in Int
      BY <2>1, <2>2, FirstFacts, OthersFacts DEF Sup
    <3>2. ~(FirstOn(q, P) > I)
      BY <1>5, <2>2, <3>1
    <3> QED
      BY <3>1, <3>2 DEF Sup
  <2>4. Down(q, P) = <<P, BU(P, I)>>
    BY <2>3 DEF Down
  <2>5. Blocks(P, I) <=> NotDown(q, P)
    BY <1>5, <2>2 DEF Blocks
  <2>6. Waits(BU(P, I)) => (Down(q, P) \in DOMAIN got <=> ~NotDown(q, P))
    BY <1>0, <2>1, <2>3 DEF GotExact
  <2>7. ~Waits(BU(P, I)) => ~Blocks(P, I)
    BY <2>1, AwaitedWaits
  <2> QED
    BY <2>4, <2>5, <2>6, <2>7
<1>6. ASSUME NEW I \in Sup, ~IsRoot(I), NEW P, P = Parent(I), Own(P) # Own(I),
             NEW B, B = {c \in ChildrenOn(Own(I), P) : c > I}, B # {}
      PROVE  Blocks(P, I) <=> Waits(BU(P, LowestOf(B)))
  <2>1. PICK c : c = LowestOf(B)
    OBVIOUS
  <2>2. c \in B /\ \A d \in B : c <= d
    <3>1. B \subseteq Sup
      BY <1>6, TreeFacts, BranchFacts
    <3> QED
      BY <1>6, <2>1, <3>1, LowestIsLeast
  <2>3. /\ c \in Sup /\ ~IsRoot(c) /\ Parent(c) = P /\ Own(c) = Own(I)
        /\ c \in ChildrenOn(Own(I), P) /\ c > I
    BY <1>6, <2>2, TreeFacts, BranchFacts DEF ChildrenOn
  <2>4. Waits(BU(P, c)) => Blocks(P, I)
    BY <2>3 DEF Blocks
  <2>5. ASSUME ~Waits(BU(P, c)), Blocks(P, I) PROVE FALSE
    <3>1. remoteDeps[BU(P, c)] = 0
      BY <1>1, <2>3, <2>5, SolveMembers
    <3>2. ~Blocks(P, c)
      BY <1>4, <1>6, <2>3, <3>1
    <3>3. PICK d \in ChildrenOn(Own(I), P) : d > I /\ Waits(BU(P, d))
      BY <2>3, <2>5, <3>2 DEF Blocks
    <3>4. d >= c /\ d \in Sup
      BY <1>6, <2>2, <3>3, TreeFacts, BranchFacts DEF Sup
    <3>5. ~(d > c)
      BY <2>3, <3>2, <3>3 DEF Blocks
    <3> QED
      BY <2>3, <2>5, <3>3, <3>4, <3>5 DEF Sup
  <2> QED
    BY <2>1, <2>4, <2>5
<1>7. ASSUME NEW t \in SolveTasks
      PROVE  /\ localDeps[t] >= 0 /\ remoteDeps[t] >= 0
             /\ call[RankOf(t)] = 2 =>
                  (t \in graph <=> localDeps[t] + remoteDeps[t] > 0)
  <2>1. localDeps[t] >= 0 /\ remoteDeps[t] >= 0
    <3>1. CASE \E I \in Sup : t = FUC(I)
      BY <1>2, <3>1
    <3>2. CASE \E I \in Sup : t = BUC(I)
      BY <1>3, <3>2
    <3>3. CASE \E I \in Sup : ~IsRoot(I) /\ t = BU(Parent(I), I)
      BY <1>4, <3>3
    <3> QED
      BY <3>1, <3>2, <3>3, SolveTaskCases
  <2>2. localDeps[t] \in Int /\ remoteDeps[t] \in Int
    BY <1>0, SolveMembers DEF SolveKinds
  <2>3. call[RankOf(t)] = 2 => (t \in graph <=> localDeps[t] # 0 \/ remoteDeps[t] # 0)
    BY <1>0 DEF SolveStatus
  <2> QED
    BY <2>1, <2>2, <2>3
<1>8. ASSUME NEW I \in Sup, ~IsRoot(I), NEW P, P = Parent(I), NEW t, t = BU(P, I),
             NEW B, B = {c \in ChildrenOn(Own(I), P) : c > I}
      PROVE  IF Own(P) = Own(I)
             THEN remoteDeps[t] = 0 /\ (localDeps[t] = 1 <=> Waits(BUC(P)))
             ELSE /\ localDeps[t] = 0
                  /\ remoteDeps[t] = 1 <=>
                       IF B = {} THEN Waits(<<P, t>>[2]) /\ <<P, t>> \notin DOMAIN got
                       ELSE Waits(BU(P, LowestOf(B)))
  <2>1. CASE Own(P) = Own(I)
    BY <1>4, <1>8, <2>1
  <2>2. CASE Own(P) # Own(I)
    <3>1. localDeps[t] = 0 /\ (remoteDeps[t] = 1 <=> Blocks(P, I))
      BY <1>4, <1>8, <2>2
    <3>2. CASE B = {}
      BY <1>5, <1>8, <2>2, <3>1, <3>2
    <3>3. CASE B # {}
      BY <1>6, <1>8, <2>2, <3>1, <3>3
    <3> QED
      BY <3>2, <3>3
  <2> QED
    BY <2>1, <2>2
<1>9. ASSUME NEW I \in Sup, ~IsRoot(I)
      PROVE  LET P == Parent(I)  t == BU(P, I)
                 B == {c \in ChildrenOn(Own(I), P) : c > I} IN
             IF Own(P) = Own(I)
             THEN remoteDeps[t] = 0 /\ (localDeps[t] = 1 <=> Waits(BUC(P)))
             ELSE /\ localDeps[t] = 0
                  /\ remoteDeps[t] = 1 <=>
                       IF B = {} THEN Waits(<<P, t>>[2]) /\ <<P, t>> \notin DOMAIN got
                       ELSE Waits(BU(P, LowestOf(B)))
  <2>1. PICK P, t, B : /\ P = Parent(I) /\ t = BU(P, I)
                       /\ B = {c \in ChildrenOn(Own(I), P) : c > I}
    OBVIOUS
  <2>2. IF Own(P) = Own(I)
        THEN remoteDeps[t] = 0 /\ (localDeps[t] = 1 <=> Waits(BUC(P)))
        ELSE /\ localDeps[t] = 0
             /\ remoteDeps[t] = 1 <=>
                  IF B = {} THEN Waits(<<P, t>>[2]) /\ <<P, t>> \notin DOMAIN got
                  ELSE Waits(BU(P, LowestOf(B)))
    BY <1>8, <1>9, <2>1
  <2> QED
    BY <2>1, <2>2
<1> QED
  BY <1>2, <1>3, <1>7, <1>9 DEF SolveCountersExact

(* An aggregate that has been announced and not read.                      *)
LEMMA AnnouncedAggregate ==
  ASSUME FactorInv, NEW m \in Pend, IsAggregate(m)
  PROVE  \E I \in Sup : \E K \in Struct[I] : \E s \in Rank :
           /\ m = AggMsg(I, K) /\ s = Updater(K, I) /\ s # Own(K)
           /\ Full(s, K) /\ ~Added(s, K)
<1>1. ~IsSolve(m[2])
  BY DEF IsAggregate, IsSolve
<1>2. ~IsFirstMsg(m)
  <2> SUFFICES ASSUME NEW I \in Sup, m \in FactorMessages(I) PROVE FALSE
    BY DEF IsFirstMsg
  <2>1. PICK t \in UpdateTasks(I) : m = <<I, t>>
    BY FirstMsgShape
  <2>2. m[2][1] = "UPDATE"
    BY <2>1, UpdateTaskShape
  <2> QED
    BY <2>2 DEF IsAggregate
<1>3. IsAggMsg(m)
  BY <1>1, <1>2 DEF FactorInv, FKinds
<1>4. PICK I \in Sup : \E K \in Struct[I] : Updater(K, I) # Own(K) /\ m = AggMsg(I, K)
  BY <1>3 DEF IsAggMsg
<1>5. PICK K \in Struct[I] : Updater(K, I) # Own(K) /\ m = AggMsg(I, K)
  BY <1>4
<1>6. PICK s : s = Updater(K, I)
  OBVIOUS
<1>7. s \in Rank /\ I \in Sources(s, K)
  BY <1>6, StructFacts
<1>8. Carries(I, K)
  BY <1>5 DEF Carries
<1>9. Full(s, K)
  BY <1>6, <1>8 DEF FactorInv, CarrierExact
<1>10. ~Added(s, K)
  BY <1>7, <1>8 DEF Added
<1> QED
  BY <1>5, <1>6, <1>7, <1>9, <1>10

LEMMA InvAggregates ==
  ASSUME Inv1D
  PROVE  AggregatesFinal
<1> SUFFICES ASSUME NEW r \in Rank, NEW m \in Pending(r), IsAggregate(m)
             PROVE  sum[Adder(m)][m[2][3]] =
                      [I \in Sup |-> IF I \in Sources(Adder(m), m[2][3]) THEN 1 ELSE 0]
  BY DEF AggregatesFinal
<1>0. FactorInv /\ CallsInv
  BY DEF Inv1D
<1>1. m \in Pend
  BY <1>0, PendingIs
<1>2. PICK I \in Sup : \E K \in Struct[I] : \E s \in Rank :
        /\ m = AggMsg(I, K) /\ s = Updater(K, I) /\ s # Own(K)
        /\ Full(s, K) /\ ~Added(s, K)
  BY <1>0, <1>1, AnnouncedAggregate
<1>3. PICK K \in Struct[I] : \E s \in Rank :
        /\ m = AggMsg(I, K) /\ s = Updater(K, I) /\ s # Own(K)
        /\ Full(s, K) /\ ~Added(s, K)
  BY <1>2
<1>4. PICK s \in Rank :
        /\ m = AggMsg(I, K) /\ s = Updater(K, I) /\ s # Own(K)
        /\ Full(s, K) /\ ~Added(s, K)
  BY <1>3
<1>5. K \in Sup
  BY StructFacts
<1>6. m[2][3] = K /\ Adder(m) = s
  BY <1>4 DEF AggMsg, AGGREGATE, Adder
<1>7. \A L \in Sup : Holds(s, K, L) <=> L \in Sources(s, K)
  BY <1>4, SourcesFacts DEF Holds, Full, Freed
<1>8. \A L \in Sup : sum[s][K][L] = IF L \in Sources(s, K) THEN 1 ELSE 0
  BY <1>0, <1>5, <1>7 DEF FactorInv, SumExact
<1>9. sum[s][K] \in [Sup -> Int]
  BY <1>0, <1>5 DEF FactorInv, FTypes
<1>10. sum[s][K] = [L \in Sup |-> IF L \in Sources(s, K) THEN 1 ELSE 0]
  BY <1>8, <1>9
<1> QED
  BY <1>6, <1>10

(* Once a rank has left run, the others are done with the factorization.   *)
LEMMA FactorizationOver ==
  ASSUME Inv1D, NEW r \in Rank, call[r] > 1 \/ pc[r] = "end"
  PROVE  /\ \A t \in graph \cup ready : IsSolve(t)
         /\ remDealloc[r] = 0
<1>1. \A s \in Rank : call[s] = 2 \/ AtBarrier(s)
  BY DEF Inv1D, CallsInv, PlacesInv
<1>2. \A t \in graph \cup ready : RankOf(t) \in Rank
  BY TaskType DEF Inv1D, CallsInv, TasksInv
<1>3. \A t \in graph \cup ready : IsSolve(t)
  BY <1>1, <1>2 DEF Inv1D, Idle, Past, Mine, AtBarrier
<1>4. remDealloc[r] = 0
  BY DEF Inv1D, Quiet1, CallsInv, PlacesInv
<1> QED
  BY <1>3, <1>4

LEMMA InvFactorExit ==
  ASSUME Inv1D
  PROVE  FactorCleanExit
<1> SUFFICES ASSUME NEW r \in Rank, call[r] > 1 \/ pc[r] = "end"
             PROVE
    /\ factored = Sup
    /\ \A t \in graph \cup ready : t[1] \notin FactorKinds
    /\ \A m \in Pending(r) : m[2][1] \notin FactorKinds
    /\ remDealloc[r] = 0 /\ \A f \in frees : f[1] # r
    /\ \A K \in Sup : todo[r][K] = 0 /\ (Own(K) # r => sum[r][K] = Nothing)
  BY DEF FactorCleanExit
<1>0. FactorInv /\ CallsInv
  BY DEF Inv1D
<1>1. /\ \A t \in graph \cup ready : IsSolve(t)
      /\ remDealloc[r] = 0
  BY FactorizationOver
<1>2. \A t : IsSolve(t) => t[1] \notin FactorKinds
  BY DEF IsSolve, FactorKinds
<1>3. \A K \in Sup : FACTOR(K) \notin graph /\ Gone(FACTOR(K))
  BY <1>1, FactorTaskShape DEF Gone
<1>4. \A I \in Sup : \A t \in UpdateTasks(I) : t \notin graph /\ Gone(t)
  BY <1>1, UpdateTaskShape DEF Gone
<1>5. factored = Sup
  BY <1>0, <1>3 DEF FactorInv, FTypes, FactorStatus
<1>6. \A K \in Sup : \A s : Missing(s, K) = {} /\ Full(s, K)
  <2> SUFFICES ASSUME NEW K \in Sup, NEW s, NEW I \in Sources(s, K)
               PROVE  Computed(I, K)
    BY DEF Missing, Full
  <2>1. I \in Sup /\ K \in Struct[I]
    BY SourcesFacts
  <2> QED
    BY <1>4, <2>1, TaskForFacts DEF Computed
<1>7. \A K \in Sup : \A s \in Rank : Sends(s, K) => Added(s, K)
  <2> SUFFICES ASSUME NEW K \in Sup, NEW s \in Rank, Sends(s, K), ~Added(s, K)
               PROVE  FALSE
    OBVIOUS
  <2>1. s \in Awaited(K)
    BY DEF Awaited, Sends
  <2> QED
    BY <1>0, <1>3, <2>1 DEF FactorInv, FactorCounts
<1>8. Lent(r) = {}
  <2>1. IsFiniteSet(Lent(r))
    <3>1. IsFiniteSet(Sup)
      BY FS_Interval, DistributionAssumption DEF Sup
    <3> QED
      BY <3>1, FS_Subset DEF Lent
  <2> QED
    BY <1>0, <1>1, <2>1, FS_EmptySet DEF FactorInv, LentExact
<1>9. \A m \in Pending(r) : m[2][1] \notin FactorKinds
  <2> SUFFICES ASSUME NEW m \in Pending(r), ~IsSolve(m[2]) PROVE FALSE
    BY <1>2
  <2>1. m \in Pend
    BY <1>0, PendingIs
  <2>2. CASE IsFirstMsg(m)
    <3>1. PICK I \in Sup : m \in FactorMessages(I)
      BY <2>2 DEF IsFirstMsg
    <3>2. PICK t \in UpdateTasks(I) : m = <<I, t>>
      BY <3>1, FirstMsgShape
    <3> QED
      BY <1>0, <1>4, <2>1, <3>2 DEF FactorInv, UpdateStatus
  <2>3. CASE IsAggMsg(m)
    <3>1. IsAggregate(m)
      BY <2>3, AggShape DEF IsAggMsg, IsAggregate, AggMsg, AGGREGATE
    <3>2. PICK I \in Sup : \E K \in Struct[I] : \E s \in Rank :
            /\ m = AggMsg(I, K) /\ s = Updater(K, I) /\ s # Own(K)
            /\ Full(s, K) /\ ~Added(s, K)
      BY <1>0, <2>1, <3>1, AnnouncedAggregate
    <3>3. PICK K \in Struct[I] : \E s \in Rank :
            s = Updater(K, I) /\ s # Own(K) /\ ~Added(s, K)
      BY <3>2
    <3> QED
      BY <1>7, <3>3, StructFacts DEF Sends
  <2> QED
    BY <1>0, <2>1, <2>2, <2>3 DEF FactorInv, FKinds
<1>10. \A K \in Sup : Sends(r, K) => Freed(r, K)
  BY <1>6, <1>8 DEF Lent
<1>11. \A f \in frees : f[1] # r
  <2> SUFFICES ASSUME NEW f \in frees, f[1] = r PROVE FALSE
    OBVIOUS
  <2>1. f = <<r, f[2]>> /\ f[2] \in Sup
    BY <1>0 DEF FactorInv, FTypes
  <2>2. Sends(r, f[2])
    BY <1>0, <2>1 DEF FactorInv, FreesExact
  <2> QED
    BY <1>10, <2>1, <2>2 DEF Freed
<1>12. ASSUME NEW K \in Sup PROVE todo[r][K] = 0 /\ (Own(K) # r => sum[r][K] = Nothing)
  <2>1. todo[r][K] = 0
    BY <1>0, <1>6, MissingFacts DEF FactorInv, TodoExact
  <2>2. ASSUME Own(K) # r PROVE sum[r][K] = Nothing
    <3>1. \A I \in Sup : ~Holds(r, K, I)
      <4> SUFFICES ASSUME NEW I \in Sup, Holds(r, K, I) PROVE FALSE
        OBVIOUS
      <4>1. K \in Struct[I] /\ Updater(K, I) = r /\ ~Freed(r, K)
        BY <2>2 DEF Holds
      <4>2. Sources(r, K) # {}
        BY <4>1, SourcesFacts
      <4> QED
        BY <1>10, <2>2, <4>1, <4>2 DEF Sends
    <3>2. \A I \in Sup : sum[r][K][I] = 0
      BY <1>0, <3>1 DEF FactorInv, SumExact
    <3>3. sum[r][K] \in [Sup -> Int]
      BY <1>0 DEF FactorInv, FTypes
    <3> QED
      BY <3>2, <3>3 DEF Nothing
  <2> QED
    BY <2>1, <2>2
<1> QED
  BY <1>1, <1>2, <1>5, <1>9, <1>11, <1>12

LEMMA InvSolveExit ==
  ASSUME Inv1D, NEW r \in Rank, call[r] = 2, pc[r] = "end"
  PROVE  graph = {} /\ ready = {} /\ Pending(r) = {} /\ got = <<>>
<1>1. \A s \in Rank : AtBarrier(s) /\ call[s] = 2
  BY DEF Inv1D, CallsInv, PlacesInv
<1>2. graph \cup ready = {}
  <2>1. \A t \in graph \cup ready : RankOf(t) \in Rank
    BY TaskType DEF Inv1D, CallsInv, TasksInv
  <2> QED
    BY <1>1, <2>1 DEF Inv1D, Idle, Mine, AtBarrier
<1>3. \A t \in SolveTasks : ~Waits(t)
  BY <1>1, <1>2, SolveMembers DEF Waits, Unexecuted
<1>4. Pending(r) = {}
  <2> SUFFICES ASSUME NEW m \in Pending(r) PROVE FALSE
    OBVIOUS
  <2>1. m \in Pend
    BY PendingIs DEF Inv1D
  <2>2. IsSolve(m[2])
    <3>1. m[2][1] \notin FactorKinds
      BY InvFactorExit DEF FactorCleanExit
    <3>2. m[2] \in AnyTask
      BY <2>1, BlockedIs, MessageType DEF Pend, Inv1D, CallsInv, MessagesInv
    <3> QED
      BY <3>1, <3>2 DEF AnyTask, FactorKinds, IsSolve
  <2>3. CASE IsUp(m)
    <3>1. PICK c \in Sup : ~IsRoot(c) /\ Own(Parent(c)) # Own(c) /\ m = Up(c)
      BY <2>3 DEF IsUp
    <3>2. c \in RemChildren(Parent(c)) /\ Parent(c) \in Sup
      BY <3>1, TreeFacts, BranchFacts
    <3>3. NotUp(c)
      BY <2>1, <3>1 DEF NotUp
    <3> QED
      BY <1>3, <3>2, <3>3, AwaitedWaits, SolveMembers
  <2>4. CASE IsDown(m)
    <3>1. PICK P \in Sup : \E q \in Others(P) : m = Down(q, P)
      BY <2>4 DEF IsDown
    <3>2. PICK q \in Others(P) : m = Down(q, P)
      BY <3>1
    <3>3. PICK I : I = FirstOn(q, P)
      OBVIOUS
    <3>4. I \in RemChildren(P) /\ Own(I) = q /\ I \in Sup /\ ~IsRoot(I) /\ Parent(I) = P
      BY <3>3, OthersFacts, FirstFacts
    <3>5. Blocks(P, I)
      BY <2>1, <3>2, <3>4 DEF Blocks, NotDown
    <3> QED
      BY <1>3, <3>4, <3>5, AwaitedWaits, SolveMembers
  <2> QED
    BY <2>1, <2>2, <2>3, <2>4 DEF Inv1D, SolveInv, SolveKinds
<1>5. got = <<>>
  <2>1. DOMAIN got = {} /\ got = [m \in DOMAIN got |-> got[m]]
    BY <1>2 DEF Inv1D, GotOnly
  <2> QED
    BY <2>1
<1> QED
  BY <1>2, <1>4, <1>5

-----------------------------------------------------------------------------
(* The supernodes of the owners: the abstract factorization.               *)

(* A contribution is in the supernode of its owner once or not at all.     *)
LEMMA OwnerHolds ==
  ASSUME FactorInv, NEW K \in Sup, NEW I \in Sup
  PROVE  /\ sum[Own(K)][K][I] \in {0, 1}
         /\ sum[Own(K)][K][I] = 1 <=> Holds(Own(K), K, I)
         /\ sum[Own(K)][K] \in [Sup -> {0, 1}]
<1>1. Own(K) \in Rank
  BY OwnersAreRanks
<1>2. \A L \in Sup : sum[Own(K)][K][L] = IF Holds(Own(K), K, L) THEN 1 ELSE 0
  BY <1>1 DEF FactorInv, SumExact
<1>3. sum[Own(K)][K] \in [Sup -> Int]
  BY <1>1 DEF FactorInv, FTypes
<1> QED
  BY <1>2, <1>3

(* An Add step of the abstract factorization.                              *)
LEMMA SomeAdded ==
  ASSUME FactorInv, FactorInv', UNCHANGED factored,
         \A K, I \in Sup : sum'[Own(K)][K][I] # sum[Own(K)][K][I] =>
           sum[Own(K)][K][I] = 0 /\ I \in factored /\ K \in Struct[I] /\ K \notin factored
  PROVE  F!Add
<1> DEFINE add == [K \in Sup |-> sum[Own(K)][K]]
<1>1. add' = [K \in Sup |-> sum'[Own(K)][K]]
  BY DEF Own
<1>2. add' \in [Sup -> [Sup -> {0, 1}]]
  <2>1. \A K \in Sup : sum'[Own(K)][K] \in [Sup -> {0, 1}]
    <3> SUFFICES ASSUME NEW K \in Sup PROVE sum'[Own(K)][K] \in [Sup -> {0, 1}]
      OBVIOUS
    <3>1. Own(K) \in Rank
      BY OwnersAreRanks
    <3>2. \A L \in Sup : sum'[Own(K)][K][L] \in {0, 1}
      BY <3>1 DEF FactorInv, SumExact
    <3>3. sum'[Own(K)][K] \in [Sup -> Int]
      BY <3>1 DEF FactorInv, FTypes
    <3> QED
      BY <3>2, <3>3
  <2> QED
    BY <1>1, <2>1
<1>3. \A K, I \in Sup : add'[K][I] # add[K][I] =>
        add[K][I] = 0 /\ I \in factored /\ K \in Struct[I] /\ K \notin factored
  BY <1>1
<1> QED
  BY <1>2, <1>3 DEF F!Add, F!Sup, F!Contributors, Sup

LEMMA FactorMaps ==
  ASSUME FactorInv, NEW r \in Rank, NEW I \in Sup, Factor(r, I)
  PROVE  F!Factor(I)
<1>1. I \notin factored /\ FACTOR(I) \notin graph
  BY FactorReleases
<1>2. factored' = factored \cup {I} /\ UNCHANGED sum
  BY DEF Factor
<1>3. Missing(Own(I), I) = {} /\ Awaited(I) = {}
  BY <1>1 DEF FactorInv, FactorCounts
<1>4. ASSUME NEW L \in Sup, I \in Struct[L] PROVE sum[Own(I)][I][L] = 1
  <2>1. PICK s : s = Updater(I, L)
    OBVIOUS
  <2>2. L \in Sources(s, I) /\ s \in Rank
    BY <1>4, <2>1, StructFacts
  <2>3. CASE s = Own(I)
    <3>1. Computed(L, I)
      BY <1>3, <2>2, <2>3 DEF Missing
    <3> QED
      BY <1>4, <2>1, <2>3, <3>1, OwnerHolds DEF Holds
  <2>4. CASE s # Own(I)
    <3>1. Added(s, I)
      BY <1>3, <2>2, <2>4 DEF Awaited
    <3> QED
      BY <1>4, <2>1, <2>4, <3>1, OwnerHolds DEF Holds
  <2> QED
    BY <2>3, <2>4
<1>5. \A L \in F!Contributors(I) : [K \in Sup |-> sum[Own(K)][K]][I][L] = 1
  BY <1>4 DEF F!Contributors, F!Sup, Sup
<1>6. [K \in Sup |-> sum[Own(K)][K]]' = [K \in Sup |-> sum[Own(K)][K]]
  BY <1>2 DEF Own
<1> QED
  BY <1>1, <1>2, <1>5, <1>6 DEF F!Factor

(* What has been computed was computed with a factor.                      *)
LEMMA ComputedFromFactor ==
  ASSUME FactorInv, NEW I \in Sup, NEW t \in UpdateTasks(I), t \notin graph
  PROVE  I \in factored
  BY DEF FactorInv, UpdateStatus

LEMMA UpdateMaps ==
  ASSUME FactorInv, FactorInv', NEW r \in Rank, NEW I \in Sup, NEW J \in Sup, Update(r, I, J)
  PROVE  F!Add
<1>1. PICK t, T, last, local :
        /\ t = UPDATE(I, J) /\ T = Targets(r, I, J)
        /\ last = {K \in T : Announced(r, K)}
        /\ local = {FACTOR(K) : K \in {L \in T : Own(L) = r}}
  OBVIOUS
<1>2. /\ t \in UpdateTasks(I) /\ t \notin graph /\ local \subseteq graph
      /\ UpdateDone(r, I, T, last)
  BY <1>1, UpdateReleases
<1>3. UNCHANGED <<factored, frees>>
  BY DEF Update
<1>4. I \in factored
  BY <1>2, ComputedFromFactor
<1>5. ASSUME NEW K \in Sup, NEW L \in Sup, sum'[Own(K)][K][L] # sum[Own(K)][K][L]
      PROVE  sum[Own(K)][K][L] = 0 /\ L \in factored /\ K \in Struct[L] /\ K \notin factored
  <2>1. Own(K) \in Rank
    BY OwnersAreRanks
  <2>2. /\ sum[Own(K)][K][L] = IF Holds(Own(K), K, L) THEN 1 ELSE 0
        /\ sum'[Own(K)][K][L] = IF Holds(Own(K), K, L)' THEN 1 ELSE 0
    BY <2>1 DEF FactorInv, SumExact, Own
  <2>3. /\ Holds(Own(K), K, L)' <=> Holds(Own(K), K, L) \/ (Own(K) = r /\ L = I /\ K \in T)
        /\ Own(K) = r /\ L = I /\ K \in T => ~Holds(Own(K), K, L)
    <3>1. PICK q \in Rank : q = Own(K)
      BY <2>1
    <3>2. /\ Holds(q, K, L)' <=> Holds(q, K, L) \/ (q = r /\ L = I /\ K \in T)
          /\ q = r /\ L = I /\ K \in T => ~Holds(q, K, L)
      BY <1>2, <1>3, UpdateHolds
    <3>3. Own(K)' = Own(K)
      BY DEF Own
    <3> QED
      BY <3>1, <3>2, <3>3 DEF Holds
  <2>4. Own(K) = r /\ L = I /\ K \in T /\ sum[Own(K)][K][L] = 0
    BY <1>5, <2>2, <2>3
  <2>5. FACTOR(K) \in graph
    BY <1>1, <1>2, <2>4
  <2>6. K \notin factored
    BY <2>5 DEF FactorInv, FactorStatus, Gone
  <2> QED
    BY <1>2, <1>4, <2>4, <2>6 DEF UpdateDone
<1> QED
  BY <1>3, <1>5, SomeAdded

LEMMA AggregateMaps ==
  ASSUME FactorInv, FactorInv', NEW r \in Rank, NEW I \in Sup, NEW K \in Sup, Aggregate(r, I, K)
  PROVE  F!Add
<1>1. PICK t, s : t = AGGREGATE(I, K) /\ s = Updater(K, I)
  OBVIOUS
<1>2. /\ r = Own(K) /\ K \in Struct[I] /\ s \in Rank /\ s # r
      /\ Full(s, K) /\ ~Added(s, K) /\ got[AggMsg(I, K)] = Whole(s, K)
      /\ FACTOR(K) \in graph
  BY <1>1, AggregateReleases
<1>3. /\ sum' = [sum EXCEPT ![r][K] = [L \in Sup |-> sum[r][K][L] + got[AggMsg(I, K)][L]]]
      /\ UNCHANGED factored
  BY DEF Aggregate, AggMsg
<1>4. K \notin factored
  BY <1>2 DEF FactorInv, FactorStatus, Gone
<1>5. sum \in [Rank -> [Sup -> [Sup -> Int]]]
  BY DEF FactorInv, FTypes
<1>6. ASSUME NEW M \in Sup, NEW L \in Sup, sum'[Own(M)][M][L] # sum[Own(M)][M][L]
      PROVE  sum[Own(M)][M][L] = 0 /\ L \in factored /\ M \in Struct[L] /\ M \notin factored
  <2>1. Own(M) \in Rank
    BY OwnersAreRanks
  <2>2. M = K
    BY <1>2, <1>3, <1>5, <1>6, <2>1
  <2>3. sum'[r][K][L] = sum[r][K][L] + Whole(s, K)[L]
    BY <1>2, <1>3, <1>5
  <2>4. Whole(s, K)[L] # 0
    BY <1>2, <1>5, <1>6, <2>2, <2>3
  <2>5. L \in Sources(s, K)
    BY <2>4 DEF Whole
  <2>6. K \in Struct[L] /\ Updater(K, L) = s /\ Computed(L, K)
    BY <1>2, <2>5, SourcesFacts DEF Full
  <2>7. L \in factored
    <3>1. TaskFor(L, K) \in UpdateTasks(L)
      BY <2>6, TaskForFacts
    <3> QED
      BY <2>6, <3>1, ComputedFromFactor DEF Computed, Gone
  <2>8. sum[r][K][L] = 0
    BY <1>2, <2>6 DEF FactorInv, SumExact, Holds
  <2> QED
    BY <1>2, <1>4, <2>2, <2>6, <2>7, <2>8
<1> QED
  BY <1>3, <1>6, SomeAdded

LEMMA FreeMaps ==
  ASSUME FactorInv, NEW f, FreeAggregate(f)
  PROVE  UNCHANGED <<[K \in Sup |-> sum[Own(K)][K]], factored>>
<1>1. /\ f \in frees /\ sum' = [sum EXCEPT ![f[1]][f[2]] = Nothing]
      /\ UNCHANGED factored
  BY DEF FreeAggregate
<1>2. f[1] # Own(f[2]) /\ f[1] \in Rank /\ f[2] \in Sup
  BY <1>1 DEF FactorInv, FTypes, FreesExact, Sends
<1>3. sum \in [Rank -> [Sup -> [Sup -> Int]]]
  BY DEF FactorInv, FTypes
<1>4. \A K \in Sup : sum'[Own(K)][K] = sum[Own(K)][K]
  BY <1>1, <1>2, <1>3, OwnersAreRanks
<1>5. [K \in Sup |-> sum[Own(K)][K]]' = [K \in Sup |-> sum'[Own(K)][K]]
  BY DEF Own
<1> QED
  BY <1>1, <1>4, <1>5

LEMMA StepMaps ==
  ASSUME Inv1D, Inv1D', [Next]_vars
  PROVE  F!Next \/ UNCHANGED <<[K \in Sup |-> sum[Own(K)][K]], factored>>
<1>0. FactorInv /\ FactorInv'
  BY DEF Inv1D
<1>1. CASE UNCHANGED factorVars
  <2>1. UNCHANGED sum /\ UNCHANGED factored
    BY <1>1 DEF factorVars
  <2> QED
    BY <2>1 DEF Own
<1>2. ASSUME NEW r \in Rank, FactorTask(r) PROVE F!Next
  <2>1. PICK t \in Mine(r, ready) :
          \/ t[1] = "FACTOR"    /\ Factor(r, t[2])
          \/ t[1] = "UPDATE"    /\ Update(r, t[2], t[3])
          \/ t[1] = "AGGREGATE" /\ Aggregate(r, t[2], t[3])
    BY <1>2 DEF FactorTask
  <2>2. t[2] \in Sup /\ t[3] \in Sup
    BY DEF Inv1D, CallsInv, TasksInv, Mine, AnyTask
  <2>3. CASE Factor(r, t[2])
    <3>1. F!Factor(t[2])
      BY <1>0, <2>2, <2>3, FactorMaps
    <3> QED
      BY <2>2, <3>1 DEF F!Next, F!Sup, Sup
  <2>4. CASE Update(r, t[2], t[3])
    BY <1>0, <2>2, <2>4, UpdateMaps DEF F!Next
  <2>5. CASE Aggregate(r, t[2], t[3])
    BY <1>0, <2>2, <2>5, AggregateMaps DEF F!Next
  <2> QED
    BY <2>1, <2>3, <2>4, <2>5
<1>3. CASE \E f \in frees : FreeAggregate(f)
  BY <1>0, <1>3, FreeMaps
<1>4. \/ UNCHANGED factorVars
      \/ \E r \in Rank : FactorTask(r)
      \/ \E f \in frees : FreeAggregate(f)
  BY DEF Next, RankStep, Execute, Complete, Reached, Terminated, vars, factorVars
<1> QED
  BY <1>1, <1>2, <1>3, <1>4

LEMMA InitMaps == Init => F!Init
<1> SUFFICES ASSUME Init PROVE F!Init
  OBVIOUS
<1>1. factored = {} /\ sum = [r \in Rank |-> [K \in Sup |-> Nothing]]
  BY DEF Init, FactorInit
<1>2. [K \in Sup |-> sum[Own(K)][K]] = [K \in Sup |-> Nothing]
  BY <1>1, OwnersAreRanks
<1> QED
  BY <1>1, <1>2 DEF F!Init, F!Sup, Sup, Nothing

-----------------------------------------------------------------------------
(* The theorems of the numerical phases.                                   *)

(* The counts of every task, in both calls, are what is still to come: the *)
(* local updates and the aggregates that FACTOR waits for, the factor of   *)
(* an UPDATE, the children of a FUC task and the parent of a BUC or BU     *)
(* task.  So updateTask and dec_ref never look for a task that is gone.    *)
THEOREM CountsStayExact == Spec => []CountersExact
<1>1. Inv1D => CountersExact
  BY InvCountsFactor, InvCountsSolve DEF CountersExact
<1> QED
  BY <1>1, AlwaysInv1D, PTL

(* An aggregate vector is complete when signal_data announces it, and it   *)
(* is neither written nor freed before its receiver has read it.           *)
THEOREM AggregatesStayFinal == Spec => []AggregatesFinal
  BY InvAggregates, AlwaysInv1D, PTL

(* When a rank leaves run, its tasks, messages and aggregates are gone:    *)
(* the delete of remDealloc that follows is safe, and Solve starts clean.  *)
THEOREM ExitsAreClean == Spec => []CleanExit
<1>1. Inv1D => CleanExit
  <2> SUFFICES ASSUME Inv1D PROVE CleanExit
    OBVIOUS
  <2>1. \A r \in Rank : call[r] = 2 /\ pc[r] = "end" =>
          graph = {} /\ ready = {} /\ Pending(r) = {} /\ got = <<>>
    BY InvSolveExit
  <2> QED
    BY <2>1, InvFactorExit DEF CleanExit
<1> QED
  BY <1>1, AlwaysInv1D, PTL

(* FactorizationFanBoth implements the abstract factorization: whatever    *)
(* the order of the tasks and messages, a contribution is added to its     *)
(* supernode once, after its source and before its target is factored.     *)
THEOREM FanBothImplements == Spec => FactorizationSpec
<1>1. Inv1D /\ Inv1D' /\ [Next]_vars => [F!Next]_<<[K \in Sup |-> sum[Own(K)][K]], factored>>
  BY StepMaps
<1> QED
  BY <1>1, InitMaps, AlwaysInv1D, PTL DEF Spec, FactorizationSpec, F!Spec

-----------------------------------------------------------------------------
(* The path from a supernode to the root of its tree.  Induction over it   *)
(* is done with a least counterexample.                                    *)

UpStep(S) == S \cup {Parent(L) : L \in {M \in S : ~IsRoot(M)}}

(* The function that Descends defines.                                     *)
IsUps(f, K) ==
  f = [n \in 0..NS |-> IF n = 0 THEN {K} ELSE UpStep(f[n - 1])]

IsUpsUpTo(f, K, m) == f = [n \in 0..m |-> IF n = 0 THEN {K} ELSE UpStep(f[n - 1])]

LEMMA UpsUpTo ==
  ASSUME NEW K, NEW m \in Nat
  PROVE  \E f : IsUpsUpTo(f, K, m)
<1> DEFINE Good(k) == \E f : f = [n \in 0..k |-> IF n = 0 THEN {K} ELSE UpStep(f[n - 1])]
           Bad == {k \in Nat : ~Good(k)}
<1> SUFFICES ASSUME Bad # {} PROVE FALSE
  BY DEF IsUpsUpTo
<1>1. PICK k \in Bad : \A j \in Bad : k <= j
  BY LeastNatural
<1>2. k # 0
  <2> DEFINE f == [n \in 0..0 |-> {K}]
  <2>1. f = [n \in 0..0 |-> IF n = 0 THEN {K} ELSE UpStep(f[n - 1])]
    OBVIOUS
  <2>2. Good(0)
    BY <2>1
  <2> QED
    BY <2>2
<1>3. k - 1 \in Nat /\ Good(k - 1)
  <2>1. k - 1 \in Nat /\ ~(k <= k - 1)
    BY <1>1, <1>2
  <2>2. k - 1 \notin Bad
    BY <1>1, <2>1
  <2> QED
    BY <2>1, <2>2
<1>4. PICK g : g = [n \in 0..(k - 1) |-> IF n = 0 THEN {K} ELSE UpStep(g[n - 1])]
  BY <1>3
<1> DEFINE f == [n \in 0..k |-> IF n = k THEN UpStep(g[k - 1]) ELSE g[n]]
<1>5. \A n \in 0..k : f[n] = IF n = 0 THEN {K} ELSE UpStep(f[n - 1])
  <2> SUFFICES ASSUME NEW n \in 0..k PROVE f[n] = IF n = 0 THEN {K} ELSE UpStep(f[n - 1])
    OBVIOUS
  <2>1. CASE n = k
    BY <1>2, <1>3, <2>1
  <2>2. CASE n # k
    <3>1. n \in 0..(k - 1) /\ f[n] = g[n]
      BY <1>3, <2>2
    <3>2. g[n] = IF n = 0 THEN {K} ELSE UpStep(g[n - 1])
      BY <1>4, <3>1
    <3>3. n # 0 => f[n - 1] = g[n - 1]
      BY <1>3, <2>2
    <3> QED
      BY <3>1, <3>2, <3>3
  <2> QED
    BY <2>1, <2>2
<1>6. f = [n \in 0..k |-> IF n = 0 THEN {K} ELSE UpStep(f[n - 1])]
  BY <1>5
<1>7. Good(k)
  <2> HIDE DEF f
  <2> QED
    BY <1>6
<1> QED
  BY <1>7

LEMMA UpsExist ==
  ASSUME NEW K
  PROVE  \E f : /\ IsUps(f, K)
                /\ \A I : Descends(K, I) <=> I \in f[NS]
<1>1. PICK f : f = CHOOSE g : IsUps(g, K)
  OBVIOUS
<1>2. \E g : IsUps(g, K)
  <2>1. NS \in Nat
    BY DistributionAssumption
  <2>2. \E g : IsUpsUpTo(g, K, NS)
    BY <2>1, UpsUpTo
  <2> QED
    BY <2>2 DEF IsUps, IsUpsUpTo
<1>3. IsUps(f, K)
  BY <1>1, <1>2
<1>4. \A I : Descends(K, I) <=> I \in f[NS]
  BY <1>1 DEF Descends, IsUps, UpStep
<1> QED
  BY <1>3, <1>4

LEMMA UpsFacts ==
  ASSUME NEW K \in Sup, NEW f, IsUps(f, K)
  PROVE  /\ f[0] = {K}
         /\ \A n \in 1..NS : f[n] = UpStep(f[n - 1])
         /\ \A n \in 0..NS : \A L \in f[n] : L \in Sup /\ L >= K
         /\ \A b \in 0..NS : \A a \in 0..b : f[a] \subseteq f[b]
         /\ \A n \in 0..NS : \A L \in f[n] : L \in f[L - K]
<1>0. NS \in Nat /\ K \in 1..NS
  BY DistributionAssumption DEF Sup
<1>1. f[0] = {K} /\ \A n \in 1..NS : f[n] = UpStep(f[n - 1])
  <2>1. \A n \in 0..NS : f[n] = IF n = 0 THEN {K} ELSE UpStep(f[n - 1])
    BY DEF IsUps
  <2>2. 0 \in 0..NS /\ \A n \in 1..NS : n \in 0..NS /\ n # 0
    BY <1>0
  <2> QED
    BY <2>1, <2>2
<1>2. \A M \in Sup : ~IsRoot(M) => Parent(M) \in Sup /\ Parent(M) > M
  BY SolveMembers, TreeFacts
<1>3. \A n \in 0..NS : \A L \in f[n] : L \in Sup /\ L >= K
  <2> DEFINE Bad == {n \in 0..NS : ~ \A L \in f[n] : L \in Sup /\ L >= K}
  <2> SUFFICES ASSUME Bad # {} PROVE FALSE
    OBVIOUS
  <2>0. Bad \subseteq Nat
    BY <1>0
  <2>1. PICK n \in Bad : \A j \in Bad : n <= j
    BY <2>0, LeastNatural
  <2>2. n # 0
    BY <1>0, <1>1 DEF Sup
  <2>3. n \in 1..NS /\ n - 1 \in 0..NS /\ ~(n <= n - 1)
    BY <1>0, <2>1, <2>2
  <2>4. \A L \in f[n - 1] : L \in Sup /\ L >= K
    BY <2>1, <2>3
  <2>5. \A L \in f[n] : L \in Sup /\ L >= K
    BY <1>1, <1>2, <1>0, <2>3, <2>4 DEF UpStep, Sup
  <2> QED
    BY <2>1, <2>5
<1>4. \A b \in 0..NS : \A a \in 0..b : f[a] \subseteq f[b]
  <2> DEFINE Bad == {b \in 0..NS : ~ \A a \in 0..b : f[a] \subseteq f[b]}
  <2> SUFFICES ASSUME Bad # {} PROVE FALSE
    OBVIOUS
  <2>0. Bad \subseteq Nat
    BY <1>0
  <2>1. PICK b \in Bad : \A j \in Bad : b <= j
    BY <2>0, LeastNatural
  <2>2. PICK a \in 0..b : ~(f[a] \subseteq f[b])
    BY <2>1
  <2>3. a # b
    BY <2>2
  <2>4. b \in 1..NS /\ b - 1 \in 0..NS /\ ~(b <= b - 1) /\ a \in 0..(b - 1)
    BY <1>0, <2>1, <2>2, <2>3
  <2>5. f[a] \subseteq f[b - 1]
    BY <2>1, <2>4
  <2>6. f[b - 1] \subseteq f[b]
    BY <1>1, <2>4 DEF UpStep
  <2> QED
    BY <2>2, <2>5, <2>6
<1>5. \A n \in 0..NS : \A L \in f[n] : L \in f[L - K]
  <2> DEFINE Bad == {n \in 0..NS : ~ \A L \in f[n] : L \in f[L - K]}
  <2> SUFFICES ASSUME Bad # {} PROVE FALSE
    OBVIOUS
  <2>0. Bad \subseteq Nat
    BY <1>0
  <2>1. PICK n \in Bad : \A j \in Bad : n <= j
    BY <2>0, LeastNatural
  <2>2. PICK L \in f[n] : L \notin f[L - K]
    BY <2>1
  <2>3. L \in Sup /\ L >= K
    BY <1>3, <2>1
  <2>4. n # 0
    BY <1>0, <1>1, <2>2
  <2>5. n \in 1..NS /\ n - 1 \in 0..NS /\ ~(n <= n - 1)
    BY <1>0, <2>1, <2>4
  <2>6. \A M \in f[n - 1] : M \in f[M - K]
    BY <2>1, <2>5
  <2>7. PICK M \in f[n - 1] : ~IsRoot(M) /\ L = Parent(M)
    BY <1>1, <2>2, <2>5, <2>6 DEF UpStep
  <2>8. M \in Sup /\ M >= K /\ L > M /\ M \in f[M - K]
    BY <1>2, <1>3, <2>5, <2>6, <2>7
  <2>9. PICK d : d = M - K
    OBVIOUS
  <2>10. d \in 0..NS /\ d + 1 \in 1..NS /\ d + 1 <= L - K /\ L - K \in 0..NS /\ d + 1 \in 0..(L - K)
         /\ (d + 1) - 1 = d
    BY <1>0, <2>3, <2>8, <2>9 DEF Sup
  <2>11. L \in f[d + 1]
    BY <1>1, <2>7, <2>8, <2>9, <2>10 DEF UpStep
  <2>12. f[d + 1] \subseteq f[L - K]
    BY <1>4, <2>10
  <2> QED
    BY <2>2, <2>11, <2>12
<1> QED
  BY <1>1, <1>3, <1>4, <1>5

(* Descends is the path: a supernode is on its own, and the parent of one  *)
(* that is; another one on it is the parent of one that is.                *)
LEMMA PathFacts ==
  ASSUME NEW K \in Sup
  PROVE  /\ \A I : Descends(K, I) => I \in Sup /\ I >= K
         /\ Descends(K, K)
         /\ \A c : Descends(K, c) /\ ~IsRoot(c) => Descends(K, Parent(c))
         /\ \A I : Descends(K, I) /\ I # K => \E c \in Children(I) : Descends(K, c)
<1>0. NS \in Nat /\ K \in 1..NS
  BY DistributionAssumption DEF Sup
<1>1. PICK f : IsUps(f, K) /\ \A I : Descends(K, I) <=> I \in f[NS]
  BY UpsExist
<1>2. /\ f[0] = {K}
      /\ \A n \in 1..NS : f[n] = UpStep(f[n - 1])
      /\ \A n \in 0..NS : \A L \in f[n] : L \in Sup /\ L >= K
      /\ \A b \in 0..NS : \A a \in 0..b : f[a] \subseteq f[b]
      /\ \A n \in 0..NS : \A L \in f[n] : L \in f[L - K]
  BY <1>1, UpsFacts
<1>3. \A I : Descends(K, I) => I \in Sup /\ I >= K
  BY <1>0, <1>1, <1>2
<1>4. Descends(K, K)
  BY <1>0, <1>1, <1>2
<1>5. ASSUME NEW c, Descends(K, c), ~IsRoot(c) PROVE Descends(K, Parent(c))
  <2>1. c \in Sup /\ c >= K /\ c \in f[c - K] /\ Parent(c) \in Sup /\ Parent(c) > c
    <3>1. c \in Sup /\ c >= K /\ c \in f[NS]
      BY <1>1, <1>3, <1>5
    <3>2. c \in f[c - K]
      BY <1>0, <1>2, <3>1
    <3>3. Parent(c) \in Sup /\ c \in Children(Parent(c))
      BY <1>5, <3>1, SolveMembers, TreeFacts
    <3> QED
      BY <3>1, <3>2, <3>3, TreeFacts
  <2>2. PICK d : d = c - K
    OBVIOUS
  <2>3. d + 1 \in 1..NS /\ (d + 1) - 1 = d /\ d + 1 \in 0..NS
    BY <1>0, <2>1, <2>2 DEF Sup
  <2>4. Parent(c) \in f[d + 1]
    BY <1>2, <1>5, <2>1, <2>2, <2>3 DEF UpStep
  <2>5. f[d + 1] \subseteq f[NS]
    BY <1>0, <1>2, <2>3
  <2> QED
    BY <1>1, <2>4, <2>5
<1>6. ASSUME NEW I, Descends(K, I), I # K PROVE \E c \in Children(I) : Descends(K, c)
  <2> DEFINE In == {n \in 0..NS : I \in f[n]}
  <2>1. NS \in In
    BY <1>0, <1>1, <1>6
  <2>2. PICK n \in In : \A j \in In : n <= j
    <3>1. In \subseteq Nat /\ In # {}
      BY <1>0, <2>1
    <3> QED
      BY <3>1, LeastNatural
  <2>3. n # 0
    BY <1>2, <1>6
  <2>4. n \in 1..NS /\ n - 1 \in 0..NS /\ ~(n <= n - 1)
    BY <1>0, <2>2, <2>3
  <2>5. I \notin f[n - 1]
    BY <2>2, <2>4
  <2>6. PICK M \in f[n - 1] : ~IsRoot(M) /\ I = Parent(M)
    BY <1>2, <2>2, <2>4, <2>5 DEF UpStep
  <2>7. f[n - 1] \subseteq f[NS]
    BY <1>0, <1>2, <2>4
  <2> QED
    BY <1>1, <1>3, <2>6, <2>7, TreeFacts
<1> QED
  BY <1>3, <1>4, <1>5, <1>6

(* The path does not branch: two supernodes on it are one below the other. *)
LEMMA PathIsChain ==
  ASSUME NEW K \in Sup
  PROVE  \A d : \A c : Descends(K, c) /\ Descends(K, d) /\ c < d =>
           ~IsRoot(c) /\ Parent(c) <= d
<1>0. NS \in Nat /\ Sup \subseteq Nat
  BY DistributionAssumption DEF Sup
<1>1. /\ \A I : Descends(K, I) => I \in Sup /\ I >= K
      /\ \A I : Descends(K, I) /\ I # K => \E c \in Children(I) : Descends(K, c)
  BY PathFacts
<1> DEFINE Holds2(d) == \A c : Descends(K, c) /\ Descends(K, d) /\ c < d =>
                           ~IsRoot(c) /\ Parent(c) <= d
           Bad == {d \in Sup : ~Holds2(d)}
<1>2. ASSUME Bad # {} PROVE FALSE
  <2>1. PICK d \in Bad : \A j \in Bad : d <= j
    BY <1>0, <1>2, LeastNatural
  <2>2. PICK c : Descends(K, c) /\ Descends(K, d) /\ c < d /\ ~(~IsRoot(c) /\ Parent(c) <= d)
    BY <2>1
  <2>3. c \in Nat /\ d \in Nat /\ c \in Sup /\ d \in Sup /\ c >= K /\ K \in Nat /\ d # K
    <3>1. c \in Sup /\ c >= K /\ d \in Sup /\ d >= K
      BY <1>1, <2>2
    <3>2. c \in Nat /\ d \in Nat /\ K \in Nat
      BY <1>0, <3>1
    <3> QED
      BY <2>2, <3>1, <3>2
  <2>4. PICK e \in Children(d) : Descends(K, e)
    BY <1>1, <2>2, <2>3
  <2>5. e \in Sup /\ e \in Nat /\ e < d /\ ~IsRoot(e) /\ Parent(e) = d
    BY <1>0, <2>4, TreeFacts
  <2>6. CASE e = c
    BY <2>2, <2>3, <2>5, <2>6
  <2>7. CASE c < e
    <3>1. Holds2(e)
      BY <2>1, <2>3, <2>5
    <3>2. ~IsRoot(c) /\ Parent(c) <= e
      BY <2>2, <2>4, <2>7, <3>1
    <3>3. Parent(c) \in Nat
      BY <1>0, <2>3, <3>2, SolveMembers
    <3> QED
      BY <2>2, <2>3, <2>5, <3>2, <3>3
  <2>8. CASE e < c
    <3>1. Holds2(c)
      BY <2>1, <2>2, <2>3
    <3>2. d <= c
      BY <2>2, <2>4, <2>5, <2>8, <3>1
    <3> QED
      BY <2>2, <2>3, <3>2
  <2> QED
    BY <2>3, <2>5, <2>6, <2>7, <2>8
<1> QED
  BY <1>1, <1>2

(* The children of a supernode share out its descendants.                  *)
LEMMA OneChildAbove ==
  ASSUME NEW I \in Sup, NEW K \in Sup
  PROVE  /\ Descends(K, I) <=> K = I \/ \E c \in Children(I) : Descends(K, c)
         /\ \A c, d \in Children(I) : Descends(K, c) /\ Descends(K, d) => c = d
         /\ \A c \in Children(I) : Descends(K, c) => K # I
<1>1. \A c \in Children(I) : c \in Sup /\ c \in Nat /\ I \in Nat /\ ~IsRoot(c) /\ Parent(c) = I /\ I > c
  BY TreeFacts, DistributionAssumption DEF Sup
<1>2. Descends(K, I) <=> K = I \/ \E c \in Children(I) : Descends(K, c)
  BY <1>1, PathFacts
<1>3. ASSUME NEW c \in Children(I), NEW d \in Children(I), Descends(K, c), Descends(K, d), c < d
      PROVE  FALSE
  <2>1. Parent(c) <= d
    BY <1>3, PathIsChain
  <2> QED
    BY <1>1, <2>1
<1>4. \A c \in Children(I) : Descends(K, c) => K # I
  <2> SUFFICES ASSUME NEW c \in Children(I), Descends(K, c), K = I PROVE FALSE
    OBVIOUS
  <2>1. c >= K
    BY PathFacts
  <2> QED
    BY <1>1, <2>1
<1>5. \A c, d \in Children(I) : Descends(K, c) /\ Descends(K, d) => c = d
  <2> SUFFICES ASSUME NEW c \in Children(I), NEW d \in Children(I),
                      Descends(K, c), Descends(K, d), c # d
               PROVE  FALSE
    OBVIOUS
  <2>1. c < d \/ d < c
    BY <1>1
  <2> QED
    BY <1>3, <2>1
<1> QED
  BY <1>2, <1>4, <1>5

(* The rows of a supernode below one on its path are rows of that one.     *)
LEMMA RowsGoUp ==
  ASSUME FillClosed, NEW K \in Sup, NEW J \in Struct[K]
  PROVE  /\ \A c : Descends(K, c) /\ c < J => J \in Struct[c] /\ ~IsRoot(c)
         /\ Descends(K, J)
<1>0. NS \in Nat /\ Sup \subseteq Nat /\ J \in Sup /\ J > K
  BY DistributionAssumption DEF Sup
<1>1. /\ \A I : Descends(K, I) => I \in Sup /\ I >= K
      /\ Descends(K, K)
      /\ \A c : Descends(K, c) /\ ~IsRoot(c) => Descends(K, Parent(c))
      /\ \A I : Descends(K, I) /\ I # K => \E c \in Children(I) : Descends(K, c)
  BY PathFacts
<1>2. \A c \in Sup : \A L \in Struct[c] :
        /\ ~IsRoot(c) /\ Parent(c) \in Struct[c] /\ Parent(c) <= L
        /\ Parent(c) < L => L \in Struct[Parent(c)]
  <2> SUFFICES ASSUME NEW c \in Sup, NEW L \in Struct[c]
               PROVE  /\ ~IsRoot(c) /\ Parent(c) \in Struct[c] /\ Parent(c) <= L
                      /\ Parent(c) < L => L \in Struct[Parent(c)]
    OBVIOUS
  <2>1. Struct[c] \subseteq Sup /\ Struct[c] # {}
    BY DistributionAssumption
  <2>2. Parent(c) \in Struct[c] /\ Parent(c) <= L
    BY <2>1, LowestIsLeast DEF Parent
  <2>3. Parent(c) < L => L \in Struct[Parent(c)]
    BY <2>2 DEF FillClosed
  <2> QED
    BY <2>1, <2>2, <2>3 DEF IsRoot
<1>3. \A c : Descends(K, c) /\ c < J => J \in Struct[c]
  <2> DEFINE Bad == {c \in Sup : Descends(K, c) /\ c < J /\ J \notin Struct[c]}
  <2> SUFFICES ASSUME Bad # {} PROVE FALSE
    BY <1>1
  <2>0. Bad \subseteq Nat
    BY <1>0
  <2>1. PICK c \in Bad : \A j \in Bad : c <= j
    BY <2>0, LeastNatural
  <2>2. c # K
    BY <2>1
  <2>3. PICK e \in Children(c) : Descends(K, e)
    BY <1>1, <2>1, <2>2
  <2>4. e \in Sup /\ e < c /\ Parent(e) = c /\ e \in Nat /\ c \in Nat /\ J \in Nat
    BY <1>0, <2>1, <2>3, TreeFacts
  <2>5. e \notin Bad
    BY <2>1, <2>4
  <2>6. J \in Struct[e]
    BY <2>1, <2>3, <2>4, <2>5
  <2> QED
    BY <1>2, <2>1, <2>4, <2>6
<1>4. Descends(K, J)
  <2> DEFINE S == {c \in Sup : Descends(K, c) /\ c < J}
  <2>1. K \in S
    BY <1>0, <1>1
  <2>2. S \subseteq Sup /\ S # {}
    BY <2>1
  <2>3. PICK c : c \in S /\ \A e \in S : c >= e
    BY <2>2, HighestIsGreatest
  <2>4. J \in Struct[c] /\ c \in Sup
    BY <1>3, <2>3
  <2>5. ~IsRoot(c) /\ Parent(c) <= J /\ Parent(c) \in Sup /\ Parent(c) > c
    BY <1>2, <2>4, SolveMembers, TreeFacts
  <2>6. Descends(K, Parent(c))
    BY <1>1, <2>3, <2>5
  <2>7. ~(Parent(c) < J)
    <3>1. Parent(c) < J => Parent(c) \in S
      BY <2>5, <2>6
    <3>2. c \in Nat /\ Parent(c) \in Nat
      BY <1>0, <2>4, <2>5
    <3>3. ~(c >= Parent(c))
      BY <2>5, <3>2
    <3> QED
      BY <2>3, <3>1, <3>3
  <2>8. Parent(c) = J
    <3>1. Parent(c) \in Nat /\ J \in Nat
      BY <1>0, <2>5
    <3> QED
      BY <2>5, <2>7, <3>1
  <2> QED
    BY <2>6, <2>8
<1>5. \A c : Descends(K, c) /\ c < J => ~IsRoot(c)
  BY <1>1, <1>2, <1>3
<1> QED
  BY <1>3, <1>4, <1>5

-----------------------------------------------------------------------------
(* What the FUC task of a supernode makes of the rows of its children.     *)

AddChild(I, held, D, S, n) ==
  [J \in D |-> IF Carried(I, n, J) THEN Plus(S[J], held[n][J]) ELSE S[J]]

(* The function that ForwardRows defines.                                  *)
IsSum(f, I, held, R) ==
  f = [n \in 0..NS |-> IF n = 0 THEN R ELSE AddChild(I, held, DOMAIN R, f[n - 1], n)]

IsSumUpTo(f, I, held, R, D, m) ==
  f = [n \in 0..m |-> IF n = 0 THEN R ELSE AddChild(I, held, D, f[n - 1], n)]

LEMMA SumUpTo ==
  ASSUME NEW I, NEW held, NEW R, NEW D, NEW m \in Nat
  PROVE  \E f : IsSumUpTo(f, I, held, R, D, m)
<1> DEFINE Good(k) == \E f : f = [n \in 0..k |-> IF n = 0 THEN R
                                                 ELSE AddChild(I, held, D, f[n - 1], n)]
           Bad == {k \in Nat : ~Good(k)}
<1> SUFFICES ASSUME Bad # {} PROVE FALSE
  BY DEF IsSumUpTo
<1>1. PICK k \in Bad : \A j \in Bad : k <= j
  BY LeastNatural
<1>2. k # 0
  <2> DEFINE f == [n \in 0..0 |-> R]
  <2>1. f = [n \in 0..0 |-> IF n = 0 THEN R ELSE AddChild(I, held, D, f[n - 1], n)]
    OBVIOUS
  <2>2. Good(0)
    BY <2>1
  <2> QED
    BY <2>2
<1>3. k - 1 \in Nat /\ Good(k - 1)
  <2>1. k - 1 \in Nat /\ ~(k <= k - 1)
    BY <1>1, <1>2
  <2>2. k - 1 \notin Bad
    BY <1>1, <2>1
  <2> QED
    BY <2>1, <2>2
<1>4. PICK g : g = [n \in 0..(k - 1) |-> IF n = 0 THEN R ELSE AddChild(I, held, D, g[n - 1], n)]
  BY <1>3
<1> DEFINE f == [n \in 0..k |-> IF n = k THEN AddChild(I, held, D, g[k - 1], k) ELSE g[n]]
<1>5. \A n \in 0..k : f[n] = IF n = 0 THEN R ELSE AddChild(I, held, D, f[n - 1], n)
  <2> SUFFICES ASSUME NEW n \in 0..k
               PROVE  f[n] = IF n = 0 THEN R ELSE AddChild(I, held, D, f[n - 1], n)
    OBVIOUS
  <2>1. CASE n = k
    BY <1>2, <1>3, <2>1
  <2>2. CASE n # k
    <3>1. n \in 0..(k - 1) /\ f[n] = g[n]
      BY <1>3, <2>2
    <3>2. g[n] = IF n = 0 THEN R ELSE AddChild(I, held, D, g[n - 1], n)
      BY <1>4, <3>1
    <3>3. n # 0 => f[n - 1] = g[n - 1]
      BY <1>3, <2>2
    <3> QED
      BY <3>1, <3>2, <3>3
  <2> QED
    BY <2>1, <2>2
<1>6. f = [n \in 0..k |-> IF n = 0 THEN R ELSE AddChild(I, held, D, f[n - 1], n)]
  BY <1>5
<1>7. Good(k)
  <2> HIDE DEF f
  <2> QED
    BY <1>6
<1> QED
  BY <1>7

LEMMA SumExists ==
  ASSUME NEW I, NEW held, NEW R, R = rows[I]
  PROVE  \E f : /\ IsSum(f, I, held, R)
                /\ ForwardRows(I, held) =
                     [J \in DOMAIN R |->
                        IF J = I THEN f[NS][J] ELSE Plus(f[NS][J], Contribution(I))]
<1>1. PICK f : f = CHOOSE g : IsSum(g, I, held, R)
  OBVIOUS
<1>2. \E g : IsSum(g, I, held, R)
  <2>1. NS \in Nat
    BY DistributionAssumption
  <2>2. \E g : IsSumUpTo(g, I, held, R, DOMAIN R, NS)
    BY <2>1, SumUpTo
  <2> QED
    BY <2>2 DEF IsSum, IsSumUpTo
<1>3. IsSum(f, I, held, R)
  BY <1>1, <1>2
<1>4. ForwardRows(I, held) =
        [J \in DOMAIN R |->
           IF J = I THEN f[NS][J] ELSE Plus(f[NS][J], Contribution(I))]
  BY <1>1 DEF ForwardRows, IsSum, AddChild
<1> QED
  BY <1>3, <1>4

(* What the first n children have added to rows J.                         *)
FromChildren(I, J, n) ==
  [K \in Sup |-> IF \E c \in Children(I) : /\ c <= n /\ J \in Struct[c]
                                           /\ J \in Struct[K] /\ Descends(K, c)
                   THEN 1 ELSE 0]

LEMMA OneMoreChild ==
  ASSUME NEW I \in Sup, NEW J, NEW n \in 1..NS
  PROVE  /\ ~Carried(I, n, J) => FromChildren(I, J, n) = FromChildren(I, J, n - 1)
         /\ Carried(I, n, J) =>
              FromChildren(I, J, n) =
                [K \in Sup |-> FromChildren(I, J, n - 1)[K] + AddedBelow(n, J)[K]]
<1>0. NS \in Nat /\ \A c \in Children(I) : c \in Sup /\ c \in Nat
  BY TreeFacts, DistributionAssumption DEF Sup
<1>1. \A c \in Children(I) : c <= n <=> c <= n - 1 \/ c = n
  BY <1>0
<1>2. ASSUME ~Carried(I, n, J) PROVE FromChildren(I, J, n) = FromChildren(I, J, n - 1)
  <2>1. \A K \in Sup :
          (\E c \in Children(I) : /\ c <= n /\ J \in Struct[c]
                                  /\ J \in Struct[K] /\ Descends(K, c)) <=>
          (\E c \in Children(I) : /\ c <= n - 1 /\ J \in Struct[c]
                                  /\ J \in Struct[K] /\ Descends(K, c))
    BY <1>1, <1>2 DEF Carried
  <2> QED
    BY <2>1 DEF FromChildren
<1>3. ASSUME Carried(I, n, J)
      PROVE  FromChildren(I, J, n) =
               [K \in Sup |-> FromChildren(I, J, n - 1)[K] + AddedBelow(n, J)[K]]
  <2>1. n \in Children(I) /\ J \in Struct[n] /\ n \in Sup /\ ~(n <= n - 1)
    BY <1>0, <1>3 DEF Carried
  <2>2. ASSUME NEW K \in Sup
        PROVE  FromChildren(I, J, n)[K] = FromChildren(I, J, n - 1)[K] + AddedBelow(n, J)[K]
    <3>1. CASE J \in Struct[K] /\ Descends(K, n)
      <4>1. \A c \in Children(I) : Descends(K, c) => c = n
        BY <2>1, <3>1, OneChildAbove
      <4>2. FromChildren(I, J, n - 1)[K] = 0
        BY <2>1, <4>1 DEF FromChildren
      <4>3. FromChildren(I, J, n)[K] = 1
        BY <1>0, <2>1, <3>1 DEF FromChildren
      <4>4. AddedBelow(n, J)[K] = 1
        BY <3>1 DEF AddedBelow
      <4> QED
        BY <4>2, <4>3, <4>4
    <3>2. CASE ~(J \in Struct[K] /\ Descends(K, n))
      <4>1. AddedBelow(n, J)[K] = 0
        BY <3>2 DEF AddedBelow
      <4>2. (\E c \in Children(I) : /\ c <= n /\ J \in Struct[c]
                                    /\ J \in Struct[K] /\ Descends(K, c)) <=>
            (\E c \in Children(I) : /\ c <= n - 1 /\ J \in Struct[c]
                                    /\ J \in Struct[K] /\ Descends(K, c))
        BY <1>1, <3>2
      <4>3. /\ FromChildren(I, J, n)[K] = FromChildren(I, J, n - 1)[K]
            /\ FromChildren(I, J, n - 1)[K] \in {0, 1}
        BY <4>2 DEF FromChildren
      <4> QED
        BY <4>1, <4>3
    <3> QED
      BY <3>1, <3>2
  <2> QED
    BY <2>2 DEF FromChildren
<1> QED
  BY <1>2, <1>3

(* Supernode I adds its own contribution to what its children hold.        *)
LEMMA AllChildren ==
  ASSUME FillClosed, NEW I \in Sup
  PROVE  /\ FromChildren(I, I, NS) = [K \in Sup |-> IF K \in Contributors(I) THEN 1 ELSE 0]
         /\ \A J \in Struct[I] : \A K \in Sup :
              AddedBelow(I, J)[K] = FromChildren(I, J, NS)[K] + IF K = I THEN 1 ELSE 0
<1>0. NS \in Nat /\ \A c \in Children(I) : c \in Sup /\ c \in Nat /\ c <= NS /\ c < I
                                             /\ I \in Struct[c]
  <2> SUFFICES ASSUME NEW c \in Children(I)
               PROVE  c \in Sup /\ c \in Nat /\ c <= NS /\ c < I /\ I \in Struct[c]
    BY DistributionAssumption
  <2>1. c \in Sup /\ c < I /\ ~IsRoot(c) /\ Parent(c) = I
    BY TreeFacts, DistributionAssumption DEF Sup
  <2>2. Struct[c] \subseteq Sup /\ Struct[c] # {}
    BY <2>1, DistributionAssumption DEF IsRoot
  <2>3. Parent(c) \in Struct[c]
    BY <2>2, LowestIsLeast DEF Parent
  <2> QED
    BY <2>1, <2>3, DistributionAssumption DEF Sup
<1>1. ASSUME NEW K \in Sup
      PROVE  FromChildren(I, I, NS)[K] = IF K \in Contributors(I) THEN 1 ELSE 0
  <2>1. CASE I \in Struct[K]
    <3>1. Descends(K, I) /\ K # I
      BY <2>1, RowsGoUp, StructFacts
    <3>2. PICK c \in Children(I) : Descends(K, c)
      BY <3>1, OneChildAbove
    <3>3. FromChildren(I, I, NS)[K] = 1
      BY <1>0, <2>1, <3>2 DEF FromChildren
    <3> QED
      BY <2>1, <3>3 DEF Contributors
  <2>2. CASE I \notin Struct[K]
    BY <2>2 DEF FromChildren, Contributors
  <2> QED
    BY <2>1, <2>2
<1>2. FromChildren(I, I, NS) = [K \in Sup |-> IF K \in Contributors(I) THEN 1 ELSE 0]
  BY <1>1 DEF FromChildren
<1>3. ASSUME NEW J \in Struct[I], NEW K \in Sup
      PROVE  AddedBelow(I, J)[K] = FromChildren(I, J, NS)[K] + IF K = I THEN 1 ELSE 0
  <2>0. J \in Sup /\ J > I /\ I \in Nat /\ J \in Nat
    BY DistributionAssumption DEF Sup
  <2>1. CASE K = I
    <3>1. AddedBelow(I, J)[K] = 1
      BY <2>1, PathFacts DEF AddedBelow
    <3>2. FromChildren(I, J, NS)[K] = 0
      BY <2>1, OneChildAbove DEF FromChildren
    <3> QED
      BY <2>1, <3>1, <3>2
  <2>2. CASE K # I /\ J \in Struct[K] /\ Descends(K, I)
    <3>1. AddedBelow(I, J)[K] = 1
      BY <2>2 DEF AddedBelow
    <3>2. PICK c \in Children(I) : Descends(K, c)
      BY <2>2, OneChildAbove
    <3>3. J \in Struct[c]
      BY <1>0, <2>0, <2>2, <3>2, RowsGoUp
    <3>4. FromChildren(I, J, NS)[K] = 1
      BY <1>0, <2>2, <3>2, <3>3 DEF FromChildren
    <3> QED
      BY <2>2, <3>1, <3>4
  <2>3. CASE K # I /\ ~(J \in Struct[K] /\ Descends(K, I))
    <3>1. AddedBelow(I, J)[K] = 0
      BY <2>3 DEF AddedBelow
    <3>2. FromChildren(I, J, NS)[K] = 0
      BY <2>3, OneChildAbove DEF FromChildren
    <3> QED
      BY <2>3, <3>1, <3>2
  <2> QED
    BY <2>1, <2>2, <2>3
<1> QED
  BY <1>2, <1>3

(* What rows J of supernode I hold once its FUC task has run.              *)
Forwarded(I, J) ==
  [terms |-> IF J = I THEN [K \in Sup |-> IF K \in Contributors(I) THEN 1 ELSE 0]
             ELSE AddedBelow(I, J),
   sol   |-> FALSE]

LEMMA ForwardGives ==
  ASSUME FillClosed, NEW I \in Sup, NEW held,
         rows[I] = [J \in {I} \cup Struct[I] |-> Zero],
         \A c \in Children(I) : \A J \in Struct[c] :
           held[c][J] = [terms |-> AddedBelow(c, J), sol |-> FALSE]
  PROVE  ForwardRows(I, held) = [J \in {I} \cup Struct[I] |-> Forwarded(I, J)]
<1>0. NS \in Nat /\ I \notin Struct[I]
  BY DistributionAssumption DEF Sup
<1> DEFINE D == {I} \cup Struct[I]
           At(n) == [J \in D |-> [terms |-> FromChildren(I, J, n), sol |-> FALSE]]
<1>1. PICK R : R = rows[I]
  OBVIOUS
<1>2. R = [J \in D |-> Zero] /\ DOMAIN R = D
  BY <1>1
<1>3. PICK f : /\ IsSum(f, I, held, R)
               /\ ForwardRows(I, held) =
                    [J \in DOMAIN R |->
                       IF J = I THEN f[NS][J] ELSE Plus(f[NS][J], Contribution(I))]
  BY <1>1, SumExists
<1>4. /\ f[0] = R
      /\ \A n \in 1..NS : f[n] = AddChild(I, held, D, f[n - 1], n)
  <2>1. \A n \in 0..NS : f[n] = IF n = 0 THEN R ELSE AddChild(I, held, D, f[n - 1], n)
    BY <1>2, <1>3 DEF IsSum
  <2>2. 0 \in 0..NS /\ \A n \in 1..NS : n \in 0..NS /\ n # 0
    BY <1>0
  <2> QED
    BY <2>1, <2>2
<1>5. At(0) = R
  <2>1. \A c \in Children(I) : ~(c <= 0)
    BY TreeFacts, DistributionAssumption DEF Sup
  <2>2. \A J : FromChildren(I, J, 0) = [K \in Sup |-> 0]
    BY <2>1 DEF FromChildren
  <2> QED
    BY <1>2, <2>2 DEF Zero
<1>6. ASSUME NEW n \in 1..NS, f[n - 1] = At(n - 1)
      PROVE  f[n] = At(n)
  <2>1. f[n] = [J \in D |-> IF Carried(I, n, J) THEN Plus(At(n - 1)[J], held[n][J])
                            ELSE At(n - 1)[J]]
    <3>1. PICK v : v = f[n - 1]
      OBVIOUS
    <3>2. f[n] = AddChild(I, held, D, v, n) /\ v = At(n - 1)
      BY <1>4, <1>6, <3>1
    <3> HIDE DEF At, D
    <3>3. f[n] = [J \in D |-> IF Carried(I, n, J) THEN Plus(v[J], held[n][J]) ELSE v[J]]
      BY <3>2 DEF AddChild
    <3> QED
      BY <3>2, <3>3
  <2>2. ASSUME NEW J \in D, ~Carried(I, n, J) PROVE At(n - 1)[J] = At(n)[J]
    <3>1. FromChildren(I, J, n) = FromChildren(I, J, n - 1)
      BY <2>2, OneMoreChild
    <3> QED
      BY <3>1
  <2>3. ASSUME NEW J \in D, Carried(I, n, J)
        PROVE  Plus(At(n - 1)[J], held[n][J]) = At(n)[J]
    <3>1. held[n][J] = [terms |-> AddedBelow(n, J), sol |-> FALSE]
      BY <2>3 DEF Carried
    <3>2. At(n - 1)[J] = [terms |-> FromChildren(I, J, n - 1), sol |-> FALSE]
      OBVIOUS
    <3>3. FromChildren(I, J, n) =
            [K \in Sup |-> FromChildren(I, J, n - 1)[K] + AddedBelow(n, J)[K]]
      BY <2>3, OneMoreChild
    <3>4. Plus(At(n - 1)[J], held[n][J]) =
            [terms |-> [K \in Sup |-> FromChildren(I, J, n - 1)[K] + AddedBelow(n, J)[K]],
             sol   |-> FALSE]
      <4> HIDE DEF At, D
      <4>1. PICK a, b, u, v : /\ a = At(n - 1)[J] /\ b = held[n][J]
                              /\ u = FromChildren(I, J, n - 1) /\ v = AddedBelow(n, J)
        OBVIOUS
      <4>2. a = [terms |-> u, sol |-> FALSE] /\ b = [terms |-> v, sol |-> FALSE]
        BY <3>1, <3>2, <4>1
      <4>3. Plus(a, b) = [terms |-> [K \in Sup |-> u[K] + v[K]], sol |-> FALSE]
        <5>1. a.terms = u /\ b.terms = v /\ (a.sol \/ b.sol) = FALSE
          BY <4>2
        <5> QED
          BY <5>1 DEF Plus
      <4> QED
        BY <4>1, <4>3
    <3>6. At(n)[J] = [terms |-> FromChildren(I, J, n), sol |-> FALSE]
      OBVIOUS
    <3> QED
      BY <3>3, <3>4, <3>6
  <2> HIDE DEF D
  <2> QED
    BY <2>1, <2>2, <2>3
<1>7. f[NS] = At(NS)
  <2> DEFINE Bad == {n \in 0..NS : f[n] # At(n)}
  <2> HIDE DEF At
  <2>1. ASSUME Bad # {} PROVE FALSE
    <3>0. Bad \subseteq Nat
      BY <1>0
    <3>1. PICK n \in Bad : \A j \in Bad : n <= j
      BY <2>1, <3>0, LeastNatural
    <3>2. n # 0
      BY <1>4, <1>5, <3>1
    <3>3. n \in 1..NS /\ n - 1 \in 0..NS /\ ~(n <= n - 1)
      BY <1>0, <3>1, <3>2
    <3> QED
      BY <1>6, <3>1, <3>3
  <2> QED
    BY <1>0, <2>1
<1>8. ASSUME NEW J \in D
      PROVE  (IF J = I THEN f[NS][J] ELSE Plus(f[NS][J], Contribution(I))) = Forwarded(I, J)
  <2>1. f[NS][J] = [terms |-> FromChildren(I, J, NS), sol |-> FALSE]
    BY <1>7
  <2>2. CASE J = I
    BY <2>1, <2>2, AllChildren DEF Forwarded
  <2>3. CASE J # I
    <3>1. J \in Struct[I]
      BY <2>3
    <3>2. \A K \in Sup : AddedBelow(I, J)[K] = FromChildren(I, J, NS)[K] + IF K = I THEN 1 ELSE 0
      BY <3>1, AllChildren
    <3>3. \A K \in Sup : AddedBelow(I, J)[K] = FromChildren(I, J, NS)[K] + Contribution(I).terms[K]
      BY <3>2 DEF Contribution
    <3>4. AddedBelow(I, J) =
            [K \in Sup |-> FromChildren(I, J, NS)[K] + Contribution(I).terms[K]]
      BY <3>3 DEF AddedBelow
    <3>5. Contribution(I) = [terms |-> Contribution(I).terms, sol |-> FALSE]
      BY DEF Contribution
    <3>6. Plus(f[NS][J], Contribution(I)) =
            [terms |-> [K \in Sup |-> FromChildren(I, J, NS)[K] + Contribution(I).terms[K]],
             sol   |-> FALSE]
      <4> HIDE DEF At, D
      <4>1. PICK a, b, u, v : /\ a = f[NS][J] /\ b = Contribution(I)
                              /\ u = FromChildren(I, J, NS) /\ v = Contribution(I).terms
        OBVIOUS
      <4>2. a = [terms |-> u, sol |-> FALSE] /\ b = [terms |-> v, sol |-> FALSE]
        BY <2>1, <3>5, <4>1
      <4>3. Plus(a, b) = [terms |-> [K \in Sup |-> u[K] + v[K]], sol |-> FALSE]
        <5>1. a.terms = u /\ b.terms = v /\ (a.sol \/ b.sol) = FALSE
          BY <4>2
        <5> QED
          BY <5>1 DEF Plus
      <4> QED
        BY <4>1, <4>3
    <3> QED
      BY <2>3, <3>4, <3>6 DEF Forwarded
  <2> QED
    BY <2>2, <2>3
<1> QED
  BY <1>2, <1>3, <1>8

-----------------------------------------------------------------------------
(* The order of the tasks of a supernode: its FUC task, the BU task for it *)
(* and its BUC task; those of its parent come after its FUC task, and      *)
(* before its BU task.                                                     *)

LEMMA CountedIn ==
  ASSUME NEW S, IsFiniteSet(S), Cardinality(S) = 0
  PROVE  S = {}
  BY FS_EmptySet

LEMMA SolveOrder ==
  ASSUME Inv1D
  PROVE  /\ \A P : \A c \in Children(P) : Waits(FUC(c)) => Waits(FUC(P))
         /\ \A P : \A c \in Children(P) : Waits(BUC(P)) => Waits(BU(P, c))
         /\ \A I \in Sup : Waits(Before(I)) => Waits(BUC(I))
<1>0. /\ \A t \in SolveTasks : ~Waits(t) => localDeps[t] = 0 /\ remoteDeps[t] = 0
      /\ \A I \in Sup : \A c \in RemChildren(I) : NotUp(c) => Waits(FUC(I))
      /\ \A P \in Sup : \A I \in RemChildren(P) : Blocks(P, I) => Waits(BU(P, I))
  BY AwaitedWaits
<1>1. FUCCounts /\ BUCCounts /\ BUCounts
  BY DEF Inv1D, SolveInv, SolveCounts
<1>2. ASSUME NEW P, NEW c \in Children(P), Waits(FUC(c)), ~Waits(FUC(P)) PROVE FALSE
  <2>1. P \in Sup /\ FUC(P) \in SolveTasks
    BY SolveMembers
  <2>2. CASE c \in RemChildren(P)
    BY <1>0, <1>2, <2>1, <2>2 DEF NotUp
  <2>3. CASE c \in LocalChildren(P)
    <3>1. Cardinality({d \in LocalChildren(P) : Waits(FUC(d))}) = 0
      BY <1>0, <1>1, <1>2, <2>1 DEF FUCCounts
    <3>2. IsFiniteSet({d \in LocalChildren(P) : Waits(FUC(d))})
      BY BranchFacts, FS_Subset
    <3> QED
      BY <1>2, <2>3, <3>1, <3>2, CountedIn
  <2> QED
    BY <2>2, <2>3, BranchFacts
<1>3. ASSUME NEW P, NEW c \in Children(P), Waits(BUC(P)), ~Waits(BU(P, c)) PROVE FALSE
  <2>1. P \in Sup /\ BU(P, c) \in SolveTasks /\ c \in Sup /\ ~IsRoot(c) /\ Parent(c) = P
    BY SolveMembers, TreeFacts
  <2>2. localDeps[BU(P, c)] = 0
    BY <1>0, <1>3, <2>1
  <2>3. CASE Own(P) = Own(c)
    BY <1>1, <1>3, <2>1, <2>2, <2>3 DEF BUCounts
  <2>4. CASE Own(P) # Own(c)
    BY <1>0, <1>3, <2>1, <2>4, BranchFacts DEF Blocks, NotDown
  <2> QED
    BY <2>3, <2>4
<1>4. ASSUME NEW I \in Sup, Waits(Before(I)), ~Waits(BUC(I)) PROVE FALSE
  <2>1. localDeps[BUC(I)] = 0
    BY <1>0, <1>4, SolveMembers
  <2> QED
    BY <1>1, <1>4, <2>1 DEF BUCCounts
<1> QED
  BY <1>2, <1>3, <1>4

LEMMA ForwardFirst1D ==
  ASSUME Inv1D
  PROVE  \A I \in Sup : Waits(FUC(I)) => Waits(Before(I)) /\ Waits(BUC(I))
<1> DEFINE Bad == {I \in Sup : Waits(FUC(I)) /\ ~Waits(BUC(I))}
<1>0. /\ \A P : \A c \in Children(P) : Waits(FUC(c)) => Waits(FUC(P))
      /\ \A P : \A c \in Children(P) : Waits(BUC(P)) => Waits(BU(P, c))
      /\ \A I \in Sup : Waits(Before(I)) => Waits(BUC(I))
  BY SolveOrder
<1>1. ASSUME NEW I \in Sup, ~IsRoot(I), Waits(FUC(I)), Waits(BUC(Parent(I)))
      PROVE  Waits(Before(I))
  <2>1. I \in Children(Parent(I))
    BY <1>1, TreeFacts
  <2> QED
    BY <1>0, <1>1, <2>1 DEF Before
<1>2. ASSUME NEW I \in Sup, IsRoot(I), Waits(FUC(I)) PROVE Waits(Before(I))
  BY <1>2 DEF Before
<1>3. ASSUME Bad # {} PROVE FALSE
  <2>1. PICK I : I \in Bad /\ \A J \in Bad : I >= J
    <3>1. Bad \subseteq Sup
      OBVIOUS
    <3> QED
      BY <1>3, <3>1, HighestIsGreatest
  <2>2. ~IsRoot(I)
    BY <1>0, <1>2, <2>1
  <2>3. I \in Children(Parent(I)) /\ Parent(I) \in Sup /\ Parent(I) > I
    BY <2>1, <2>2, TreeFacts
  <2>4. Waits(FUC(Parent(I)))
    BY <1>0, <2>1, <2>3
  <2>5. ~(I >= Parent(I))
    BY <2>1, <2>3 DEF Sup
  <2>6. Waits(BUC(Parent(I)))
    BY <2>1, <2>3, <2>4, <2>5
  <2> QED
    BY <1>0, <1>1, <2>1, <2>2, <2>6
<1>4. \A I \in Sup : Waits(FUC(I)) => Waits(BUC(I))
  BY <1>3
<1>5. ASSUME NEW I \in Sup, Waits(FUC(I)) PROVE Waits(Before(I))
  <2>1. CASE IsRoot(I)
    BY <1>2, <1>5, <2>1
  <2>2. CASE ~IsRoot(I)
    <3>1. I \in Children(Parent(I)) /\ Parent(I) \in Sup
      BY <2>2, TreeFacts
    <3>2. Waits(BUC(Parent(I)))
      BY <1>0, <1>4, <1>5, <3>1
    <3> QED
      BY <1>1, <1>5, <2>2, <3>2
  <2> QED
    BY <2>1, <2>2
<1> QED
  BY <1>4, <1>5

-----------------------------------------------------------------------------
(* The rows of every supernode, as a function of the tasks that have run.  *)

Solved(J) ==
  [terms |-> [K \in Sup |-> IF K \in Contributors(J) THEN 1 ELSE 0], sol |-> TRUE]

(* The task that overwrites rows J of supernode I.                         *)
Writer(I, J) == IF J = I THEN BUC(I) ELSE BU(Parent(I), I)

RowsOf(I)      == {I} \cup Struct[I]
ForwardOnly(I) == [J \in RowsOf(I) |-> Forwarded(I, J)]
AllSolved(I)   == [J \in RowsOf(I) |-> Solved(J)]

RowsExact ==
  rows = [I \in Sup |-> [J \in RowsOf(I) |->
            IF Waits(FUC(I)) THEN Zero
            ELSE IF Waits(Writer(I, J)) THEN Forwarded(I, J)
            ELSE Solved(J)]]

(* What the tasks of the solve have received, and that it is there.        *)
UpGot ==
  \A P \in Sup : \A c \in RemChildren(P) :
    Up(c) \in DOMAIN got => got[Up(c)] = ForwardOnly(c)

DownGot ==
  \A P \in Sup : \A c \in RemChildren(P) :
    /\ <<P, BU(P, c)>> \in DOMAIN got => got[<<P, BU(P, c)>>] = AllSolved(P)
    /\ Waits(BU(P, c)) /\ ~Blocks(P, c) => <<P, BU(P, c)>> \in DOMAIN got

RowsInv == RowsExact /\ UpGot /\ DownGot

(* Before it has run, the rows a task of supernode I writes.               *)
LEMMA RowsAre ==
  ASSUME Inv1D, RowsExact, NEW I \in Sup
  PROVE  /\ DOMAIN rows[I] = RowsOf(I)
         /\ Waits(FUC(I)) => rows[I] = [J \in RowsOf(I) |-> Zero]
         /\ ~Waits(FUC(I)) /\ Waits(Before(I)) => rows[I] = ForwardOnly(I)
         /\ ~Waits(BUC(I)) => rows[I] = AllSolved(I)
<1>1. rows[I] = [J \in RowsOf(I) |->
                   IF Waits(FUC(I)) THEN Zero
                   ELSE IF Waits(Writer(I, J)) THEN Forwarded(I, J)
                   ELSE Solved(J)]
  BY DEF RowsExact
<1>2. Waits(Before(I)) => Waits(BUC(I))
  BY SolveOrder
<1>3. Waits(FUC(I)) => Waits(Before(I))
  BY ForwardFirst1D
<1>4. \A J \in RowsOf(I) : J # I => ~IsRoot(I) /\ Writer(I, J) = Before(I)
  BY DEF RowsOf, IsRoot, Writer, Before
<1>5. Writer(I, I) = BUC(I)
  BY DEF Writer
<1>6. DOMAIN rows[I] = RowsOf(I) /\ (Waits(FUC(I)) => rows[I] = [J \in RowsOf(I) |-> Zero])
  BY <1>1
<1>7. ASSUME ~Waits(FUC(I)), Waits(Before(I)) PROVE rows[I] = ForwardOnly(I)
  <2>1. \A J \in RowsOf(I) : Waits(Writer(I, J))
    BY <1>2, <1>4, <1>5, <1>7
  <2> QED
    BY <1>1, <1>7, <2>1 DEF ForwardOnly
<1>8. ASSUME ~Waits(BUC(I)) PROVE rows[I] = AllSolved(I)
  <2>1. \A J \in RowsOf(I) : ~Waits(Writer(I, J))
    BY <1>2, <1>4, <1>5, <1>8
  <2> QED
    BY <1>1, <1>2, <1>3, <1>8, <2>1 DEF AllSolved
<1> QED
  BY <1>6, <1>7, <1>8

LEMMA AnnouncedUp ==
  ASSUME Inv1D, RowsExact, NEW P \in Sup, NEW c \in RemChildren(P), Up(c) \in Pend
  PROVE  rows[c] = ForwardOnly(c) /\ ~Waits(FUC(c)) /\ Waits(FUC(P))
<1>1. c \in Sup /\ ~IsRoot(c) /\ Parent(c) = P /\ c \in Children(P)
  BY UpIs
<1>2. ~Waits(FUC(c))
  BY DEF Inv1D, SolveInv, SolveCounts, SentAfter
<1>3. Waits(FUC(P))
  BY AwaitedWaits DEF NotUp
<1>4. Waits(BUC(P))
  BY <1>3, ForwardFirst1D
<1>5. Waits(Before(c))
  BY <1>1, <1>4, SolveOrder DEF Before
<1> QED
  BY <1>1, <1>2, <1>3, <1>5, RowsAre

LEMMA AnnouncedDown ==
  ASSUME Inv1D, RowsExact, NEW P \in Sup, NEW q \in Others(P), Down(q, P) \in Pend
  PROVE  rows[P] = AllSolved(P)
<1>1. ~Waits(BUC(P))
  BY DEF Inv1D, SolveInv, SolveCounts, SentAfter
<1> QED
  BY <1>1, RowsAre

LEMMA SolveMessageCases ==
  ASSUME Inv1D, NEW m \in Pend, IsSolve(m[2])
  PROVE  \/ \E P \in Sup : \E c \in RemChildren(P) : m = Up(c)
         \/ \E P \in Sup : \E q \in Others(P) : m = Down(q, P)
<1>1. IsUp(m) \/ IsDown(m)
  BY DEF Inv1D, SolveInv, SolveKinds
<1>2. ASSUME IsUp(m) PROVE \E P \in Sup : \E c \in RemChildren(P) : m = Up(c)
  <2>1. PICK c \in Sup : ~IsRoot(c) /\ Own(Parent(c)) # Own(c) /\ m = Up(c)
    BY <1>2 DEF IsUp
  <2>2. c \in RemChildren(Parent(c)) /\ Parent(c) \in Sup
    BY <2>1, TreeFacts, BranchFacts
  <2> QED
    BY <2>1, <2>2
<1> QED
  BY <1>1, <1>2 DEF IsDown

LEMMA ExactData ==
  ASSUME Inv1D, RowsExact
  PROVE  SolveDataFinal
<1> SUFFICES ASSUME NEW r \in Rank, NEW m \in Pending(r)
             PROVE  /\ m[2][1] = "FUC" => \A J \in Struct[m[1]] :
                         rows[m[1]][J] = [terms |-> AddedBelow(m[1], J), sol |-> FALSE]
                    /\ m[2][1] = "BU"  => \A J \in DOMAIN rows[m[1]] : rows[m[1]][J].sol
  BY DEF SolveDataFinal
<1>1. m \in Pend
  BY PendingIs DEF Inv1D
<1>2. CASE \E P \in Sup : \E c \in RemChildren(P) : m = Up(c)
  <2>1. PICK P \in Sup : \E c \in RemChildren(P) : m = Up(c)
    BY <1>2
  <2>2. PICK c \in RemChildren(P) : m = Up(c)
    BY <2>1
  <2>3. m[1] = c /\ m[2][1] = "FUC" /\ c \in Sup
    BY <2>2, UpIs DEF Up, FUC
  <2>4. rows[c] = ForwardOnly(c)
    BY <1>1, <2>2, AnnouncedUp
  <2>5. \A J \in Struct[c] : J # c /\ J \in RowsOf(c)
    BY <2>3, StructFacts DEF RowsOf
  <2>6. \A J \in Struct[c] : rows[c][J] = Forwarded(c, J)
    BY <2>4, <2>5 DEF ForwardOnly
  <2> QED
    BY <2>3, <2>5, <2>6 DEF Forwarded
<1>3. CASE \E P \in Sup : \E q \in Others(P) : m = Down(q, P)
  <2>1. PICK P \in Sup : \E q \in Others(P) : m = Down(q, P)
    BY <1>3
  <2>2. PICK q \in Others(P) : m = Down(q, P)
    BY <2>1
  <2>3. m[1] = P /\ m[2][1] = "BU"
    BY <2>2 DEF Down, BU
  <2>4. rows[P] = AllSolved(P)
    BY <1>1, <2>2, AnnouncedDown
  <2> QED
    BY <2>3, <2>4 DEF AllSolved, Solved
<1>4. ASSUME ~IsSolve(m[2]) PROVE m[2][1] # "FUC" /\ m[2][1] # "BU"
  BY <1>4 DEF IsSolve
<1> QED
  BY <1>1, <1>2, <1>3, <1>4, SolveMessageCases

LEMMA ExactSolution ==
  ASSUME Inv1D, RowsExact
  PROVE  SolutionExact
<1> SUFFICES ASSUME NEW I \in Sup
             PROVE  /\ ~Waits(FUC(I)) =>
                         rows[I][I].terms = [K \in Sup |-> IF K \in Contributors(I) THEN 1 ELSE 0]
                    /\ ~Waits(BUC(I)) => rows[I][I].sol
                    /\ \A J \in Struct[I] : rows[I][J].sol <=> ~Waits(BU(Parent(I), I))
  BY DEF SolutionExact
<1>1. \A J \in RowsOf(I) :
        rows[I][J] = IF Waits(FUC(I)) THEN Zero
                     ELSE IF Waits(Writer(I, J)) THEN Forwarded(I, J)
                     ELSE Solved(J)
  BY DEF RowsExact
<1>2. I \in RowsOf(I) /\ \A J \in Struct[I] : J \in RowsOf(I) /\ J # I
  BY StructFacts DEF RowsOf
<1>3. /\ Solved(I).terms = [K \in Sup |-> IF K \in Contributors(I) THEN 1 ELSE 0]
      /\ Forwarded(I, I).terms = [K \in Sup |-> IF K \in Contributors(I) THEN 1 ELSE 0]
      /\ \A J : Solved(J).sol /\ ~Forwarded(I, J).sol
      /\ ~Zero.sol
  BY DEF Solved, Forwarded, Zero
<1>4. Waits(FUC(I)) => Waits(BUC(I)) /\ Waits(Before(I))
  BY ForwardFirst1D
<1> HIDE DEF Solved, Forwarded, Zero
<1>5. /\ ~Waits(FUC(I)) =>
           rows[I][I].terms = [K \in Sup |-> IF K \in Contributors(I) THEN 1 ELSE 0]
      /\ ~Waits(BUC(I)) => rows[I][I].sol
  <2>1. Writer(I, I) = BUC(I)
    BY DEF Writer
  <2>2. rows[I][I] = IF Waits(FUC(I)) THEN Zero
                     ELSE IF Waits(BUC(I)) THEN Forwarded(I, I)
                     ELSE Solved(I)
    BY <1>1, <1>2, <2>1
  <2> QED
    BY <1>3, <1>4, <2>2
<1>6. ASSUME NEW J \in Struct[I] PROVE rows[I][J].sol <=> ~Waits(BU(Parent(I), I))
  <2>1. ~IsRoot(I) /\ Writer(I, J) = BU(Parent(I), I) /\ Before(I) = BU(Parent(I), I)
    BY <1>2, <1>6 DEF IsRoot, Writer, Before
  <2>2. rows[I][J] = IF Waits(FUC(I)) THEN Zero
                     ELSE IF Waits(BU(Parent(I), I)) THEN Forwarded(I, J)
                     ELSE Solved(J)
    BY <1>1, <1>2, <2>1
  <2> QED
    BY <1>3, <1>4, <2>1, <2>2
<1> QED
  BY <1>5, <1>6

-----------------------------------------------------------------------------
(* Steps that do nothing of the solve.                                     *)

SolveStill ==
  /\ \A t \in SolveTasks : Waits(t)' <=> Waits(t)
  /\ \A m : IsSolve(m[2]) => /\ m \in Pend' <=> m \in Pend
                             /\ m \in DOMAIN got' <=> m \in DOMAIN got
                             /\ m \in DOMAIN got => got'[m] = got[m]
  /\ rows' = rows

LEMMA WaitsSame ==
  ASSUME \A t \in SolveTasks : Waits(t)' <=> Waits(t)
  PROVE  /\ \A I \in Sup : /\ Waits(FUC(I))' <=> Waits(FUC(I))
                           /\ Waits(BUC(I))' <=> Waits(BUC(I))
                           /\ \A J \in RowsOf(I) : Waits(Writer(I, J))' <=> Waits(Writer(I, J))
         /\ \A P : \A c \in Children(P) : Waits(BU(P, c))' <=> Waits(BU(P, c))
<1>1. \A I \in Sup : /\ Waits(FUC(I))' <=> Waits(FUC(I))
                     /\ Waits(BUC(I))' <=> Waits(BUC(I))
                     /\ ~IsRoot(I) => (Waits(BU(Parent(I), I))' <=> Waits(BU(Parent(I), I)))
  BY SolveMembers
<1>2. \A I \in Sup : \A J \in RowsOf(I) : Waits(Writer(I, J))' <=> Waits(Writer(I, J))
  <2> TAKE I \in Sup
  <2> TAKE J \in RowsOf(I)
  <2>1. CASE J = I
    BY <1>1, <2>1 DEF Writer, BUC
  <2>2. CASE J # I
    BY <1>1, <2>2 DEF Writer, RowsOf, IsRoot, BU
  <2> QED
    BY <2>1, <2>2
<1>3. \A P : \A c \in Children(P) : Waits(BU(P, c))' <=> Waits(BU(P, c))
  BY SolveMembers
<1> QED
  BY <1>1, <1>2, <1>3

LEMMA StillKeepsRows ==
  ASSUME RowsInv, SolveStill
  PROVE  RowsInv'
<1>1. /\ \A I \in Sup : /\ Waits(FUC(I))' <=> Waits(FUC(I))
                        /\ Waits(BUC(I))' <=> Waits(BUC(I))
                        /\ \A J \in RowsOf(I) : Waits(Writer(I, J))' <=> Waits(Writer(I, J))
      /\ \A P : \A c \in Children(P) : Waits(BU(P, c))' <=> Waits(BU(P, c))
  BY WaitsSame DEF SolveStill
<1>2. RowsExact'
  <2>1. rows' = [I \in Sup |-> [J \in RowsOf(I) |->
                   IF Waits(FUC(I))' THEN Zero
                   ELSE IF Waits(Writer(I, J))' THEN Forwarded(I, J)
                   ELSE Solved(J)]]
    BY <1>1 DEF RowsInv, RowsExact, SolveStill
  <2> QED
    BY <2>1 DEF RowsExact, FUC, Writer, BUC, BU
<1>3. UpGot'
  <2> SUFFICES ASSUME NEW P \in Sup, NEW c \in RemChildren(P), Up(c) \in DOMAIN got'
               PROVE  got'[Up(c)] = ForwardOnly(c)
    BY DEF UpGot, Up
  <2>1. IsSolve(Up(c)[2])
    BY SolveNames
  <2> QED
    BY <2>1 DEF RowsInv, UpGot, SolveStill
<1>4. DownGot'
  <2> SUFFICES ASSUME NEW P \in Sup, NEW c \in RemChildren(P), NEW m, m = <<P, BU(P, c)>>
               PROVE  /\ m \in DOMAIN got' => got'[m] = AllSolved(P)
                      /\ Waits(BU(P, c))' /\ ~Blocks(P, c)' => m \in DOMAIN got'
    BY DEF DownGot, BU
  <2>1. IsSolve(m[2]) /\ c \in Children(P) /\ Own(c) \in Others(P)
    BY SolveNames, UpIs DEF Others
  <2>2. /\ m \in DOMAIN got' <=> m \in DOMAIN got
        /\ m \in DOMAIN got => got'[m] = got[m]
    BY <2>1 DEF SolveStill
  <2>3. NotDown(Own(c), P)' <=> NotDown(Own(c), P)
    <3>1. IsSolve(Down(Own(c), P)[2])
      BY SolveNames
    <3>2. Down(Own(c), P) \in Pend' <=> Down(Own(c), P) \in Pend
      BY <3>1 DEF SolveStill
    <3> QED
      BY <1>1, <3>2 DEF NotDown, Down, FirstOn
  <2>4. \A d \in ChildrenOn(Own(c), P) : Waits(BU(P, d))' <=> Waits(BU(P, d))
    BY <1>1, BranchFacts
  <2>5. Blocks(P, c)' <=> Blocks(P, c)
    BY <2>3, <2>4 DEF Blocks
  <2>6. Waits(BU(P, c))' <=> Waits(BU(P, c))
    BY <1>1, <2>1
  <2> QED
    BY <2>2, <2>5, <2>6 DEF RowsInv, DownGot
<1> QED
  BY <1>2, <1>3, <1>4 DEF RowsInv

(* A message of the solve is taken.                                        *)
TakenForSolve(m, data) ==
  /\ ReceivedForSolve(m, data) /\ m[2] \in SolveTasks /\ m[2] \in graph
  /\ UNCHANGED rows

LEMMA TakenKeepsExact ==
  ASSUME Inv1D, RowsInv, NEW m, NEW data, TakenForSolve(m, data)
  PROVE  RowsExact' /\ \A t \in SolveTasks : Waits(t)' <=> Waits(t)
<1>1. \A t : Waits(t)' <=> Waits(t)
  BY SolveReceived DEF TakenForSolve, Inv1D
<1>2. \A I \in Sup : /\ Waits(FUC(I))' <=> Waits(FUC(I))
                     /\ \A J \in RowsOf(I) : Waits(Writer(I, J))' <=> Waits(Writer(I, J))
  BY <1>1, WaitsSame
<1>3. rows' = [I \in Sup |-> [J \in RowsOf(I) |->
                 IF Waits(FUC(I))' THEN Zero
                 ELSE IF Waits(Writer(I, J))' THEN Forwarded(I, J)
                 ELSE Solved(J)]]
  BY <1>2 DEF RowsInv, RowsExact, TakenForSolve
<1> QED
  BY <1>1, <1>3 DEF RowsExact, FUC, Writer, BUC, BU

LEMMA UpTakenKeepsRows ==
  ASSUME Inv1D, RowsInv, NEW Q \in Sup, NEW b \in RemChildren(Q), NEW m, m = Up(b),
         NEW data, data = rows[b], TakenForSolve(m, data)
  PROVE  RowsInv'
<1>1. /\ m \in Pend /\ Pend' = Pend \ {m}
      /\ \A k : /\ k \in DOMAIN got' <=> k \in DOMAIN got \/ k = m
                /\ k \in DOMAIN got' => got'[k] = IF k = m THEN data ELSE got[k]
  BY DEF TakenForSolve, ReceivedForSolve, HasReceived
<1>2. RowsExact' /\ \A t \in SolveTasks : Waits(t)' <=> Waits(t)
  BY TakenKeepsExact
<1>3. data = ForwardOnly(b)
  BY <1>1, AnnouncedUp DEF RowsInv
<1>4. UpGot'
  <2> SUFFICES ASSUME NEW P \in Sup, NEW c \in RemChildren(P), Up(c) \in DOMAIN got'
               PROVE  got'[Up(c)] = ForwardOnly(c)
    BY DEF UpGot, Up
  <2>1. CASE c = b
    BY <1>1, <1>3, <2>1
  <2>2. CASE c # b
    <3>1. Up(c) # m
      BY <2>2, SolveNames
    <3> QED
      BY <1>1, <3>1 DEF RowsInv, UpGot
  <2> QED
    BY <2>1, <2>2
<1>5. DownGot'
  <2> SUFFICES ASSUME NEW P \in Sup, NEW c \in RemChildren(P), NEW k, k = <<P, BU(P, c)>>
               PROVE  /\ k \in DOMAIN got' => got'[k] = AllSolved(P)
                      /\ Waits(BU(P, c))' /\ ~Blocks(P, c)' => k \in DOMAIN got'
    BY DEF DownGot, BU
  <2>1. c \in Children(P) /\ \A d : Down(d, P) # m
    BY UpIs, SolveNames
  <2>2. k # m
    BY SolveNames DEF Up
  <2>3. /\ k \in DOMAIN got' <=> k \in DOMAIN got
        /\ k \in DOMAIN got' => got'[k] = got[k]
    BY <1>1, <2>2
  <2>4. /\ \A d \in Children(P) : Waits(BU(P, d))' <=> Waits(BU(P, d))
        /\ Waits(BUC(P))' <=> Waits(BUC(P))
    BY <1>2, WaitsSame
  <2>5. NotDown(Own(c), P)' <=> NotDown(Own(c), P)
    <3>1. Down(Own(c), P) \in Pend' <=> Down(Own(c), P) \in Pend
      BY <1>1, <2>1
    <3> QED
      BY <2>4, <3>1 DEF NotDown, Down, FirstOn
  <2>6. Blocks(P, c)' <=> Blocks(P, c)
    BY <2>4, <2>5, BranchFacts DEF Blocks
  <2> QED
    BY <2>1, <2>3, <2>4, <2>6 DEF RowsInv, DownGot
<1> QED
  BY <1>2, <1>4, <1>5 DEF RowsInv

LEMMA DownTakenKeepsRows ==
  ASSUME Inv1D, RowsInv, NEW Q \in Sup, NEW q \in Others(Q), NEW m, m = Down(q, Q),
         NEW data, data = rows[Q], TakenForSolve(m, data)
  PROVE  RowsInv'
<1>1. /\ m \in Pend /\ Pend' = Pend \ {m}
      /\ \A k : /\ k \in DOMAIN got' <=> k \in DOMAIN got \/ k = m
                /\ k \in DOMAIN got' => got'[k] = IF k = m THEN data ELSE got[k]
  BY DEF TakenForSolve, ReceivedForSolve, HasReceived
<1>2. RowsExact' /\ \A t \in SolveTasks : Waits(t)' <=> Waits(t)
  BY TakenKeepsExact
<1>3. data = AllSolved(Q)
  BY <1>1, AnnouncedDown DEF RowsInv
<1>4. UpGot'
  <2> SUFFICES ASSUME NEW P \in Sup, NEW c \in RemChildren(P), Up(c) \in DOMAIN got'
               PROVE  got'[Up(c)] = ForwardOnly(c)
    BY DEF UpGot, Up
  <2>1. Up(c) # m
    BY SolveNames
  <2> QED
    BY <1>1, <2>1 DEF RowsInv, UpGot
<1>5. PICK f : f = FirstOn(q, Q)
  OBVIOUS
<1>6. /\ f \in RemChildren(Q) /\ Own(f) = q /\ f \in ChildrenOn(q, Q)
      /\ \A c \in ChildrenOn(q, Q) : f >= c
      /\ m = <<Q, BU(Q, f)>>
  BY <1>5, OthersFacts, FirstFacts DEF Down
<1>7. Waits(BU(Q, f))
  <2>1. Blocks(Q, f)
    BY <1>1, <1>6 DEF Blocks, NotDown
  <2> QED
    BY <1>6, <2>1, AwaitedWaits
<1>8. DownGot'
  <2> SUFFICES ASSUME NEW P \in Sup, NEW c \in RemChildren(P), NEW k, k = <<P, BU(P, c)>>
               PROVE  /\ k \in DOMAIN got' => got'[k] = AllSolved(P)
                      /\ Waits(BU(P, c))' /\ ~Blocks(P, c)' => k \in DOMAIN got'
    BY DEF DownGot, BU
  <2>1. c \in Children(P) /\ Own(c) \in Others(P) /\ c \in ChildrenOn(Own(c), P)
    BY UpIs DEF Others, ChildrenOn
  <2>2. k = m <=> P = Q /\ c = f
    BY <1>6, SolveNames
  <2>3. /\ \A d \in Children(P) : Waits(BU(P, d))' <=> Waits(BU(P, d))
        /\ Waits(BUC(P))' <=> Waits(BUC(P))
    BY <1>2, WaitsSame
  <2>4. CASE P = Q /\ Own(c) = q
    <3>1. ASSUME c # f PROVE Blocks(P, c)'
      <4>1. c \in Int /\ f \in Int /\ f \in Children(Q)
        BY <1>6, <2>1, UpIs, DistributionAssumption DEF Sup
      <4>2. f > c
        BY <1>6, <2>1, <2>4, <3>1, <4>1
      <4>3. Waits(BU(P, f))'
        BY <1>7, <2>3, <2>4, <4>1
      <4> QED
        BY <1>6, <2>4, <4>2, <4>3 DEF Blocks
    <3>2. k = m => got'[k] = AllSolved(P) /\ k \in DOMAIN got'
      BY <1>1, <1>3, <2>2
    <3>3. k # m /\ k \in DOMAIN got' => k \in DOMAIN got /\ got'[k] = got[k]
      BY <1>1
    <3> QED
      BY <2>2, <2>4, <3>1, <3>2, <3>3 DEF RowsInv, DownGot
  <2>5. CASE ~(P = Q /\ Own(c) = q)
    <3>1. Down(Own(c), P) # m
      BY <2>1, <2>5, DownNames
    <3>2. Down(Own(c), P) \in Pend' <=> Down(Own(c), P) \in Pend
      BY <1>1, <3>1
    <3>3. NotDown(Own(c), P)' <=> NotDown(Own(c), P)
      BY <2>3, <3>2 DEF NotDown, Down, FirstOn
    <3>4. Blocks(P, c)' <=> Blocks(P, c)
      BY <2>3, <3>3, BranchFacts DEF Blocks
    <3>5. k # m
      BY <1>6, <2>2, <2>5
    <3>6. /\ k \in DOMAIN got' <=> k \in DOMAIN got
          /\ k \in DOMAIN got' => got'[k] = got[k]
      BY <1>1, <3>5
    <3> QED
      BY <2>1, <2>3, <3>4, <3>6 DEF RowsInv, DownGot
  <2> QED
    BY <2>4, <2>5
<1> QED
  BY <1>2, <1>4, <1>8 DEF RowsInv

LEMMA SolveMessageKeepsRows ==
  ASSUME Inv1D, RowsInv, NEW r \in Rank, NEW m, NEW data, data = rows[m[1]],
         MessageTaken(r, m, data, FALSE), IsSolve(m[2]), call[r] = 2, UNCHANGED rows
  PROVE  RowsInv'
<1>1. localDeps \in [Tasks -> Int] /\ remoteDeps \in [Tasks -> Int]
  BY DEF Inv1D, FactorInv, FTypes
<1>2. HasReceived(m, data, FALSE) /\ m \in Pend
  BY <1>1, ReceivedEffects DEF MessageTaken
<1>3. ReceivedForSolve(m, data)
  BY <1>2 DEF ReceivedForSolve, MessageTaken
<1>4. CASE \E P \in Sup : \E c \in RemChildren(P) : m = Up(c)
  <2>1. PICK P \in Sup : \E c \in RemChildren(P) : m = Up(c)
    BY <1>4
  <2>2. PICK c \in RemChildren(P) : m = Up(c)
    BY <2>1
  <2>3. m[2] \in SolveTasks /\ m[2] \in graph
    BY <1>3, <2>2, UpReceived DEF Inv1D
  <2>4. data = rows[c]
    BY <2>2, SolveNames
  <2> QED
    BY <1>3, <2>2, <2>3, <2>4, UpTakenKeepsRows DEF TakenForSolve
<1>5. CASE \E P \in Sup : \E q \in Others(P) : m = Down(q, P)
  <2>1. PICK P \in Sup : \E q \in Others(P) : m = Down(q, P)
    BY <1>5
  <2>2. PICK q \in Others(P) : m = Down(q, P)
    BY <2>1
  <2>3. m[2] \in SolveTasks /\ m[2] \in graph
    BY <1>3, <2>2, DownReceived DEF Inv1D
  <2>4. data = rows[P]
    BY <2>2, SolveNames
  <2> QED
    BY <1>3, <2>2, <2>3, <2>4, DownTakenKeepsRows DEF TakenForSolve
<1> QED
  BY <1>2, <1>4, <1>5, SolveMessageCases

-----------------------------------------------------------------------------
(* The tasks of the solve.                                                 *)

(* A task that is executed has had its signals, the tasks it signals wait. *)
LEMMA ReadyHasNoDeps ==
  ASSUME Inv1D, NEW t \in SolveTasks, t \in ready
  PROVE  /\ localDeps[t] = 0 /\ remoteDeps[t] = 0 /\ Waits(t) /\ call[RankOf(t)] = 2
<1>1. call[RankOf(t)] = 2
  BY SolveMembers DEF Inv1D, CallsInv, TasksInv
<1>2. t \notin graph /\ Waits(t)
  BY DEF Inv1D, SolveInv, SolveKinds, Waits, Unexecuted
<1> QED
  BY <1>1, <1>2 DEF Inv1D, SolveInv, SolveStatus

LEMMA SignalledInGraph ==
  ASSUME Inv1D
  PROVE  /\ \A P : \A c \in LocalChildren(P) :
              Waits(FUC(c)) /\ call[Own(c)] = 2 => FUC(P) \in graph
         /\ \A I \in Sup : Waits(Before(I)) /\ call[Own(I)] = 2 => BUC(I) \in graph
         /\ \A P : \A c \in LocalChildren(P) :
              Waits(BUC(P)) /\ call[Own(P)] = 2 => BU(P, c) \in graph
<1>0. SolveInv /\ FUCCounts /\ BUCCounts /\ BUCounts
  BY DEF Inv1D, SolveInv, SolveCounts
<1>1. ASSUME NEW P, NEW c \in LocalChildren(P), Waits(FUC(c)), call[Own(c)] = 2
      PROVE  FUC(P) \in graph
  <2>1. P \in Sup /\ FUC(P) \in SolveTasks /\ RankOf(FUC(P)) = Own(c)
    BY BranchFacts, SolveMembers, SolveNames
  <2>2. /\ c \in {d \in LocalChildren(P) : Waits(FUC(d))}
        /\ IsFiniteSet({d \in LocalChildren(P) : Waits(FUC(d))})
    BY <1>1, BranchFacts, FS_Subset
  <2>3. localDeps[FUC(P)] # 0
    BY <1>0, <2>1, <2>2, FS_EmptySet DEF FUCCounts
  <2> QED
    BY <1>0, <1>1, <2>1, <2>3, InGraph
<1>2. ASSUME NEW I \in Sup, Waits(Before(I)), call[Own(I)] = 2
      PROVE  BUC(I) \in graph
  <2>1. localDeps[BUC(I)] = 1 /\ BUC(I) \in SolveTasks /\ RankOf(BUC(I)) = Own(I)
    BY <1>0, <1>2, SolveMembers, SolveNames DEF BUCCounts
  <2> QED
    BY <1>0, <1>2, <2>1, InGraph
<1>3. ASSUME NEW P, NEW c \in LocalChildren(P), Waits(BUC(P)), call[Own(P)] = 2
      PROVE  BU(P, c) \in graph
  <2>1. c \in Sup /\ ~IsRoot(c) /\ Parent(c) = P /\ Own(c) = Own(P)
    BY BranchFacts, TreeFacts
  <2>2. BU(P, c) \in SolveTasks /\ RankOf(BU(P, c)) = Own(P)
    BY <2>1, SolveMembers, SolveNames
  <2>3. localDeps[BU(P, c)] = 1
    BY <1>0, <1>3, <2>1 DEF BUCounts
  <2> QED
    BY <1>0, <1>3, <2>2, <2>3, InGraph
<1> QED
  BY <1>1, <1>2, <1>3

RanAndSent(t, sent) ==
  /\ Ran(t)
  /\ \A m : /\ m \in Pend' <=> m \in Pend \/ m \in sent
            /\ m \in DOMAIN got' <=> m \in DOMAIN got /\ m[2] # t
            /\ m \in DOMAIN got' => got'[m] = got[m]

LEMMA RunIs ==
  ASSUME Inv1D, NEW r \in Rank, NEW t \in SolveTasks, NEW local, NEW remote, NEW sent,
         NEW handed, Run(r, t, local, remote, sent, handed),
         local \cup remote \subseteq graph, \A m \in sent : IsUp(m) \/ IsDown(m)
  PROVE  /\ HasRun(r, t, local, remote, sent) /\ Ran(t)
         /\ handed = <<>> => RanAndSent(t, sent)
<1>1. localDeps \in [Tasks -> Int] /\ remoteDeps \in [Tasks -> Int]
  BY DEF Inv1D, FactorInv, FTypes
<1>2. HasRun(r, t, local, remote, sent)
  BY <1>1, RunEffects
<1>3. Ran(t)
  BY <1>2, SolveRan DEF Inv1D
<1>4. \A m : m \in Pend' <=> m \in Pend \/ m \in sent
  BY <1>2 DEF HasRun
<1>5. \A m : /\ m \in DOMAIN got' <=> (m \in DOMAIN got /\ m[2] # t) \/ m \in DOMAIN handed
             /\ m \in DOMAIN got' => got'[m] = IF m \in DOMAIN handed THEN handed[m] ELSE got[m]
  BY GotAfterRun
<1>6. ASSUME handed = <<>> PROVE RanAndSent(t, sent)
  <2>1. \A m : m \notin DOMAIN handed
    BY <1>6
  <2> QED
    BY <1>3, <1>4, <1>5, <2>1 DEF RanAndSent
<1> QED
  BY <1>2, <1>3, <1>6

(* A FUC or BUC task leaves alone what other tasks have received.          *)
LEMMA RunKeepsReceived ==
  ASSUME RowsInv, NEW t, NEW sent, RanAndSent(t, sent),
         \A P, c : t # BU(P, c),
         \A P : \A q \in Others(P) : NotDown(q, P)' <=> NotDown(q, P)
  PROVE  UpGot' /\ DownGot'
<1>1. UpGot'
  <2> SUFFICES ASSUME NEW P \in Sup, NEW c \in RemChildren(P), Up(c) \in DOMAIN got'
               PROVE  got'[Up(c)] = ForwardOnly(c)
    BY DEF UpGot, Up
  <2> QED
    BY DEF RowsInv, UpGot, RanAndSent
<1>2. DownGot'
  <2> SUFFICES ASSUME NEW P \in Sup, NEW c \in RemChildren(P), NEW k, k = <<P, BU(P, c)>>
               PROVE  /\ k \in DOMAIN got' => got'[k] = AllSolved(P)
                      /\ Waits(BU(P, c))' /\ ~Blocks(P, c)' => k \in DOMAIN got'
    BY DEF DownGot, BU
  <2>1. Own(c) \in Others(P) /\ k[2] # t
    BY DEF Others
  <2>2. /\ k \in DOMAIN got' <=> k \in DOMAIN got
        /\ k \in DOMAIN got' => got'[k] = got[k]
    BY <2>1 DEF RanAndSent
  <2>3. \A d : Waits(BU(P, d))' <=> Waits(BU(P, d))
    BY DEF RanAndSent, Ran
  <2>4. Blocks(P, c)' <=> Blocks(P, c)
    BY <2>1, <2>3 DEF Blocks
  <2> QED
    BY <2>2, <2>3, <2>4 DEF RowsInv, DownGot
<1> QED
  BY <1>1, <1>2

(* Supernode I is written, and task t was the only one to wait no longer.  *)
LEMMA OneWritten ==
  ASSUME RowsExact, NEW I \in Sup, NEW t, Ran(t), NEW new, rows' = [rows EXCEPT ![I] = new],
         \A K \in Sup : K # I => t # FUC(K) /\ \A J \in RowsOf(K) : t # Writer(K, J),
         new = [J \in RowsOf(I) |->
                  IF Waits(FUC(I))' THEN Zero
                  ELSE IF Waits(Writer(I, J))' THEN Forwarded(I, J)
                  ELSE Solved(J)]
  PROVE  RowsExact'
<1>1. PICK R : R = [K \in Sup |-> [J \in RowsOf(K) |->
                     IF Waits(FUC(K)) THEN Zero
                     ELSE IF Waits(Writer(K, J)) THEN Forwarded(K, J)
                     ELSE Solved(J)]]
  OBVIOUS
<1>2. rows = R
  BY <1>1 DEF RowsExact
<1>3. rows' = [K \in Sup |-> IF K = I THEN new ELSE R[K]]
  BY <1>1, <1>2
<1>4. ASSUME NEW K \in Sup, K # I
      PROVE  R[K] = [J \in RowsOf(K) |->
                       IF Waits(FUC(K))' THEN Zero
                       ELSE IF Waits(Writer(K, J))' THEN Forwarded(K, J)
                       ELSE Solved(J)]
  <2>1. /\ Waits(FUC(K))' <=> Waits(FUC(K))
        /\ \A J \in RowsOf(K) : Waits(Writer(K, J))' <=> Waits(Writer(K, J))
    BY <1>4 DEF Ran
  <2> QED
    BY <1>1, <2>1
<1>5. rows' = [K \in Sup |-> [J \in RowsOf(K) |->
                 IF Waits(FUC(K))' THEN Zero
                 ELSE IF Waits(Writer(K, J))' THEN Forwarded(K, J)
                 ELSE Solved(J)]]
  BY <1>3, <1>4
<1> QED
  BY <1>5 DEF RowsExact, FUC, Writer, BUC, BU

(* What the FUC task of a supernode finds in the rows of its children.     *)
LEMMA HeldIsForward ==
  ASSUME Inv1D, RowsInv, NEW I \in Sup, FUC(I) \in ready, NEW c \in Children(I)
  PROVE  (IF Own(c) = Own(I) THEN rows[c] ELSE got[Up(c)]) = ForwardOnly(c)
<1>1. FUC(I) \in SolveTasks /\ localDeps[FUC(I)] = 0 /\ remoteDeps[FUC(I)] = 0 /\ Waits(FUC(I))
  BY SolveMembers, ReadyHasNoDeps
<1>2. FUCCounts /\ GotExact
  BY DEF Inv1D, SolveInv, SolveCounts
<1>3. CASE Own(c) = Own(I)
  <2>1. c \in LocalChildren(I) /\ c \in Sup /\ ~IsRoot(c) /\ Parent(c) = I
    BY <1>3, BranchFacts, TreeFacts
  <2>2. {d \in LocalChildren(I) : Waits(FUC(d))} = {}
    <3>1. IsFiniteSet({d \in LocalChildren(I) : Waits(FUC(d))})
      BY BranchFacts, FS_Subset
    <3>2. Cardinality({d \in LocalChildren(I) : Waits(FUC(d))}) = 0
      BY <1>1, <1>2 DEF FUCCounts
    <3> QED
      BY <3>1, <3>2, CountedIn
  <2>3. ~Waits(FUC(c))
    BY <2>1, <2>2
  <2>4. Waits(BUC(I))
    BY <1>1, ForwardFirst1D
  <2>5. Waits(Before(c))
    BY <2>1, <2>4, SolveOrder DEF Before
  <2> QED
    BY <1>3, <2>1, <2>3, <2>5, RowsAre DEF RowsInv
<1>4. CASE Own(c) # Own(I)
  <2>1. c \in RemChildren(I)
    BY <1>4, BranchFacts
  <2>2. {d \in RemChildren(I) : NotUp(d)} = {}
    <3>1. IsFiniteSet({d \in RemChildren(I) : NotUp(d)})
      BY BranchFacts, FS_Subset
    <3>2. Cardinality({d \in RemChildren(I) : NotUp(d)}) = 0
      BY <1>1, <1>2 DEF FUCCounts
    <3> QED
      BY <3>1, <3>2, CountedIn
  <2>3. Up(c) \in DOMAIN got
    BY <1>1, <1>2, <2>1, <2>2 DEF GotExact
  <2> QED
    BY <1>4, <2>1, <2>3 DEF RowsInv, UpGot
<1> QED
  BY <1>3, <1>4

LEMMA ForwardKeepsRows ==
  ASSUME FillClosed, Inv1D, RowsInv, NEW r \in Rank, NEW I \in Sup, Own(I) = r, Forward(r, I)
  PROVE  RowsInv'
<1> DEFINE near == ~IsRoot(I) /\ Own(Parent(I)) = r
           ff == IF IsRoot(I) THEN {BUC(I)} ELSE IF near THEN {FUC(Parent(I))} ELSE {}
           ss == IF IsRoot(I) \/ near THEN {} ELSE {Up(I)}
<1>1. PICK t, local, sent : t = FUC(I) /\ local = ff /\ sent = ss
  OBVIOUS
<1>2. PICK held : held = [c \in Children(I) |-> IF Own(c) = r THEN rows[c] ELSE got[<<c, FUC(I)>>]]
  OBVIOUS
<1>3. Run(r, t, local, {}, sent, <<>>) /\ rows' = [rows EXCEPT ![I] = ForwardRows(I, held)]
  <2>1. Run(r, FUC(I), ff, {}, ss, <<>>)
    BY DEF Forward, Up
  <2>2. rows' = [rows EXCEPT ![I] = ForwardRows(I, held)]
    BY <1>2 DEF Forward
  <2> HIDE DEF ff, ss
  <2> QED
    BY <1>1, <2>1, <2>2
<1>4. t \in ready /\ t \in SolveTasks
  BY <1>1, <1>3, SolveMembers DEF Run, Mine
<1>5. Waits(t) /\ call[r] = 2
  BY <1>1, <1>4, ReadyHasNoDeps, SolveNames
<1>6. local \cup {} \subseteq graph
  <2>1. IsRoot(I) => BUC(I) \in graph
    BY <1>1, <1>5, SignalledInGraph DEF Before
  <2>2. near => FUC(Parent(I)) \in graph
    <3>1. near => I \in LocalChildren(Parent(I))
      BY TreeFacts, BranchFacts
    <3> QED
      BY <1>1, <1>5, <3>1, SignalledInGraph
  <2> QED
    BY <1>1, <2>1, <2>2
<1>7. \A m \in sent : m = Up(I) /\ IsUp(m)
  BY <1>1 DEF IsUp
<1>8. RanAndSent(t, sent)
  BY <1>3, <1>4, <1>6, <1>7, RunIs
<1>9. UpGot' /\ DownGot'
  <2>1. ASSUME NEW P, NEW q \in Others(P) PROVE NotDown(q, P)' <=> NotDown(q, P)
    <3>1. Down(q, P) \in Pend' <=> Down(q, P) \in Pend
      BY <1>7, <1>8, SolveNames DEF RanAndSent
    <3>2. Waits(BUC(P))' <=> Waits(BUC(P))
      BY <1>1, <1>8, SolveNames DEF RanAndSent, Ran
    <3> QED
      BY <3>1, <3>2 DEF NotDown, Down, FirstOn
  <2>2. \A P, c : t # BU(P, c)
    BY <1>1, SolveNames
  <2> QED
    BY <1>8, <2>1, <2>2, RunKeepsReceived
<1>10. ForwardRows(I, held) = [J \in RowsOf(I) |-> Forwarded(I, J)]
  <2>1. rows[I] = [J \in {I} \cup Struct[I] |-> Zero]
    BY <1>1, <1>5, RowsAre DEF RowsInv, RowsOf
  <2>2. ASSUME NEW c \in Children(I), NEW J \in Struct[c]
        PROVE  held[c][J] = [terms |-> AddedBelow(c, J), sol |-> FALSE]
    <3>1. c \in Sup /\ Parent(c) = I
      BY TreeFacts
    <3>2. held[c] = ForwardOnly(c)
      <4>1. held[c] = IF Own(c) = Own(I) THEN rows[c] ELSE got[Up(c)]
        BY <1>2, <3>1 DEF Up
      <4> QED
        BY <1>1, <1>4, <4>1, HeldIsForward
    <3>3. J # c /\ J \in RowsOf(c)
      BY <3>1, StructFacts DEF RowsOf
    <3> QED
      BY <3>2, <3>3 DEF ForwardOnly, Forwarded
  <2> QED
    BY <2>1, <2>2, ForwardGives DEF RowsOf
<1>11. RowsExact'
  <2>1. Waits(Before(I)) /\ Waits(BUC(I))
    BY <1>1, <1>5, ForwardFirst1D
  <2>2. \A u : Waits(u)' <=> Waits(u) /\ u # t
    BY <1>8 DEF RanAndSent, Ran
  <2>3. ASSUME NEW J \in RowsOf(I) PROVE Waits(Writer(I, J))'
    <3>1. Writer(I, J) # FUC(I)
      BY SolveNames DEF Writer
    <3>2. Waits(Writer(I, J))
      BY <2>1 DEF Writer, Before, RowsOf, IsRoot
    <3> QED
      BY <1>1, <2>2, <3>1, <3>2
  <2>4. ~Waits(FUC(I))'
    BY <1>1, <2>2
  <2>5. \A K \in Sup : K # I => t # FUC(K) /\ \A J \in RowsOf(K) : t # Writer(K, J)
    BY <1>1, SolveNames DEF Writer
  <2>6. PICK new : new = ForwardRows(I, held)
    OBVIOUS
  <2>7. new = [J \in RowsOf(I) |->
                 IF Waits(FUC(I))' THEN Zero
                 ELSE IF Waits(Writer(I, J))' THEN Forwarded(I, J)
                 ELSE Solved(J)]
    BY <1>10, <2>3, <2>4, <2>6
  <2>8. rows' = [rows EXCEPT ![I] = new]
    BY <1>3, <2>6
  <2> QED
    BY <1>8, <2>5, <2>7, <2>8, OneWritten DEF RowsInv, RanAndSent
<1> QED
  BY <1>9, <1>11 DEF RowsInv

LEMMA BackwardKeepsRows ==
  ASSUME Inv1D, RowsInv, NEW r \in Rank, NEW I \in Sup, Own(I) = r, Backward(r, I)
  PROVE  RowsInv'
<1>1. PICK t, local, sent : /\ t = BUC(I) /\ local = {BU(I, c) : c \in LocalChildren(I)}
                            /\ sent = {Down(q, I) : q \in Others(I)}
  OBVIOUS
<1>2. Run(r, t, local, {}, sent, <<>>)
  BY <1>1 DEF Backward, Down, Others, FirstOn
<1>3. rows' = [rows EXCEPT ![I][I] = [terms |-> rows[I][I].terms,
                                    sol   |-> \A J \in Struct[I] : rows[I][J].sol]]
  BY DEF Backward
<1>4. t \in ready /\ t \in SolveTasks
  BY <1>1, <1>2, SolveMembers DEF Run, Mine
<1>5. Waits(t) /\ call[r] = 2 /\ localDeps[t] = 0
  BY <1>1, <1>4, ReadyHasNoDeps, SolveNames
<1>6. local \cup {} \subseteq graph
  BY <1>1, <1>5, SignalledInGraph
<1>7. \A m \in sent : IsDown(m) /\ \E q \in Others(I) : m = Down(q, I)
  BY <1>1, DownIs
<1>8. RanAndSent(t, sent)
  BY <1>2, <1>4, <1>6, <1>7, RunIs
<1>9. UpGot' /\ DownGot'
  <2>1. ASSUME NEW P, NEW q \in Others(P) PROVE NotDown(q, P)' <=> NotDown(q, P)
    <3>1. Down(q, P) \in Pend' <=> Down(q, P) \in Pend \/ P = I
      <4>1. Down(q, P) \in sent <=> P = I
        BY <1>1, DownNames
      <4> QED
        BY <1>8, <4>1 DEF RanAndSent
    <3>2. Waits(BUC(P))' <=> Waits(BUC(P)) /\ P # I
      BY <1>1, <1>8, SolveNames DEF RanAndSent, Ran
    <3>3. P = I => Waits(BUC(P))
      BY <1>1, <1>5
    <3>4. NotDown(q, P)' <=> Waits(BUC(P))' \/ Down(q, P) \in Pend'
      BY DEF NotDown, Down, FirstOn
    <3> QED
      BY <3>1, <3>2, <3>3, <3>4 DEF NotDown
  <2>2. \A P, c : t # BU(P, c)
    BY <1>1, SolveNames
  <2> QED
    BY <1>8, <2>1, <2>2, RunKeepsReceived
<1>10. ~Waits(Before(I)) /\ ~Waits(FUC(I))
  <2>1. ~Waits(Before(I))
    BY <1>1, <1>5 DEF Inv1D, SolveInv, SolveCounts, BUCCounts
  <2> QED
    BY <2>1, ForwardFirst1D
<1>11. PICK R : R = rows[I]
  OBVIOUS
<1>12. /\ DOMAIN R = RowsOf(I) /\ R[I] = Forwarded(I, I)
       /\ \A J \in Struct[I] : J # I /\ R[J] = Solved(J)
       /\ R = [J \in RowsOf(I) |-> R[J]]
  <2>1. R = [J \in RowsOf(I) |->
               IF Waits(FUC(I)) THEN Zero
               ELSE IF Waits(Writer(I, J)) THEN Forwarded(I, J)
               ELSE Solved(J)]
    BY <1>11 DEF RowsInv, RowsExact
  <2>2. I \in RowsOf(I) /\ Writer(I, I) = BUC(I) /\ Waits(BUC(I))
    BY <1>1, <1>5 DEF RowsOf, Writer
  <2>3. \A J \in Struct[I] : J # I /\ J \in RowsOf(I) /\ ~Waits(Writer(I, J))
    BY <1>10, StructFacts DEF RowsOf, Writer, Before, IsRoot
  <2> QED
    BY <1>10, <2>1, <2>2, <2>3
<1>13. PICK x, s : x = [terms |-> R[I].terms, sol |-> s] /\ s = \A J \in Struct[I] : R[J].sol
  OBVIOUS
<1>14. x = Solved(I)
  <2>1. (\A J \in Struct[I] : R[J].sol) = TRUE
    <3>1. \A J \in Struct[I] : Solved(J).sol
      BY DEF Solved
    <3>2. \A J \in Struct[I] : R[J].sol
      BY <1>12, <3>1
    <3> QED
      BY <3>2
  <2>2. s = TRUE
    BY <1>13, <2>1
  <2>3. PICK c : c = [K \in Sup |-> IF K \in Contributors(I) THEN 1 ELSE 0]
    OBVIOUS
  <2>4. R[I] = [terms |-> c, sol |-> FALSE] /\ Solved(I) = [terms |-> c, sol |-> TRUE]
    BY <1>12, <2>3 DEF Forwarded, Solved
  <2>5. R[I].terms = c
    BY <2>4
  <2> QED
    BY <1>13, <2>2, <2>4, <2>5
<1>15. PICK new : new = [J \in RowsOf(I) |-> IF J = I THEN x ELSE R[J]]
  OBVIOUS
<1>16. rows' = [rows EXCEPT ![I] = new]
  <2>1. new = [R EXCEPT ![I] = x]
    BY <1>12, <1>15
  <2>2. rows' = [rows EXCEPT ![I] = [R EXCEPT ![I] = x]]
    BY <1>3, <1>11, <1>13
  <2> QED
    BY <2>1, <2>2
<1>17. RowsExact'
  <2>1. \A u : Waits(u)' <=> Waits(u) /\ u # t
    BY <1>8 DEF RanAndSent, Ran
  <2>2. ~Waits(FUC(I))'
    BY <1>10, <2>1
  <2>3. ASSUME NEW J \in RowsOf(I) PROVE ~Waits(Writer(I, J))'
    BY <1>1, <1>10, <2>1 DEF Writer, Before, RowsOf, IsRoot
  <2>4. \A J \in RowsOf(I) : (IF J = I THEN x ELSE R[J]) = Solved(J)
    BY <1>12, <1>14 DEF RowsOf
  <2>5. new = [J \in RowsOf(I) |->
                 IF Waits(FUC(I))' THEN Zero
                 ELSE IF Waits(Writer(I, J))' THEN Forwarded(I, J)
                 ELSE Solved(J)]
    BY <1>15, <2>2, <2>3, <2>4
  <2>6. \A K \in Sup : K # I => t # FUC(K) /\ \A J \in RowsOf(K) : t # Writer(K, J)
    BY <1>1, SolveNames DEF Writer
  <2> QED
    BY <1>8, <1>16, <2>5, <2>6, OneWritten DEF RowsInv, RanAndSent
<1> QED
  BY <1>9, <1>17 DEF RowsInv

LEMMA CopyDownKeepsRows ==
  ASSUME FillClosed, Inv1D, Inv1D', RowsInv,
         NEW r \in Rank, NEW P \in Sup, NEW I \in Sup, Own(I) = r, CopyDown(r, P, I)
  PROVE  RowsInv'
<1>1. PICK waiting : waiting = {c \in ChildrenOn(r, P) : Own(P) # r /\ BU(P, c) \in graph}
  OBVIOUS
<1>2. PICK next : next = IF waiting = {} THEN {} ELSE {BU(P, HighestOf(waiting))}
  OBVIOUS
<1>3. PICK source : source = IF Own(P) # r THEN got[<<P, BU(P, I)>>] ELSE rows[P]
  OBVIOUS
<1>4. PICK t, local, handed : /\ t = BU(P, I) /\ local = {BUC(I)}
                              /\ handed = [m \in {<<P, u>> : u \in next} |-> source]
  OBVIOUS
<1>5. /\ Run(r, t, local, next, {}, handed)
      /\ rows' = [rows EXCEPT ![I] = [J \in DOMAIN @ |-> IF J = I THEN @[J] ELSE source[J]]]
  BY <1>1, <1>2, <1>3, <1>4 DEF CopyDown
<1>6. t \in ready /\ IsSolve(t)
  BY <1>4, <1>5, SolveNames DEF Run, Mine
<1>7. t \in SolveTasks
  BY <1>6 DEF Inv1D, SolveInv, SolveKinds
<1>8. ~IsRoot(I) /\ P = Parent(I) /\ I \in Children(P) /\ Before(I) = t
  <2>1. ~IsRoot(I) /\ P = Parent(I)
    BY <1>4, <1>7, SolveTaskCases, SolveNames
  <2> QED
    BY <1>4, <2>1, TreeFacts DEF Before
<1>9. Waits(t) /\ call[r] = 2 /\ localDeps[t] = 0 /\ remoteDeps[t] = 0
  BY <1>4, <1>6, <1>7, ReadyHasNoDeps, SolveNames
<1>10. \A u \in next : \E c \in RemChildren(P) : u = BU(P, c) /\ u \in graph
  <2> SUFFICES ASSUME NEW u \in next PROVE \E c \in RemChildren(P) : u = BU(P, c) /\ u \in graph
    OBVIOUS
  <2>1. waiting # {} /\ u = BU(P, HighestOf(waiting))
    BY <1>2
  <2>2. waiting \subseteq Sup
    BY <1>1, BranchFacts, TreeFacts
  <2>3. HighestOf(waiting) \in waiting
    BY <2>1, <2>2, HighestIsGreatest
  <2> QED
    BY <1>1, <2>1, <2>3, BranchFacts DEF ChildrenOn
<1>11. local \cup next \subseteq graph
  <2>1. BUC(I) \in graph
    BY <1>8, <1>9, SignalledInGraph
  <2> QED
    BY <1>4, <1>10, <2>1
<1>12. HasRun(r, t, local, next, {}) /\ Ran(t)
  BY <1>5, <1>7, <1>11, RunIs
<1>13. \A m : /\ m \in DOMAIN got' <=> (m \in DOMAIN got /\ m[2] # t) \/ m \in DOMAIN handed
              /\ m \in DOMAIN got' => got'[m] = IF m \in DOMAIN handed THEN handed[m] ELSE got[m]
  BY <1>5, GotAfterRun
<1>14. ~Waits(BUC(P)) /\ source = AllSolved(P)
  <2>1. CASE Own(P) = r
    <3>1. ~Waits(BUC(P))
      BY <1>4, <1>8, <1>9, <2>1 DEF Inv1D, SolveInv, SolveCounts, BUCounts
    <3> QED
      BY <1>3, <2>1, <3>1, RowsAre DEF RowsInv
  <2>2. CASE Own(P) # r
    <3>1. ~Blocks(P, I)
      BY <1>4, <1>8, <1>9, <2>2 DEF Inv1D, SolveInv, SolveCounts, BUCounts
    <3>2. ~Waits(BUC(P))
      BY <3>1 DEF Blocks, NotDown
    <3>3. I \in RemChildren(P)
      BY <1>8, <2>2, BranchFacts
    <3> QED
      BY <1>3, <1>4, <1>9, <2>2, <3>1, <3>2, <3>3 DEF RowsInv, DownGot
  <2> QED
    BY <2>1, <2>2
<1>15. ~Waits(FUC(I))
  BY <1>8, <1>14, SolveOrder, ForwardFirst1D
<1>16. RowsExact'
  <2>1. PICK R : R = rows[I]
    OBVIOUS
  <2>2. DOMAIN R = RowsOf(I) /\ R[I] = IF Waits(BUC(I)) THEN Forwarded(I, I) ELSE Solved(I)
    <3>1. R = [J \in RowsOf(I) |->
                 IF Waits(FUC(I)) THEN Zero
                 ELSE IF Waits(Writer(I, J)) THEN Forwarded(I, J)
                 ELSE Solved(J)]
      BY <2>1 DEF RowsInv, RowsExact
    <3>2. I \in RowsOf(I) /\ Writer(I, I) = BUC(I)
      BY DEF RowsOf, Writer
    <3> QED
      BY <1>15, <3>1, <3>2
  <2>3. PICK new : new = [J \in RowsOf(I) |-> IF J = I THEN R[J] ELSE source[J]]
    OBVIOUS
  <2>4. rows' = [rows EXCEPT ![I] = new]
    BY <1>5, <2>1, <2>2, <2>3
  <2>5. \A u : Waits(u)' <=> Waits(u) /\ u # t
    BY <1>12 DEF Ran
  <2>6. ~Waits(FUC(I))'
    BY <1>15, <2>5
  <2>7. ASSUME NEW J \in Struct[I] PROVE source[J] = Solved(J)
    <3>1. Struct[I] \subseteq Sup /\ Struct[I] # {}
      BY DistributionAssumption
    <3>2. P \in Struct[I] /\ P <= J
      BY <1>8, <3>1, LowestIsLeast DEF Parent
    <3>3. J \in RowsOf(P)
      <4>1. P \in Int /\ J \in Int
        BY <3>1, DistributionAssumption DEF Sup
      <4>2. P < J => J \in Struct[P]
        BY <3>2 DEF FillClosed
      <4> QED
        BY <3>2, <4>1, <4>2 DEF RowsOf
    <3> QED
      BY <1>14, <3>3 DEF AllSolved
  <2>8. ASSUME NEW J \in RowsOf(I)
        PROVE  (IF J = I THEN R[J] ELSE source[J]) =
                 IF Waits(Writer(I, J))' THEN Forwarded(I, J) ELSE Solved(J)
    <3>1. CASE J = I
      <4>1. Writer(I, J) = BUC(I) /\ BUC(I) # t
        BY <1>4, <3>1, SolveNames DEF Writer
      <4>2. Waits(Writer(I, J))' <=> Waits(BUC(I))
        BY <2>5, <4>1
      <4> QED
        BY <2>2, <3>1, <4>2
    <3>2. CASE J # I
      <4>1. J \in Struct[I] /\ Writer(I, J) = t
        BY <1>4, <1>8, <3>2 DEF Writer, RowsOf
      <4>2. ~Waits(Writer(I, J))'
        BY <2>5, <4>1
      <4> QED
        BY <2>7, <3>2, <4>1, <4>2
    <3> QED
      BY <3>1, <3>2
  <2>9. new = [J \in RowsOf(I) |->
                 IF Waits(FUC(I))' THEN Zero
                 ELSE IF Waits(Writer(I, J))' THEN Forwarded(I, J)
                 ELSE Solved(J)]
    BY <2>3, <2>6, <2>8
  <2>10. \A K \in Sup : K # I => t # FUC(K) /\ \A J \in RowsOf(K) : t # Writer(K, J)
    BY <1>4, SolveNames DEF Writer
  <2> QED
    BY <1>12, <2>4, <2>9, <2>10, OneWritten DEF RowsInv
<1>17. \A m : m \in DOMAIN handed <=> \E u \in next : m = <<P, u>>
  BY <1>4
<1>18. UpGot'
  <2> SUFFICES ASSUME NEW Q \in Sup, NEW c \in RemChildren(Q), Up(c) \in DOMAIN got'
               PROVE  got'[Up(c)] = ForwardOnly(c)
    BY DEF UpGot, Up
  <2>1. Up(c) \notin DOMAIN handed
    <3>1. \A d : Up(c) # <<P, BU(P, d)>>
      BY SolveNames DEF Up
    <3> QED
      BY <1>10, <1>17, <3>1
  <2> QED
    BY <1>13, <2>1 DEF RowsInv, UpGot
<1>19. DownGot'
  <2> SUFFICES ASSUME NEW Q \in Sup, NEW c \in RemChildren(Q), NEW u, u = BU(Q, c),
                      NEW k, k = <<Q, u>>
               PROVE  /\ k \in DOMAIN got' => got'[k] = AllSolved(Q)
                      /\ Waits(u)' /\ ~Blocks(Q, c)' => k \in DOMAIN got'
    BY DEF DownGot, BU
  <2>1. /\ c \in Sup /\ ~IsRoot(c) /\ Parent(c) = Q /\ Own(c) # Own(Q)
        /\ u \in SolveTasks /\ u \in Tasks /\ k[2] = u
    BY UpIs, SolveMembers
  <2>2. k \in DOMAIN handed <=> u \in next
    <3>1. k \in DOMAIN handed => u \in next
      BY <1>17
    <3>2. u \in next => Q = P
      BY <1>10, SolveNames
    <3> QED
      BY <1>17, <3>1, <3>2
  <2>3. k \in DOMAIN handed => handed[k] = AllSolved(Q)
    <3>1. u \in next => Q = P
      BY <1>10, SolveNames
    <3>2. k \in DOMAIN handed => handed[k] = source
      BY <1>4
    <3> QED
      BY <1>14, <2>2, <3>1, <3>2
  <2>4. k \in DOMAIN got' => got'[k] = AllSolved(Q)
    BY <1>13, <2>3 DEF RowsInv, DownGot
  <2>5. ASSUME Waits(u)', ~Blocks(Q, c)', u \notin next PROVE k \in DOMAIN got'
    <3>1. remoteDeps'[u] = 0
      <4>1. BUCounts'
        BY DEF Inv1D, SolveInv, SolveCounts
      <4>2. remoteDeps'[u] = IF Blocks(Q, c)' THEN 1 ELSE 0
        BY <2>1, <4>1 DEF BUCounts, BU, Own, Parent, IsRoot
      <4> QED
        BY <2>5, <4>2
    <3>2. remoteDeps[u] = IF Blocks(Q, c) THEN 1 ELSE 0
      BY <2>1 DEF Inv1D, SolveInv, SolveCounts, BUCounts
    <3>3. remoteDeps'[u] = remoteDeps[u] - IF u \in next THEN 1 ELSE 0
      BY <1>12, <2>1 DEF HasRun
    <3>4. ~Blocks(Q, c)
      BY <2>5, <3>1, <3>2, <3>3
    <3>5. Waits(u) /\ u # t
      BY <1>12, <2>5 DEF Ran
    <3>6. k \in DOMAIN got
      BY <3>4, <3>5 DEF RowsInv, DownGot
    <3> QED
      BY <1>13, <2>1, <3>5, <3>6
  <2>6. ASSUME u \in next PROVE k \in DOMAIN got'
    BY <1>13, <2>2, <2>6
  <2> QED
    BY <2>4, <2>5, <2>6
<1> QED
  BY <1>16, <1>18, <1>19 DEF RowsInv

LEMMA SolveTaskKeepsRows ==
  ASSUME FillClosed, Inv1D, Inv1D', RowsInv, NEW r \in Rank, SolveTask(r)
  PROVE  RowsInv'
<1>2. PICK t \in Mine(r, ready) :
        \/ t[1] = "FUC" /\ Forward(r, t[3])
        \/ t[1] = "BUC" /\ Backward(r, t[3])
        \/ t[1] = "BU"  /\ CopyDown(r, t[2], t[3])
  BY DEF SolveTask
<1>3. t[2] \in Sup /\ t[3] \in Sup
  BY DEF Inv1D, CallsInv, TasksInv, Mine, AnyTask
<1>4. \/ Forward(r, t[3]) /\ Own(t[3]) = r
      \/ Backward(r, t[3]) /\ Own(t[3]) = r
      \/ CopyDown(r, t[2], t[3]) /\ Own(t[3]) = r
  <2>1. /\ Forward(r, t[3]) => RankOf(FUC(t[3])) = r
        /\ Backward(r, t[3]) => RankOf(BUC(t[3])) = r
        /\ CopyDown(r, t[2], t[3]) => RankOf(BU(t[2], t[3])) = r
    BY DEF Forward, Backward, CopyDown, Run, Mine
  <2> QED
    BY <1>2, <1>3, <2>1, SolveTaskTypes
<1> QED
  BY <1>3, <1>4, ForwardKeepsRows, BackwardKeepsRows, CopyDownKeepsRows

-----------------------------------------------------------------------------
(* The other steps.                                                        *)

LEMMA UntouchedIsStill ==
  ASSUME SolveUntouched, UNCHANGED rows,
         \A m : IsSolve(m[2]) /\ m \in DOMAIN got => got'[m] = got[m]
  PROVE  SolveStill
<1>1. \A t \in SolveTasks : Waits(t)' <=> Waits(t)
  BY SolveMembers DEF SolveUntouched, Waits, Unexecuted
<1> QED
  BY <1>1 DEF SolveUntouched, SolveStill

LEMMA FactorRunStill ==
  ASSUME Inv1D, NEW r \in Rank, NEW t, NEW local, NEW remote, NEW sent,
         Run(r, t, local, remote, sent, <<>>), UNCHANGED rows,
         ~IsSolve(t), \A u \in local \cup remote : ~IsSolve(u),
         \A m \in sent : ~IsSolve(m[2])
  PROVE  SolveStill
<1>1. localDeps \in [Tasks -> Int] /\ remoteDeps \in [Tasks -> Int]
  BY DEF Inv1D, FactorInv, FTypes
<1>2. HasRun(r, t, local, remote, sent)
  BY <1>1, RunEffects
<1>3. SolveUntouched
  BY <1>1, <1>2, FactorRunUntouched
<1>4. \A m : IsSolve(m[2]) /\ m \in DOMAIN got => got'[m] = got[m]
  <2>1. \A m : /\ m \in DOMAIN got' <=> (m \in DOMAIN got /\ m[2] # t) \/ m \in DOMAIN <<>>
               /\ m \in DOMAIN got' => got'[m] = IF m \in DOMAIN <<>> THEN (<<>>)[m] ELSE got[m]
    BY GotAfterRun
  <2>2. DOMAIN <<>> = {}
    OBVIOUS
  <2> QED
    BY <2>1, <2>2
<1> QED
  BY <1>3, <1>4, UntouchedIsStill

LEMMA FactorTaskStill ==
  ASSUME Inv1D, NEW r \in Rank, FactorTask(r), UNCHANGED rows
  PROVE  SolveStill
<1>0. FactorInv
  BY DEF Inv1D
<1>1. PICK t \in Mine(r, ready) :
        \/ t[1] = "FACTOR"    /\ Factor(r, t[2])
        \/ t[1] = "UPDATE"    /\ Update(r, t[2], t[3])
        \/ t[1] = "AGGREGATE" /\ Aggregate(r, t[2], t[3])
  BY DEF FactorTask
<1>2. t[2] \in Sup /\ t[3] \in Sup
  BY DEF Inv1D, CallsInv, TasksInv, Mine, AnyTask
<1>3. ASSUME NEW I \in Sup, Factor(r, I) PROVE SolveStill
  <2>1. PICK S : S = {UPDATE(I, J) : J \in UpdatesOn(r, I)}
    OBVIOUS
  <2>2. Run(r, FACTOR(I), S, {}, FactorMessages(I), <<>>)
    BY <1>3, <2>1 DEF Factor
  <2>3. \A u \in S : u \in UpdateTasks(I)
    BY <1>0, <1>3, <2>1, FactorReleases
  <2>4. /\ ~IsSolve(FACTOR(I)) /\ \A u \in S \cup {} : ~IsSolve(u)
        /\ \A m \in FactorMessages(I) : ~IsSolve(m[2])
    <3>1. \A m \in FactorMessages(I) : \E u \in UpdateTasks(I) : m = <<I, u>>
      BY FirstMsgShape
    <3> QED
      BY <2>3, <3>1, FactorTaskShape, UpdateTaskShape
  <2> QED
    BY <2>2, <2>4, FactorRunStill
<1>4. ASSUME NEW I \in Sup, NEW J \in Sup, Update(r, I, J) PROVE SolveStill
  <2>1. PICK u, T, last, local, sent :
          /\ u = UPDATE(I, J) /\ T = Targets(r, I, J)
          /\ last = {K \in T : Announced(r, K)}
          /\ local = {FACTOR(K) : K \in {L \in T : Own(L) = r}}
          /\ sent = {AggMsg(I, K) : K \in last}
    OBVIOUS
  <2>2. Run(r, u, local, {}, sent, <<>>)
    BY <1>4, <2>1 DEF Update, AggMsg
  <2>3. u \in UpdateTasks(I) /\ UpdateDone(r, I, T, last)
    BY <1>0, <1>4, <2>1, UpdateReleases
  <2>4. /\ ~IsSolve(u) /\ \A v \in local \cup {} : ~IsSolve(v)
        /\ \A m \in sent : ~IsSolve(m[2])
    <3>1. \A K \in T : K \in Sup
      BY <2>3 DEF UpdateDone
    <3> QED
      BY <2>1, <2>3, <3>1, FactorTaskShape, UpdateTaskShape, AggShape
  <2> QED
    BY <2>2, <2>4, FactorRunStill
<1>5. ASSUME NEW I \in Sup, NEW K \in Sup, Aggregate(r, I, K) PROVE SolveStill
  <2>1. Run(r, AGGREGATE(I, K), {}, {FACTOR(K)}, {}, <<>>)
    BY <1>5 DEF Aggregate
  <2>2. ~IsSolve(AGGREGATE(I, K)) /\ ~IsSolve(FACTOR(K))
    BY FactorTaskShape, AggShape
  <2> QED
    BY <2>1, <2>2, FactorRunStill
<1> QED
  BY <1>1, <1>2, <1>3, <1>4, <1>5

LEMMA OtherMessageStill ==
  ASSUME Inv1D, NEW r \in Rank, NEW m, NEW data, NEW atOnce,
         MessageTaken(r, m, data, atOnce), ~IsSolve(m[2]), UNCHANGED rows,
         atOnce = TRUE \/ atOnce = FALSE
  PROVE  SolveStill
<1>1. localDeps \in [Tasks -> Int] /\ remoteDeps \in [Tasks -> Int]
  BY DEF Inv1D, FactorInv, FTypes
<1>2. HasReceived(m, data, atOnce)
  BY <1>1, ReceivedEffects DEF MessageTaken
<1>3. \A k : IsSolve(k[2]) => /\ k \in Pend' <=> k \in Pend
                              /\ k \in DOMAIN got' <=> k \in DOMAIN got
                              /\ k \in DOMAIN got => got'[k] = got[k]
  BY <1>2 DEF MessageTaken, HasReceived
<1>4. \A u : IsSolve(u) => (u \in graph' <=> u \in graph) /\ (u \in ready' <=> u \in ready)
  <2>1. CASE atOnce = TRUE
    BY <1>2, <2>1 DEF HasReceived
  <2>2. CASE atOnce = FALSE
    BY <1>2, <2>2 DEF HasReceived, DueNow
  <2> QED
    BY <2>1, <2>2
<1>5. \A t \in SolveTasks : Waits(t)' <=> Waits(t)
  BY <1>4, SolveMembers DEF Waits, Unexecuted, MessageTaken
<1> QED
  BY <1>3, <1>5 DEF SolveStill

LEMMA MessageKeepsRows ==
  ASSUME Inv1D, RowsInv, NEW r \in Rank, NEW m, MessageTaken(r, m, Data(m), AtOnce(m)),
         Early => m \in FactorMessage, UNCHANGED rows
  PROVE  RowsInv'
<1>1. PICK d, a : d = Data(m) /\ a = AtOnce(m)
  OBVIOUS
<1>2. MessageTaken(r, m, d, a)
  BY <1>1
<1>3. CASE IsSolve(m[2])
  <2>1. a = FALSE /\ d = rows[m[1]]
    BY <1>1, <1>3 DEF AtOnce, Data, SolveData
  <2>2. call[r] = 2
    BY <1>2, <1>3, SolveMessageInSolve DEF Inv1D, MessageTaken
  <2> QED
    BY <1>2, <1>3, <2>1, <2>2, SolveMessageKeepsRows
<1>4. CASE ~IsSolve(m[2])
  <2>1. a = TRUE \/ a = FALSE
    BY <1>1 DEF AtOnce, IsAggregate
  <2> QED
    BY <1>2, <1>4, <2>1, OtherMessageStill, StillKeepsRows
<1> QED
  BY <1>3, <1>4

LEMMA TakeAsyncKeepsRows ==
  ASSUME Inv1D, RowsInv, NEW r \in Rank, NEW m \in async,
         TakeAsync(r, m, Data(m), AtOnce(m)), UNCHANGED <<factorVars, rows>>
  PROVE  RowsInv'
<1>1. PICK d, a : d = Data(m) /\ a = AtOnce(m)
  OBVIOUS
<1>2. TakeAsync(r, m, d, a)
  BY <1>1
<1>3. /\ async' = async \ {m} /\ UNCHANGED <<net, blocking, call, pc>>
      /\ pc[r] = "check" /\ RankOf(m[2]) = r /\ Received(m, d, a)
  BY <1>2 DEF TakeAsync, placeVars, OnRank
<1>4. m \in Pend /\ Pend' = Pend \ {m} /\ OnePlace'
  BY <1>3, TakeAsyncMoves DEF Inv1D, MsgsInv
<1>5. MessageTaken(r, m, d, a)
  BY <1>3, <1>4 DEF MessageTaken
<1>6. Early => m \in FactorMessage
  BY DEF Inv1D, CallsInv, MessagesInv
<1> QED
  BY <1>1, <1>5, <1>6, MessageKeepsRows

LEMMA TakeBlockingKeepsRows ==
  ASSUME Inv1D, RowsInv, NEW r \in Rank, NEW m \in Blocked(r),
         TakeBlocking(r, m, Data(m), AtOnce(m)), UNCHANGED <<factorVars, rows>>
  PROVE  RowsInv'
<1>1. PICK d, a : d = Data(m) /\ a = AtOnce(m)
  OBVIOUS
<1>2. TakeBlocking(r, m, d, a)
  BY <1>1
<1>3. /\ blocking' = [blocking EXCEPT ![r] = Tail(blocking[r])] /\ m = Head(blocking[r])
      /\ UNCHANGED <<net, async, call, pc>>
      /\ pc[r] = "check" /\ Received(m, d, a)
  BY <1>2 DEF TakeBlocking, placeVars
<1>4. RankOf(m[2]) = r /\ (Early => m \in FactorMessage)
  BY BlockedTypes DEF Inv1D, To
<1>5. blocking[r] # <<>>
  BY DEF Blocked
<1>6. m \in Pend /\ Pend' = Pend \ {m} /\ OnePlace'
  BY <1>3, <1>5, TakeBlockingMoves DEF Inv1D, MsgsInv
<1>7. MessageTaken(r, m, d, a)
  BY <1>3, <1>4, <1>6 DEF MessageTaken
<1> QED
  BY <1>1, <1>4, <1>7, MessageKeepsRows

(* Nothing but the places of the messages and of the ranks changes.        *)
LEMMA NothingIsStill ==
  ASSUME Pend' = Pend, UNCHANGED <<graph, ready, call, got, rows>>
  PROVE  SolveStill
<1>1. \A t : Waits(t)' <=> Waits(t)
  BY DEF Waits, Unexecuted
<1> QED
  BY <1>1 DEF SolveStill

LEMMA SolveCallIsStill ==
  ASSUME Inv1D, NEW r \in Rank, Solve(r), UNCHANGED <<factorVars, rows>>
  PROVE  SolveStill
<1>2. PICK T, F1 : T = Mine(r, SolveTasks) /\ F1 = Free(T)
  OBVIOUS
<1>3. /\ pc[r] = "end" /\ call[r] = 1
      /\ call' = [call EXCEPT ![r] = call[r] + 1]
      /\ graph' = graph \cup (T \ F1) /\ ready' = ready \cup F1
      /\ UNCHANGED <<net, async, blocking, got>>
  BY <1>2 DEF Solve, RunAgain, commVars
<1>4. /\ \A t : t \in T <=> t \in SolveTasks /\ RankOf(t) = r
      /\ F1 \subseteq T
  BY <1>2 DEF Mine, Free
<1>5. \A q \in Rank : call'[q] = IF q = r THEN 2 ELSE call[q]
  BY <1>3 DEF Inv1D, CallsInv, PlacesInv
<1>6. Pend' = Pend
  BY <1>3, NoMoves DEF Inv1D
<1>7. ASSUME NEW t \in SolveTasks PROVE Waits(t)' <=> Waits(t)
  <2>0. RankOf(t) \in Rank
    BY SolveMembers
  <2>1. CASE RankOf(t) = r
    <3>1. t \in graph' \cup ready'
      BY <1>3, <1>4, <2>1
    <3>2. Waits(t)'
      BY <3>1 DEF Waits, Unexecuted
    <3>3. Waits(t)
      BY <1>3, <2>1 DEF Waits, Unexecuted
    <3> QED
      BY <3>2, <3>3
  <2>2. CASE RankOf(t) # r
    <3>1. t \in graph' \cup ready' <=> t \in graph \cup ready
      BY <1>3, <1>4, <2>2
    <3>2. call'[RankOf(t)] = call[RankOf(t)]
      BY <1>5, <2>0, <2>2
    <3> QED
      BY <3>1, <3>2 DEF Waits, Unexecuted
  <2> QED
    BY <2>1, <2>2
<1> QED
  BY <1>3, <1>6, <1>7 DEF SolveStill

LEMMA NextKeepsRows == FillClosed /\ Inv1D /\ Inv1D' /\ RowsInv /\ [Next]_vars => RowsInv'
<1> SUFFICES ASSUME FillClosed, Inv1D, Inv1D', RowsInv, [Next]_vars PROVE RowsInv'
  OBVIOUS
<1>1. CASE UNCHANGED vars
  <2>1. UNCHANGED <<graph, ready, call, got, rows>> /\ Pend' = Pend
    BY <1>1, NoMoves DEF Inv1D, vars, runVars, placeVars, graphVars, commVars
  <2> QED
    BY <2>1, NothingIsStill, StillKeepsRows
<1>2. ASSUME NEW r \in Rank, RankStep(r) PROVE RowsInv'
  <2>1. CASE FactorTask(r) /\ UNCHANGED rows
    BY <2>1, FactorTaskStill, StillKeepsRows
  <2>2. CASE SolveTask(r)
    BY <2>2, SolveTaskKeepsRows
  <2>3. CASE /\ \E m \in Blocked(r) : TakeBlocking(r, m, Data(m), AtOnce(m))
             /\ UNCHANGED <<factorVars, rows>>
    BY <2>3, TakeBlockingKeepsRows
  <2>4. CASE Promote(r) /\ UNCHANGED <<factorVars, rows>>
    <3>1. Pend' = Pend
      BY <2>4, PromoteMoves DEF Inv1D, MsgsInv
    <3>2. UNCHANGED <<graph, ready, call, got, rows>>
      BY <2>4 DEF Promote, graphVars
    <3> QED
      BY <3>1, <3>2, NothingIsStill, StillKeepsRows
  <2>5. CASE (LoopBack(r) \/ LeaveDrain(r, Drained(r)) \/ PassBarrier(r))
             /\ UNCHANGED <<factorVars, rows>>
    <3>1. UNCHANGED <<graph, ready, call, got, rows, net, async, blocking>>
      BY <2>5 DEF LoopBack, LeaveDrain, PassBarrier, graphVars, commVars
    <3>2. Pend' = Pend
      BY <3>1, NoMoves DEF Inv1D
    <3> QED
      BY <3>1, <3>2, NothingIsStill, StillKeepsRows
  <2>6. CASE Solve(r) /\ UNCHANGED <<factorVars, rows>>
    BY <2>6, SolveCallIsStill, StillKeepsRows
  <2> QED
    BY <1>2, <2>1, <2>2, <2>3, <2>4, <2>5, <2>6 DEF RankStep, Execute
<1>3. ASSUME NEW r \in Rank, Complete(r) PROVE RowsInv'
  BY <1>3, TakeAsyncKeepsRows DEF Complete
<1>4. ASSUME NEW r \in Rank, Reached(r) PROVE RowsInv'
  <2>1. CASE \E m \in OnRank(r, net) : Arrive(m) /\ UNCHANGED <<factorVars, rows>>
    <3>1. PICK m : Arrive(m) /\ UNCHANGED <<factorVars, rows>>
      BY <2>1
    <3>2. Pend' = Pend
      BY <3>1, ArriveMoves DEF Inv1D, MsgsInv
    <3>3. UNCHANGED <<graph, ready, call, got, rows>>
      BY <3>1 DEF Arrive, placeVars, graphVars
    <3> QED
      BY <3>2, <3>3, NothingIsStill, StillKeepsRows
  <2>2. CASE \E f \in frees : FreeAggregate(f) /\ UNCHANGED rows
    <3>1. UNCHANGED <<graph, ready, call, got, rows, net, async, blocking>>
      BY <2>2 DEF FreeAggregate, runVars, placeVars, graphVars, commVars
    <3>2. Pend' = Pend
      BY <3>1, NoMoves DEF Inv1D
    <3> QED
      BY <3>1, <3>2, NothingIsStill, StillKeepsRows
  <2> QED
    BY <1>4, <2>1, <2>2 DEF Reached
<1> QED
  BY <1>1, <1>2, <1>3, <1>4 DEF Next, Terminated

LEMMA InitRows == Init => RowsInv
<1> SUFFICES ASSUME Init PROVE RowsInv
  OBVIOUS
<1>1. AtStart
  BY InitAtStart
<1>2. \A I \in Sup : Waits(FUC(I)) /\ Waits(BUC(I))
  BY <1>1, SolveMembers DEF AtStart, Waits, Unexecuted
<1>3. RowsExact
  BY <1>2 DEF Init, SolveInit, RowsExact, RowsOf
<1>4. UpGot
  BY <1>1 DEF AtStart, UpGot
<1>5. DownGot
  <2>1. \A P \in Sup : \A c \in RemChildren(P) : Blocks(P, c)
    BY <1>2 DEF Blocks, NotDown
  <2> QED
    BY <1>1, <2>1 DEF AtStart, DownGot
<1> QED
  BY <1>3, <1>4, <1>5 DEF RowsInv

LEMMA AlwaysRows == FillClosed => (Spec => []RowsInv)
<1> SUFFICES ASSUME FillClosed PROVE Spec => []RowsInv
  OBVIOUS
<1>1. Inv1D /\ Inv1D' /\ RowsInv /\ [Next]_vars => RowsInv'
  BY NextKeepsRows
<1> QED
  BY <1>1, InitRows, AlwaysInv1D, PTL DEF Spec

(* A supernode is solved with every contribution to its rows, each once,   *)
(* and the rows of its parent are copied only when they hold the solution, *)
(* whichever of forward_update, rget and back_update brings them.          *)
THEOREM SolutionStaysExact == FillClosed => (Spec => []SolutionExact)
<1> SUFFICES ASSUME FillClosed PROVE Spec => []SolutionExact
  OBVIOUS
<1>1. Inv1D /\ RowsInv => SolutionExact
  BY ExactSolution DEF RowsInv
<1> QED
  BY <1>1, AlwaysRows, AlwaysInv1D, PTL

(* What signal_data announces, in either call, is there and unchanged      *)
(* until its receiver has read it: an aggregate vector, what a child has   *)
(* for its parent, the solution a parent has for its children.             *)
THEOREM AnnouncedStaysFinal == FillClosed => (Spec => []AnnouncedIsFinal)
<1> SUFFICES ASSUME FillClosed PROVE Spec => []AnnouncedIsFinal
  OBVIOUS
<1>1. Inv1D /\ RowsInv => AnnouncedIsFinal
  BY InvAggregates, ExactData DEF RowsInv, AnnouncedIsFinal
<1> QED
  BY <1>1, AlwaysRows, AlwaysInv1D, PTL

=============================================================================
