----------------------------- MODULE FanBoth1D -----------------------------
(***************************************************************************)
(* The 1D fan-both factorization of symPACKMatrix with one thread per      *)
(* rank: FactorizationFanBoth, the first call of Scheduler::run.  A        *)
(* factored supernode is sent once to each rank that computes updates with *)
(* it; a rank adds its updates of a supernode it does not own into an      *)
(* aggregate vector, and sends it with the last of them.  The aggregate    *)
(* vector is freed by an rpc of the receiver.                              *)
(***************************************************************************)
EXTENDS Scheduler1D

Updater(J, I) == Map[<<J, I>>]       \* iUpdater

-----------------------------------------------------------------------------
(* The task graph and the counts of FBGetUpdateCount.                      *)

(* What rank r computes with factor I.                                     *)
UpdatesOn(r, I) == {J \in Struct[I] : Updater(J, I) = r}

FactorKinds == {"FACTOR", "UPDATE", "AGGREGATE"}

FACTOR(I)       == <<"FACTOR", I, I, Own(I)>>
UPDATE(I, J)    == <<"UPDATE", I, J, Updater(J, I)>>
AGGREGATE(I, J) == <<"AGGREGATE", I, J, Own(J)>>

(* The update named after the first one of rank r: of its factor message.  *)
FirstUpdate(r, I) == UPDATE(I, LowestOf(UpdatesOn(r, I)))

UsersOf(I) == {r \in Rank \ {Own(I)} : UpdatesOn(r, I) # {}}

(* _SEQ_SPECIAL_CASE_: the owner of I has a task per update, another rank  *)
(* one for all its updates.                                                *)
UpdateTasks(I) ==
  {UPDATE(I, J) : J \in UpdatesOn(Own(I), I)}
    \cup {FirstUpdate(r, I) : r \in UsersOf(I)}

FactorTasks == {FACTOR(I) : I \in Sup} \cup UNION {UpdateTasks(I) : I \in Sup}

Sources(r, K) == {I \in Sup : K \in Struct[I] /\ Updater(K, I) = r}

LocalAggregates(K)  == Cardinality(Sources(Own(K), K))

(* Slip: one aggregate per contribution.                                   *)
AggregatesPerSource(K) ==
  Cardinality({I \in Sup : K \in Struct[I] /\ Updater(K, I) # Own(K)})

(* One aggregate per rank, whatever it is made of.                         *)
AggregatesToRecv(K) ==
  Cardinality({r \in Rank \ {Own(K)} : Sources(r, K) # {}})

LocalOf(t) ==
  IF t[1] = "FACTOR" THEN LocalAggregates(t[3])
  ELSE IF RankOf(t) = Own(t[2]) THEN 1 ELSE 0

RemoteOf(t) ==
  IF t[1] = "FACTOR" THEN AggregatesToRecv(t[3])
  ELSE IF RankOf(t) = Own(t[2]) THEN 0 ELSE 1

(* The messages: those of factor I, and the aggregates of K.               *)
FactorMessages(I) == {<<I, FirstUpdate(r, I)>> : r \in UsersOf(I)}

IsAggregate(m) == m[2][1] = "AGGREGATE"
Adder(m)       == Updater(m[2][3], m[2][2])   \* the rank of an aggregate

-----------------------------------------------------------------------------
VARIABLES
  factored,    \* the supernodes factored
  sum,         \* sum[r][K][I]: times the contribution of I is in what r
               \* holds of K, its supernode or its aggregate vector
  todo,        \* todo[r][K]: UpdatesToDo of rank r
  remDealloc,  \* remDealloc[r]: aggregates of r still to be freed
  frees        \* aggregates <<r, K>> whose rpc of DeallocRemote is on its way

factorVars == <<factored, sum, todo, remDealloc, frees>>

Nothing == [I \in Sup |-> 0]

FactorInit ==
  /\ factored = {}
  /\ sum  = [r \in Rank |-> [K \in Sup |-> Nothing]]
  /\ todo = [r \in Rank |-> [K \in Sup |-> Cardinality(Sources(r, K))]]
  /\ remDealloc = [r \in Rank |-> 0] /\ frees = {}

(* The rpc of DeallocRemote: the storage of the aggregate is gone.         *)
FreeAggregate(f) ==
  /\ f \in frees
  /\ frees' = frees \ {f}
  /\ remDealloc' = [remDealloc EXCEPT ![f[1]] = @ - 1]
  /\ sum' = [sum EXCEPT ![f[1]][f[2]] = Nothing]
  /\ UNCHANGED <<runVars, factored, todo>>

(* What an rget reads: a factor is only told to be there.                  *)
FactorData(m) == IF IsAggregate(m) THEN sum[Adder(m)][m[2][3]] ELSE Nothing

-----------------------------------------------------------------------------
(* The bodies of the tasks.                                                *)

(* The factor is announced once per rank; local updates are signalled.     *)
Factor(r, I) ==
  /\ Run(r, FACTOR(I), {UPDATE(I, J) : J \in UpdatesOn(r, I)}, {},
         FactorMessages(I), <<>>)
  /\ factored' = factored \cup {I}
  /\ UNCHANGED <<sum, todo, remDealloc, frees>>

(* Slip: a local update does not stop after its target.                    *)
TargetsFrom(r, I, J) == {K \in UpdatesOn(r, I) : K >= J}

(* The updates a task computes: the owner of I has one task for each.      *)
Targets(r, I, J) ==
  IF r = Own(I) THEN {J} ELSE {K \in UpdatesOn(r, I) : K >= J}

(* Slip: an update too early.                                              *)
AnnouncedEarly(r, K) == todo[r][K] \in {1, 2} /\ Own(K) # r

(* An aggregate is announced with the last update of rank r to it.         *)
Announced(r, K) == todo[r][K] = 1 /\ Own(K) # r

Update(r, I, J) ==
  LET targets == Targets(r, I, J)
      last    == {K \in targets : Announced(r, K)}
  IN
  /\ Run(r, UPDATE(I, J), {FACTOR(K) : K \in {L \in targets : Own(L) = r}},
         {}, {<<I, AGGREGATE(I, K)>> : K \in last}, <<>>)
  /\ sum'  = [sum EXCEPT ![r] = [K \in Sup |->
                IF K \in targets THEN [sum[r][K] EXCEPT ![I] = @ + 1]
                ELSE sum[r][K]]]
  /\ todo' = [todo EXCEPT ![r] = [K \in Sup |->
                IF K \in targets THEN @[K] - 1 ELSE @[K]]]
  /\ remDealloc' = [remDealloc EXCEPT ![r] = @ + Cardinality(last)]
  /\ UNCHANGED <<factored, frees>>

Aggregate(r, I, K) ==
  LET t == AGGREGATE(I, K) IN
  /\ Run(r, t, {}, {FACTOR(K)}, {}, <<>>)
  /\ sum' = [sum EXCEPT ![r][K] = [L \in Sup |-> @[L] + got[<<I, t>>][L]]]
  /\ frees' = frees \cup {<<Updater(K, I), K>>}
  /\ UNCHANGED <<factored, todo, remDealloc>>

FactorTask(r) ==
  \E t \in Mine(r, ready) :
    \/ t[1] = "FACTOR"    /\ Factor(r, t[2])
    \/ t[1] = "UPDATE"    /\ Update(r, t[2], t[3])
    \/ t[1] = "AGGREGATE" /\ Aggregate(r, t[2], t[3])

(* Slip: the rank does not wait for its aggregates to be freed.            *)
NotDrained(r) == remDealloc[r] >= 0

Drained(r) == remDealloc[r] = 0

-----------------------------------------------------------------------------
(* Properties.                                                             *)

(* The supernodes of the owners, with what has been added to them, are     *)
(* those of a factorization: nothing added twice, added to a factored      *)
(* supernode, or missing from one.                                         *)
F == INSTANCE SupernodalFactorization WITH
       added <- [K \in Sup |-> sum[Own(K)][K]]

FactorizationSpec == F!Spec

(* A task waits for exactly what is still to come: FACTOR for the local    *)
(* updates and the remote aggregates that have not been added, UPDATE for  *)
(* its factor.  So the lookups of updateTask find their task.              *)
FactorCountersExact ==
  \A t \in FactorTasks :
    IF t[1] = "FACTOR"
    THEN LET K == t[3]  r == Own(K) IN
         /\ localDeps[t]  = Cardinality({I \in Sources(r, K) : sum[r][K][I] = 0})
         /\ remoteDeps[t] =
              Cardinality({s \in Rank \ {r} :
                             \E I \in Sources(s, K) : sum[r][K][I] = 0})
         /\ t \in graph <=> localDeps[t] + remoteDeps[t] > 0
    ELSE LET I == t[2] IN
         /\ localDeps[t] + remoteDeps[t] = (IF t \in graph THEN 1 ELSE 0)
         /\ t \in graph <=> I \notin factored \/ <<I, t>> \in Pending(RankOf(t))

(* An aggregate is complete when it is announced, and stays as it is until *)
(* its receiver has read it: no update is added to it, and it is not freed.*)
AggregatesFinal ==
  \A r \in Rank : \A m \in Pending(r) :
    IsAggregate(m) =>
      sum[Adder(m)][m[2][3]] =
        [I \in Sup |-> IF I \in Sources(Adder(m), m[2][3]) THEN 1 ELSE 0]

(* A rank that leaves run leaves nothing behind, and the next statement    *)
(* may delete remDealloc: every supernode is factored, every aggregate     *)
(* read and freed, and no rpc for the rank is on its way.                  *)
FactorCleanExit ==
  \A r \in Rank : call[r] > 1 \/ pc[r] = "end" =>
    /\ factored = Sup
    /\ \A t \in graph \cup ready : t[1] \notin FactorKinds
    /\ \A m \in Pending(r) : m[2][1] \notin FactorKinds
    /\ remDealloc[r] = 0 /\ \A f \in frees : f[1] # r
    /\ \A K \in Sup : todo[r][K] = 0 /\ (Own(K) # r => sum[r][K] = Nothing)
=============================================================================
