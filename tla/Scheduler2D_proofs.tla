------------------------- MODULE Scheduler2D_proofs -------------------------
(***************************************************************************)
(* The bookkeeping of the master thread is exact, the cell flags exclude   *)
(* each other, tasks run after their inputs and execute leaves nothing     *)
(* behind, for every task graph, every set of workers and every pattern of *)
(* messages.                                                               *)
(***************************************************************************)
EXTENDS Scheduler2D, Counting

-----------------------------------------------------------------------------
(* Counting reports in the inbox.                                          *)

LEMMA ReportsFinite ==
  ASSUME NEW s \in Seq(Lpc), NEW w
  PROVE  /\ IsFiniteSet(Reports(s, w))
         /\ Cardinality(Reports(s, w)) \in Nat
<1>1. Reports(s, w) \in SUBSET (1..Len(s))
  BY DEF Reports
<1>2. IsFiniteSet(1..Len(s))
  BY FS_Interval
<1> QED
  BY <1>1, <1>2, FS_Subset, FS_CardinalityType

LEMMA LpcTypes ==
  /\ \A t \in Task : DepLpc(t) \in Lpc /\ AvailLpc(t) \in Lpc
  /\ \A w \in Worker, c \in Cell \cup {NoCell} : DoneLpc(w, c) \in Lpc
  BY DEF DepLpc, AvailLpc, DoneLpc, Lpc

LEMMA LpcKinds ==
  ASSUME NEW l \in Lpc
  PROVE  /\ l.kind \in {"dep", "avail"} => l.task \in Task
         /\ l.kind = "done" => l.worker \in Worker /\ l.cell \in Cell \cup {NoCell}
         /\ l.kind \in {"dep", "avail", "done"}
  BY DEF Lpc

LEMMA ReportAdded ==
  ASSUME NEW s \in Seq(Lpc), NEW v \in Worker, NEW c \in Cell \cup {NoCell},
         NEW w
  PROVE  Cardinality(Reports(Append(s, DoneLpc(v, c)), w))
           = Cardinality(Reports(s, w)) + (IF v = w THEN 1 ELSE 0)
<1> DEFINE l == DoneLpc(v, c)
           u == Append(s, l)
<1>1. l \in Lpc /\ l.kind = "done" /\ l.worker = v
  BY LpcTypes DEF DoneLpc
<1>2. /\ u \in Seq(Lpc) /\ Len(s) \in Nat /\ Len(u) = Len(s) + 1
      /\ \A i \in 1..Len(s) : u[i] = s[i]
      /\ u[Len(s) + 1] = l
  BY <1>1, AppendProperties, LenProperties
<1> HIDE DEF l, u
<1>3. CASE v = w
  <2>1. Reports(u, w) = Reports(s, w) \cup {Len(s) + 1}
    BY <1>1, <1>2, <1>3 DEF Reports
  <2>2. Len(s) + 1 \notin Reports(s, w)
    BY <1>2 DEF Reports
  <2> QED
    BY <1>3, <2>1, <2>2, ReportsFinite, FS_AddElement DEF u, l
<1>4. CASE v # w
  <2>1. Reports(u, w) = Reports(s, w)
    BY <1>1, <1>2, <1>4 DEF Reports
  <2> QED
    BY <1>4, <2>1, ReportsFinite DEF u, l
<1> QED
  BY <1>3, <1>4

LEMMA OthersAdded ==
  ASSUME NEW s \in Seq(Lpc), NEW u \in Seq(Lpc), NEW w,
         \A i \in 1..Len(u) : u[i].kind # "done"
  PROVE  Reports(s \o u, w) = Reports(s, w)
<1>1. /\ Len(s) \in Nat /\ Len(u) \in Nat /\ Len(s \o u) = Len(s) + Len(u)
      /\ \A i \in 1..(Len(s) + Len(u)) :
           (s \o u)[i] = IF i <= Len(s) THEN s[i] ELSE u[i - Len(s)]
  BY ConcatProperties, LenProperties
<1>2. ASSUME NEW i \in 1..(Len(s) + Len(u)), i > Len(s)
      PROVE  (s \o u)[i].kind # "done"
  BY <1>1, <1>2
<1> QED
  BY <1>1, <1>2 DEF Reports

LEMMA SignalAdded ==
  ASSUME NEW s \in Seq(Lpc), NEW t \in Task, NEW w
  PROVE  /\ Append(s, DepLpc(t)) \in Seq(Lpc)
         /\ Reports(Append(s, DepLpc(t)), w) = Reports(s, w)
<1>1. DepLpc(t) \in Lpc /\ DepLpc(t).kind # "done"
  BY LpcTypes DEF DepLpc
<1>2. /\ Append(s, DepLpc(t)) \in Seq(Lpc) /\ Len(s) \in Nat
      /\ Len(Append(s, DepLpc(t))) = Len(s) + 1
      /\ \A i \in 1..Len(s) : Append(s, DepLpc(t))[i] = s[i]
      /\ Append(s, DepLpc(t))[Len(s) + 1] = DepLpc(t)
  BY <1>1, AppendProperties, LenProperties
<1> QED
  BY <1>1, <1>2 DEF Reports

(* The oldest lpc leaves: the reports after it move one place.             *)
LEMMA ReportTaken ==
  ASSUME NEW s \in Seq(Lpc), s # <<>>, NEW w
  PROVE  Cardinality(Reports(Tail(s), w))
           = Cardinality(Reports(s, w))
               - (IF Head(s).kind = "done" /\ Head(s).worker = w THEN 1 ELSE 0)
<1> DEFINE A == Reports(Tail(s), w)
           B == Reports(s, w) \ {1}
           f == [i \in A |-> i + 1]
<1>1. /\ Tail(s) \in Seq(Lpc) /\ Len(s) \in Nat /\ Len(s) >= 1
      /\ Len(Tail(s)) = Len(s) - 1
      /\ \A i \in 1..Len(Tail(s)) : Tail(s)[i] = s[i + 1]
      /\ Head(s) = s[1]
  BY HeadTailProperties, LenProperties, EmptySeq
<1>2. A \subseteq Nat /\ B \subseteq Nat
  BY <1>1 DEF Reports
<1>3. \A i \in A : i + 1 \in B
  BY <1>1 DEF Reports
<1>4. \A j \in B : j - 1 \in A
  BY <1>1 DEF Reports
<1> HIDE DEF A, B
<1>5. f \in Bijection(A, B)
  <2>1. f \in [A -> B]
    BY <1>3
  <2>2. \A i, j \in A : f[i] = f[j] => i = j
    BY <1>2
  <2>3. \A j \in B : \E i \in A : f[i] = j
    <3> SUFFICES ASSUME NEW j \in B PROVE \E i \in A : f[i] = j
      OBVIOUS
    <3>1. j - 1 \in A /\ f[j - 1] = j
      BY <1>2, <1>4
    <3> QED
      BY <3>1
  <2> QED
    <3> HIDE DEF f
    <3> QED
      BY <2>1, <2>2, <2>3 DEF Bijection, Injection, Surjection, IsInjective
<1>6. IsFiniteSet(A) /\ Cardinality(B) = Cardinality(A)
  BY <1>1, <1>5, ReportsFinite, FS_Bijection DEF A, ExistsBijection
<1>7. Cardinality(B) = IF 1 \in Reports(s, w) THEN Cardinality(Reports(s, w)) - 1
                       ELSE Cardinality(Reports(s, w))
  BY ReportsFinite, FS_RemoveElement DEF B
<1>8. 1 \in Reports(s, w) <=> Head(s).kind = "done" /\ Head(s).worker = w
  BY <1>1 DEF Reports
<1> QED
  BY <1>6, <1>7, <1>8, ReportsFinite DEF A

-----------------------------------------------------------------------------
(* Types.                                                                  *)

Book == TypeOK /\ HoldsTask /\ FreeListExact /\ LoadExact

LEMMA MsgSeqTypes ==
  ASSUME NEW s \in Seq(Task)
  PROVE  /\ DepLpcs(s) \in Seq(Lpc) /\ AvailLpcs(s) \in Seq(Lpc)
         /\ \A i \in 1..Len(DepLpcs(s)) : DepLpcs(s)[i].kind # "done"
         /\ \A i \in 1..Len(AvailLpcs(s)) : AvailLpcs(s)[i].kind # "done"
<1>1. Len(s) \in Nat /\ \A i \in 1..Len(s) : s[i] \in Task
  BY LenProperties, ElementOfSeq
<1>2. /\ DepLpcs(s) \in [1..Len(s) -> Lpc]
      /\ AvailLpcs(s) \in [1..Len(s) -> Lpc]
  BY <1>1, LpcTypes DEF DepLpcs, AvailLpcs
<1>3. /\ DepLpcs(s) \in Seq(Lpc) /\ AvailLpcs(s) \in Seq(Lpc)
      /\ Len(DepLpcs(s)) = Len(s) /\ Len(AvailLpcs(s)) = Len(s)
  BY <1>1, <1>2, SeqDef, LenProperties
<1>4. \A i \in 1..Len(s) : /\ DepLpcs(s)[i].kind = "dep"
                           /\ AvailLpcs(s)[i].kind = "avail"
  BY DEF DepLpcs, AvailLpcs, DepLpc, AvailLpc
<1> QED
  BY <1>3, <1>4

LEMMA ActivateTypes ==
  ASSUME TypeOK, NEW t \in Task, Activate(t)
  PROVE  /\ ready' \in SUBSET Task /\ inUse' \in [Cell -> BOOLEAN]
         /\ delayed' \in [Cell -> Seq(Task)]
<1>1. LockOf[t] \in Cell \cup {NoCell} /\ NoCell \notin Cell
  BY SchedAssumption
<1>2. CASE Lockable(t) /\ TakeLock(t) /\ ready' = ready \cup {t}
           /\ UNCHANGED delayed
  BY <1>1, <1>2 DEF TakeLock, TypeOK
<1>3. CASE ~Lockable(t) /\ UNCHANGED <<ready, inUse>>
           /\ delayed' = [delayed EXCEPT ![LockOf[t]] = Append(@, t)]
  <2>1. LockOf[t] \in Cell
    BY <1>3 DEF Lockable
  <2>2. Append(delayed[LockOf[t]], t) \in Seq(Task)
    BY <2>1, AppendProperties DEF TypeOK
  <2> QED
    BY <1>3, <2>1, <2>2 DEF TypeOK
<1> QED
  BY <1>2, <1>3 DEF Activate

LEMMA WakeTypes ==
  ASSUME TypeOK, NEW c \in Cell \cup {NoCell}, WakeDelayed(c)
  PROVE  /\ ready' \in SUBSET Task /\ inUse' \in [Cell -> BOOLEAN]
         /\ delayed' \in [Cell -> Seq(Task)]
<1>1. CASE UNCHANGED <<ready, inUse, delayed>>
  BY <1>1 DEF TypeOK
<1>2. CASE /\ c # NoCell /\ delayed[c] # <<>>
           /\ TakeLock(Head(delayed[c]))
           /\ ready' = ready \cup {Head(delayed[c])}
           /\ delayed' = [delayed EXCEPT ![c] = Tail(@)]
  <2>1. Head(delayed[c]) \in Task /\ Tail(delayed[c]) \in Seq(Task)
    BY <1>2, HeadTailProperties DEF TypeOK
  <2>2. LockOf[Head(delayed[c])] \in Cell \cup {NoCell}
    BY <2>1, SchedAssumption
  <2> QED
    BY <1>2, <2>1, <2>2 DEF TypeOK, TakeLock
<1> QED
  BY <1>1, <1>2 DEF WakeDelayed

LEMMA PopTypes ==
  ASSUME TypeOK, inbox # <<>>, PopLpc
  PROVE  /\ inbox' \in Seq(Lpc) /\ burst' \in Nat
         /\ Head(inbox) \in Lpc /\ inbox' = Tail(inbox)
<1>1. inbox' \in Seq(Lpc) /\ Head(inbox) \in Lpc
  BY HeadTailProperties DEF TypeOK, PopLpc
<1> QED
  BY <1>1 DEF PopLpc, TypeOK

-----------------------------------------------------------------------------
(* The counts, when the rings and the workers stay as they are.            *)

Counted(w) == Cardinality(Reports(inbox, w))

LEMMA CountedNat ==
  ASSUME TypeOK, NEW w \in Worker
  PROVE  /\ Counted(w) \in Nat /\ Busy(w) \in 0..1 /\ Len(ring[w]) \in Nat
         /\ load[w] \in 0..RingSize
  BY ReportsFinite, LenProperties DEF TypeOK, Counted, Busy

LEMMA CountsKept ==
  ASSUME Book, UNCHANGED <<free, load, ring, wpc, cur>>,
         \A w \in Worker : Counted(w)' = Counted(w)
  PROVE  HoldsTask' /\ FreeListExact' /\ LoadExact'
<1>1. HoldsTask'
  BY DEF Book, HoldsTask
<1>2. FreeListExact'
  BY DEF Book, FreeListExact, Elems
<1>3. LoadExact'
  BY DEF Book, LoadExact, Busy, Counted
<1> QED
  BY <1>1, <1>2, <1>3

-----------------------------------------------------------------------------
(* The list of free workers.                                               *)

Distinct(s) == \A i, j \in 1..Len(s) : s[i] = s[j] => i = j

LEMMA ListPop ==
  ASSUME NEW s \in Seq(Worker), s # <<>>, Distinct(s)
  PROVE  /\ Tail(s) \in Seq(Worker) /\ Distinct(Tail(s))
         /\ Head(s) \in Worker /\ Head(s) \in Elems(s)
         /\ Elems(Tail(s)) = Elems(s) \ {Head(s)}
<1>1. /\ Tail(s) \in Seq(Worker) /\ Len(s) \in Nat /\ Len(s) >= 1
      /\ Len(Tail(s)) = Len(s) - 1
      /\ \A i \in 1..(Len(s) - 1) : Tail(s)[i] = s[i + 1]
      /\ Head(s) = s[1] /\ Head(s) \in Worker
  BY HeadTailProperties, LenProperties, EmptySeq
<1>2. Distinct(Tail(s))
  BY <1>1 DEF Distinct
<1>3. \A i \in 2..Len(s) : s[i] \in Elems(Tail(s))
  <2> SUFFICES ASSUME NEW i \in 2..Len(s) PROVE s[i] \in Elems(Tail(s))
    OBVIOUS
  <2>1. i - 1 \in 1..Len(Tail(s)) /\ Tail(s)[i - 1] = s[i]
    BY <1>1
  <2> QED
    BY <2>1 DEF Elems
<1>4. Elems(Tail(s)) \subseteq Elems(s) \ {s[1]}
  BY <1>1 DEF Elems, Distinct
<1>5. Elems(s) \ {s[1]} \subseteq Elems(Tail(s))
  BY <1>1, <1>3 DEF Elems
<1>6. Head(s) \in Elems(s)
  BY <1>1 DEF Elems
<1>7. Elems(Tail(s)) = Elems(s) \ {Head(s)}
  BY <1>1, <1>4, <1>5
<1> QED
  BY <1>1, <1>2, <1>6, <1>7

LEMMA ListPush ==
  ASSUME NEW s \in Seq(Worker), NEW w \in Worker, Distinct(s),
         w \notin Elems(s)
  PROVE  /\ Append(s, w) \in Seq(Worker) /\ Distinct(Append(s, w))
         /\ Elems(Append(s, w)) = Elems(s) \cup {w}
<1>1. /\ Append(s, w) \in Seq(Worker) /\ Len(s) \in Nat
      /\ Len(Append(s, w)) = Len(s) + 1
      /\ \A i \in 1..Len(s) : Append(s, w)[i] = s[i]
      /\ Append(s, w)[Len(s) + 1] = w
  BY AppendProperties, LenProperties
<1>2. Distinct(Append(s, w))
  BY <1>1 DEF Distinct, Elems
<1>3. Elems(Append(s, w)) = Elems(s) \cup {w}
  BY <1>1 DEF Elems
<1> QED
  BY <1>1, <1>2, <1>3

-----------------------------------------------------------------------------
(* How often a task is listed in a family of lists.                        *)

Count(t, lists) == Cardinality(Entries(t, lists))

LEMMA EntryShape ==
  ASSUME NEW X, NEW S, NEW f \in [X -> Seq(S)], NEW t
  PROVE  \A e : e \in Entries(t, f) <=>
                  /\ e = <<e[1], e[2]>> /\ e[1] \in X
                  /\ e[2] \in Places(t, f[e[1]])
<1>1. \A x \in X : {i \in DOMAIN f[x] : f[x][i] = t} = Places(t, f[x])
  BY LenProperties DEF Places
<1>2. \A x \in X : \A e : e \in {x} \X Places(t, f[x])
                            <=> e = <<x, e[2]>> /\ e[2] \in Places(t, f[x])
  OBVIOUS
<1>3. Entries(t, f) = UNION {{x} \X Places(t, f[x]) : x \in X}
  BY <1>1 DEF Entries
<1>4. \A e : e \in Entries(t, f) <=> \E x \in X : e \in {x} \X Places(t, f[x])
  BY <1>3
<1> QED
  BY <1>2, <1>4

LEMMA CountType ==
  ASSUME NEW X, IsFiniteSet(X), NEW S, NEW f \in [X -> Seq(S)], NEW t
  PROVE  IsFiniteSet(Entries(t, f)) /\ Count(t, f) \in Nat
<1> DEFINE g == [x \in X |-> {x} \X Places(t, f[x])]
           P == {g[x] : x \in X}
<1>1. IsFiniteSet(P)
  <2>1. DOMAIN g = X /\ g = [x \in X |-> g[x]]
    OBVIOUS
  <2> HIDE DEF g
  <2> QED
    BY <2>1, ImageFinite
<1>2. ASSUME NEW x \in X PROVE IsFiniteSet({x} \X Places(t, f[x]))
  <2>1. IsFiniteSet({x}) /\ IsFiniteSet(Places(t, f[x]))
    BY TimesType, FS_Singleton
  <2> QED
    BY <2>1, FS_Product
<1>3. \A T \in P : IsFiniteSet(T)
  BY <1>2
<1>4. \A e : e \in UNION P => e \in Entries(t, f)
  BY EntryShape
<1>5. \A e : e \in Entries(t, f) => e \in {e[1]} \X Places(t, f[e[1]]) /\ e[1] \in X
  BY EntryShape
<1>6. Entries(t, f) \subseteq UNION P
  BY <1>5
<1> HIDE DEF P
<1>7. IsFiniteSet(UNION P)
  BY <1>1, <1>3, FS_UNION
<1> QED
  BY <1>6, <1>7, FS_Subset, FS_CardinalityType DEF Count

LEMMA CountNone ==
  ASSUME NEW X, IsFiniteSet(X), NEW S, NEW f \in [X -> Seq(S)], NEW t
  PROVE  Count(t, f) = 0 <=> \A x \in X : Times(t, f[x]) = 0
<1>1. Count(t, f) = 0 <=> Entries(t, f) = {}
  BY CountType, FS_EmptySet DEF Count
<1>2. ASSUME NEW x \in X PROVE Times(t, f[x]) = 0 <=> Places(t, f[x]) = {}
  BY TimesType, FS_EmptySet DEF Times
<1>3. ASSUME Entries(t, f) = {}, NEW x \in X PROVE Places(t, f[x]) = {}
  <2> SUFFICES ASSUME NEW i \in Places(t, f[x]) PROVE FALSE
    OBVIOUS
  <2>1. <<x, i>> \in Entries(t, f)
    BY EntryShape
  <2> QED
    BY <1>3, <2>1
<1>4. ASSUME \A x \in X : Places(t, f[x]) = {} PROVE Entries(t, f) = {}
  BY <1>4, EntryShape
<1> QED
  BY <1>1, <1>2, <1>3, <1>4

(* The entries of one list.                                                *)
Elsewhere(t, f, a) == {e \in Entries(t, f) : e[1] # a}

LEMMA CountOne ==
  ASSUME NEW X, IsFiniteSet(X), NEW S, NEW f \in [X -> Seq(S)], NEW t,
         NEW a \in X
  PROVE  /\ Count(t, f) = Times(t, f[a]) + Cardinality(Elsewhere(t, f, a))
         /\ Cardinality(Elsewhere(t, f, a)) \in Nat
         /\ Times(t, f[a]) \in Nat
<1> DEFINE A == {e \in Entries(t, f) : e[1] = a}
           B == Elsewhere(t, f, a)
           P == Places(t, f[a])
           g == [i \in P |-> <<a, i>>]
<1>1. /\ g \in [P -> A]
      /\ \A x, y \in P : g[x] = g[y] => x = y
      /\ \A y \in A : \E x \in P : g[x] = y
  <2>1. \A i \in P : <<a, i>> \in A
    BY EntryShape
  <2>2. \A y \in A : y[2] \in P /\ y = <<a, y[2]>>
    BY EntryShape
  <2> QED
    BY <2>1, <2>2
<1>2. IsFiniteSet(P) /\ Times(t, f[a]) \in Nat
  BY TimesType
<1>3. Entries(t, f) = A \cup B /\ A \cap B = {} /\ IsFiniteSet(Entries(t, f))
  BY CountType DEF Elsewhere
<1> HIDE DEF A, B, g, P
<1>4. Cardinality(A) = Cardinality(P)
  BY <1>1, <1>2, SameCount
<1>5. Cardinality(Entries(t, f)) = Cardinality(A) + Cardinality(B) /\ Cardinality(B) \in Nat
  BY <1>3, SplitCount
<1> QED
  BY <1>2, <1>4, <1>5 DEF Count, Times, B, P

(* One list of tasks changes.                                              *)
OneChanged(X, f, g, a) ==
  /\ IsFiniteSet(X) /\ a \in X
  /\ f \in [X -> Seq(Task)] /\ g \in [X -> Seq(Task)]
  /\ \A x \in X \ {a} : g[x] = f[x]

LEMMA CountChange ==
  ASSUME NEW X, NEW f, NEW g, NEW t, NEW a, OneChanged(X, f, g, a)
  PROVE  /\ Count(t, g) + Times(t, f[a]) = Count(t, f) + Times(t, g[a])
         /\ Count(t, g) \in Nat /\ Count(t, f) \in Nat
         /\ Times(t, f[a]) \in Nat /\ Times(t, g[a]) \in Nat
<1>0. /\ IsFiniteSet(X) /\ a \in X
      /\ f \in [X -> Seq(Task)] /\ g \in [X -> Seq(Task)]
      /\ \A x \in X : x # a => g[x] = f[x]
  BY DEF OneChanged
<1>1. Elsewhere(t, f, a) = Elsewhere(t, g, a)
  <2>1. \A e : e \in Entries(t, f) <=>
                 e = <<e[1], e[2]>> /\ e[1] \in X /\ e[2] \in Places(t, f[e[1]])
    BY <1>0, EntryShape
  <2>2. \A e : e \in Entries(t, g) <=>
                 e = <<e[1], e[2]>> /\ e[1] \in X /\ e[2] \in Places(t, g[e[1]])
    BY <1>0, EntryShape
  <2>3. \A x \in X : x # a => Places(t, f[x]) = Places(t, g[x])
    BY <1>0
  <2> QED
    BY <2>1, <2>2, <2>3 DEF Elsewhere
<1>2. ASSUME NEW h \in [X -> Seq(Task)]
      PROVE  /\ Count(t, h) = Times(t, h[a]) + Cardinality(Elsewhere(t, h, a))
             /\ Cardinality(Elsewhere(t, h, a)) \in Nat
             /\ Times(t, h[a]) \in Nat /\ Count(t, h) \in Nat
  <2>1. Count(t, h) \in Nat
    BY <1>0, CountType
  <2>2. /\ Count(t, h) = Times(t, h[a]) + Cardinality(Elsewhere(t, h, a))
        /\ Cardinality(Elsewhere(t, h, a)) \in Nat
        /\ Times(t, h[a]) \in Nat
    BY <1>0, CountOne
  <2> QED
    BY <2>1, <2>2
<1>3. /\ Count(t, f) = Times(t, f[a]) + Cardinality(Elsewhere(t, f, a))
      /\ Cardinality(Elsewhere(t, f, a)) \in Nat
      /\ Times(t, f[a]) \in Nat /\ Count(t, f) \in Nat
  BY <1>0, <1>2
<1>4. /\ Count(t, g) = Times(t, g[a]) + Cardinality(Elsewhere(t, g, a))
      /\ Times(t, g[a]) \in Nat /\ Count(t, g) \in Nat
  BY <1>0, <1>2
<1> QED
  BY <1>1, <1>3, <1>4

(* Every list of tasks goes to one of two families.                        *)
Divided(X, f, g, h) ==
  /\ IsFiniteSet(X)
  /\ f \in [X -> Seq(Task)] /\ g \in [X -> Seq(Task)] /\ h \in [X -> Seq(Task)]
  /\ \A x \in X : (g[x] = f[x] /\ h[x] = <<>>) \/ (h[x] = f[x] /\ g[x] = <<>>)

LEMMA CountDivide ==
  ASSUME NEW X, NEW f, NEW g, NEW h, NEW t, Divided(X, f, g, h)
  PROVE  /\ Count(t, f) = Count(t, g) + Count(t, h)
         /\ Count(t, g) \in Nat /\ Count(t, h) \in Nat
<1>0. /\ IsFiniteSet(X) /\ f \in [X -> Seq(Task)]
      /\ g \in [X -> Seq(Task)] /\ h \in [X -> Seq(Task)]
  BY DEF Divided
<1>1. Places(t, <<>>) = {}
  BY DEF Places
<1>2. \A e : e \in Entries(t, f) <=>
               e = <<e[1], e[2]>> /\ e[1] \in X /\ e[2] \in Places(t, f[e[1]])
  BY <1>0, EntryShape
<1>3. \A e : e \in Entries(t, g) <=>
               e = <<e[1], e[2]>> /\ e[1] \in X /\ e[2] \in Places(t, g[e[1]])
  BY <1>0, EntryShape
<1>4. \A e : e \in Entries(t, h) <=>
               e = <<e[1], e[2]>> /\ e[1] \in X /\ e[2] \in Places(t, h[e[1]])
  BY <1>0, EntryShape
<1>5. ASSUME NEW x \in X
      PROVE  \/ Places(t, g[x]) = Places(t, f[x]) /\ Places(t, h[x]) = {}
             \/ Places(t, h[x]) = Places(t, f[x]) /\ Places(t, g[x]) = {}
  BY <1>1 DEF Divided
<1>6. Entries(t, f) = Entries(t, g) \cup Entries(t, h)
  <2>1. \A e : e \in Entries(t, f) <=> e \in Entries(t, g) \/ e \in Entries(t, h)
    BY <1>2, <1>3, <1>4, <1>5
  <2> QED
    BY <2>1
<1>7. Entries(t, g) \cap Entries(t, h) = {}
  BY <1>3, <1>4, <1>5
<1>8. IsFiniteSet(Entries(t, f))
  BY <1>0, CountType
<1> QED
  BY <1>6, <1>7, <1>8, SplitCount DEF Count

-----------------------------------------------------------------------------
(* The initial state.                                                      *)

LEMMA DepCounts ==
  ASSUME NEW t
  PROVE  RemoteDeps(t) \in Nat /\ LocalDeps(t) \in Nat
BY SchedAssumption, CountType DEF RemoteDeps, LocalDeps, Count

LEMMA BookInit == Init => Book
<1> SUFFICES ASSUME Init PROVE Book
  OBVIOUS
<1>1. free \in Seq(Worker) /\ Elems(free) = Worker /\ Distinct(free)
  <2>1. Cardinality(Worker) \in Nat
    BY SchedAssumption, FS_CardinalityType
  <2>2. free \in Listings(Worker)
    BY DEF Init
  <2> QED
    BY <2>1, <2>2, SeqDef DEF Listings, Distinct
<1>2. Len(Order) \in Nat
  BY SchedAssumption, LenProperties
<1>3. /\ inCnt \in [Task -> Int] /\ availCnt \in [Task -> Int]
  BY DepCounts DEF Init
<1>4. TypeOK
  <2>1. <<>> \in Seq(Task) /\ <<>> \in Seq(Lpc)
    BY EmptySeq
  <2>2. /\ done \in BOOLEAN /\ inUse \in [Cell -> BOOLEAN]
    BY DEF Init
  <2>3. /\ mpc = "setup" /\ pos \in Nat \ {0} /\ burst \in Nat /\ taskCnt \in Int
        /\ ready \in SUBSET Task /\ avail \in SUBSET Task
    BY <1>2 DEF Init
  <2>4. /\ msg \in [Msg -> {"away", "fetching", "landed"}]
        /\ thens \in [Msg -> Seq(Task)] /\ delayed \in [Cell -> Seq(Task)]
        /\ inbox \in Seq(Lpc)
    BY <2>1 DEF Init
  <2>5. /\ load \in [Worker -> 0..RingSize] /\ ring \in [Worker -> Seq(Task)]
        /\ wpc \in [Worker -> {"get", "check", "run", "signal", "exit"}]
        /\ cur \in [Worker -> Task \cup {None}]
        /\ todo \in [Worker -> Seq(Task)] /\ ran \in [Task -> Nat]
    BY <2>1 DEF Init, RingSize
  <2> QED
    BY <1>1, <1>3, <2>2, <2>3, <2>4, <2>5 DEF TypeOK
<1>5. HoldsTask
  BY SchedAssumption DEF Init, HoldsTask
<1>6. FreeListExact
  BY <1>1 DEF Init, FreeListExact, RingSize, Distinct
<1>7. LoadExact
  <2>1. \A w \in Worker : Reports(<<>>, w) = {}
    BY EmptySeq DEF Reports
  <2>2. \A w \in Worker : Cardinality(Reports(inbox, w)) = 0
    BY <2>1, FS_EmptySet DEF Init
  <2> QED
    BY <2>2, EmptySeq DEF Init, LoadExact, Busy
<1> QED
  BY <1>4, <1>5, <1>6, <1>7 DEF Book

-----------------------------------------------------------------------------
(* The steps of the master thread.                                         *)

LEMMA BookSetup == Book /\ Setup => Book'
<1> SUFFICES ASSUME Book, Setup PROVE Book'
  OBVIOUS
<1>1. TypeOK
  BY DEF Book
<1>2. Order[pos] \in Task
  BY <1>1, SchedAssumption, LenProperties, ElementOfSeq DEF Setup, TypeOK
<1>3. /\ ready' \in SUBSET Task /\ inUse' \in [Cell -> BOOLEAN]
      /\ delayed' \in [Cell -> Seq(Task)]
  BY <1>1, <1>2, ActivateTypes DEF Setup, TypeOK
<1>4. TypeOK'
  BY <1>1, <1>3
     DEF Setup, TypeOK, commVars, poolVars, workerVars
<1>5. HoldsTask' /\ FreeListExact' /\ LoadExact'
  BY CountsKept DEF Setup, poolVars, workerVars, Counted
<1> QED
  BY <1>4, <1>5 DEF Book

LEMMA BookAssign ==
  ASSUME NEW t \in Task
  PROVE  Book /\ Assign(t) => Book'
<1> SUFFICES ASSUME Book, Assign(t) PROVE Book'
  OBVIOUS
<1> DEFINE w == Head(free)
<1>1. TypeOK /\ HoldsTask /\ FreeListExact /\ LoadExact
  BY DEF Book
<1>2. /\ free \in Seq(Worker) /\ free # <<>> /\ Distinct(free)
  BY <1>1 DEF Assign, TypeOK, FreeListExact, Distinct
<1>3. /\ w \in Worker /\ w \in Elems(free)
      /\ Tail(free) \in Seq(Worker) /\ Distinct(Tail(free))
      /\ Elems(Tail(free)) = Elems(free) \ {w}
  BY <1>2, ListPop
<1>4. load[w] \in 0..1
  BY <1>1, <1>3 DEF FreeListExact, TypeOK, RingSize
<1>5. /\ ring[w] \in Seq(Task) /\ Append(ring[w], t) \in Seq(Task)
      /\ Len(ring[w]) \in Nat
      /\ Len(Append(ring[w], t)) = Len(ring[w]) + 1
  BY <1>1, <1>3, AppendProperties, LenProperties DEF TypeOK
<1> HIDE DEF w
<1>6. /\ ring' = [ring EXCEPT ![w] = Append(ring[w], t)]
      /\ load' = [load EXCEPT ![w] = load[w] + 1]
      /\ free' = IF load[w] + 1 = RingSize THEN Tail(free) ELSE free
  BY DEF Assign, FreeAfterAssign, w
<1>7. /\ load' \in [Worker -> 0..RingSize] /\ ring' \in [Worker -> Seq(Task)]
      /\ free' \in Seq(Worker)
  BY <1>1, <1>2, <1>3, <1>4, <1>5, <1>6 DEF TypeOK, RingSize
<1>8. TypeOK'
  <2>1. taskCnt' \in Int /\ ready' \in SUBSET Task
    BY <1>1 DEF Assign, TypeOK
  <2>2. /\ UNCHANGED <<mpc, pos, burst, avail, inCnt, availCnt, msg, thens>>
        /\ UNCHANGED <<inUse, delayed, inbox, wpc, cur, todo, ran, done>>
    BY DEF Assign, commVars, lockVars, workerVars
  <2> QED
    BY <1>1, <1>7, <2>1, <2>2 DEF TypeOK
<1>9. HoldsTask'
  BY <1>1 DEF Assign, HoldsTask, workerVars
<1>10. FreeListExact'
  <2>1. CASE load[w] = 1
    BY <1>1, <1>3, <1>6, <2>1 DEF FreeListExact, TypeOK, RingSize, Distinct
  <2>2. CASE load[w] = 0
    BY <1>1, <1>2, <1>3, <1>6, <2>2 DEF FreeListExact, TypeOK, RingSize,
                                        Distinct
  <2> QED
    BY <1>4, <2>1, <2>2
<1>11. LoadExact'
  <2> SUFFICES ASSUME NEW v \in Worker
               PROVE  load'[v] = Len(ring'[v]) + Busy(v)' + Counted(v)'
    BY DEF LoadExact, Counted
  <2>1. Busy(v)' = Busy(v) /\ Counted(v)' = Counted(v)
    BY DEF Assign, workerVars, Busy, Counted
  <2>2. load[v] = Len(ring[v]) + Busy(v) + Counted(v)
    BY <1>1 DEF LoadExact, Counted
  <2>3. Counted(v) \in Nat /\ Busy(v) \in 0..1 /\ Len(ring[v]) \in Nat
    BY <1>1, CountedNat
  <2>4. CASE v = w
    <3>1. load'[v] = load[v] + 1 /\ Len(ring'[v]) = Len(ring[v]) + 1
      BY <1>1, <1>3, <1>5, <1>6, <2>4 DEF TypeOK
    <3> QED
      BY <2>1, <2>2, <2>3, <3>1
  <2>5. CASE v # w
    <3>1. load'[v] = load[v] /\ ring'[v] = ring[v]
      BY <1>1, <1>3, <1>6, <2>5 DEF TypeOK
    <3> QED
      BY <2>1, <2>2, <2>3, <3>1
  <2> QED
    BY <2>4, <2>5
<1> QED
  BY <1>8, <1>9, <1>10, <1>11 DEF Book

(* The lpc of a signal leaves the counts of reports as they are.           *)
LEMMA SignalHandled ==
  ASSUME TypeOK, inbox # <<>>, Head(inbox).kind # "done", PopLpc
  PROVE  \A w \in Worker : Counted(w)' = Counted(w)
<1> SUFFICES ASSUME NEW w \in Worker PROVE Counted(w)' = Counted(w)
  OBVIOUS
<1>1. inbox \in Seq(Lpc) /\ inbox' = Tail(inbox)
  BY PopTypes DEF TypeOK
<1>2. Cardinality(Reports(Tail(inbox), w)) = Counted(w) - 0
  BY <1>1, ReportTaken DEF Counted
<1> QED
  BY <1>1, <1>2, CountedNat DEF Counted

LEMMA BookHandleDep == Book /\ HandleDep => Book'
<1> SUFFICES ASSUME Book, HandleDep PROVE Book'
  OBVIOUS
<1> DEFINE t == Head(inbox).task
<1>1. TypeOK /\ inbox # <<>> /\ Head(inbox).kind = "dep" /\ PopLpc
  BY DEF Book, HandleDep, NextLpc
<1>2. /\ inbox' \in Seq(Lpc) /\ burst' \in Nat /\ t \in Task
  BY <1>1, PopTypes, LpcKinds
<1>3. /\ ready' \in SUBSET Task /\ inUse' \in [Cell -> BOOLEAN]
      /\ delayed' \in [Cell -> Seq(Task)]
  BY <1>1, <1>2, ActivateTypes DEF HandleDep, TypeOK
<1>4. inCnt' \in [Task -> Int]
  BY <1>1, <1>2 DEF HandleDep, TypeOK
<1>5. TypeOK'
  BY <1>1, <1>2, <1>3, <1>4
     DEF HandleDep, TypeOK, commVars, poolVars, workerVars
<1>6. HoldsTask' /\ FreeListExact' /\ LoadExact'
  BY <1>1, SignalHandled, CountsKept DEF HandleDep, poolVars, workerVars
<1> QED
  BY <1>5, <1>6 DEF Book

LEMMA BookHandleAvail == Book /\ HandleAvail => Book'
<1> SUFFICES ASSUME Book, HandleAvail PROVE Book'
  OBVIOUS
<1> DEFINE t == Head(inbox).task
<1>1. TypeOK /\ inbox # <<>> /\ Head(inbox).kind = "avail" /\ PopLpc
  BY DEF Book, HandleAvail, NextLpc
<1>2. /\ inbox' \in Seq(Lpc) /\ burst' \in Nat /\ t \in Task
  BY <1>1, PopTypes, LpcKinds
<1>3. availCnt' \in [Task -> Int] /\ avail' \in SUBSET Task
  BY <1>1, <1>2 DEF HandleAvail, TypeOK
<1>4. TypeOK'
  BY <1>1, <1>2, <1>3
     DEF HandleAvail, TypeOK, commVars, lockVars, poolVars, workerVars
<1>5. HoldsTask' /\ FreeListExact' /\ LoadExact'
  BY <1>1, SignalHandled, CountsKept DEF HandleAvail, poolVars, workerVars
<1> QED
  BY <1>4, <1>5 DEF Book

LEMMA BookHandleDone == Book /\ HandleDone => Book'
<1> SUFFICES ASSUME Book, HandleDone PROVE Book'
  OBVIOUS
<1> DEFINE w == Head(inbox).worker
<1>1. TypeOK /\ HoldsTask /\ FreeListExact /\ LoadExact
  BY DEF Book
<1>2. inbox # <<>> /\ Head(inbox).kind = "done" /\ PopLpc
  BY DEF HandleDone, NextLpc
<1>3. /\ inbox' \in Seq(Lpc) /\ burst' \in Nat /\ inbox' = Tail(inbox)
      /\ inbox \in Seq(Lpc) /\ Head(inbox) \in Lpc
  BY <1>1, <1>2, PopTypes DEF TypeOK
<1>4. w \in Worker /\ Head(inbox).cell \in Cell \cup {NoCell}
  BY <1>2, <1>3, LpcKinds
<1>5. /\ ready' \in SUBSET Task /\ inUse' \in [Cell -> BOOLEAN]
      /\ delayed' \in [Cell -> Seq(Task)]
  BY <1>1, <1>4, WakeTypes DEF HandleDone
<1>6. /\ load' = [load EXCEPT ![w] = load[w] - 1]
      /\ free' = IF load[w] - 1 = 1 THEN Append(free, w) ELSE free
  BY DEF HandleDone, FreeAfterReport
<1> HIDE DEF w
(* The report handled is one of those counted in the load.                 *)
<1>7. \A v \in Worker :
        Counted(v)' = Counted(v) - (IF v = w THEN 1 ELSE 0)
  BY <1>2, <1>3, ReportTaken DEF Counted, w
<1>8. load[w] \in 1..RingSize
  <2>1. Counted(w) - 1 \in Nat
    BY <1>3, <1>4, <1>7, ReportsFinite DEF Counted
  <2> QED
    BY <1>1, <1>4, <2>1, CountedNat DEF LoadExact, Counted, RingSize
<1>9. free \in Seq(Worker) /\ Distinct(free)
  BY <1>1 DEF TypeOK, FreeListExact, Distinct
<1>10. load' \in [Worker -> 0..RingSize]
  BY <1>1, <1>4, <1>6, <1>8 DEF TypeOK, RingSize
<1>11. FreeListExact' /\ free' \in Seq(Worker)
  <2>1. CASE load[w] = 2
    <3>1. w \notin Elems(free)
      BY <1>1, <1>4, <2>1 DEF FreeListExact, RingSize
    <3>2. /\ free' = Append(free, w) /\ free' \in Seq(Worker)
          /\ Distinct(free') /\ Elems(free') = Elems(free) \cup {w}
      BY <1>4, <1>6, <1>9, <2>1, <3>1, ListPush
    <3> QED
      BY <1>1, <1>4, <1>6, <2>1, <3>2
         DEF FreeListExact, TypeOK, RingSize, Distinct
  <2>2. CASE load[w] = 1
    <3>1. free' = free
      BY <1>6, <2>2
    <3> QED
      BY <1>1, <1>4, <1>6, <1>9, <2>2, <3>1
         DEF FreeListExact, TypeOK, RingSize, Distinct
  <2> QED
    BY <1>8, <2>1, <2>2 DEF RingSize
<1>12. TypeOK'
  <2>1. /\ UNCHANGED <<mpc, pos, taskCnt, avail, inCnt, availCnt, msg, thens>>
        /\ UNCHANGED <<ring, wpc, cur, todo, ran, done>>
    BY DEF HandleDone, commVars, workerVars
  <2> QED
    BY <1>1, <1>3, <1>5, <1>10, <1>11, <2>1 DEF TypeOK
<1>13. HoldsTask'
  BY <1>1 DEF HandleDone, HoldsTask, workerVars
<1>14. LoadExact'
  <2> SUFFICES ASSUME NEW v \in Worker
               PROVE  load'[v] = Len(ring'[v]) + Busy(v)' + Counted(v)'
    BY DEF LoadExact, Counted
  <2>1. Busy(v)' = Busy(v) /\ ring' = ring
    BY DEF HandleDone, workerVars, Busy
  <2>2. load[v] = Len(ring[v]) + Busy(v) + Counted(v)
    BY <1>1 DEF LoadExact, Counted
  <2>3. Counted(v) \in Nat /\ Busy(v) \in 0..1 /\ Len(ring[v]) \in Nat
    BY <1>1, CountedNat
  <2>4. load'[v] = load[v] - (IF v = w THEN 1 ELSE 0)
    BY <1>1, <1>4, <1>6 DEF TypeOK
  <2> QED
    BY <1>7, <2>1, <2>2, <2>3, <2>4
<1> QED
  BY <1>11, <1>12, <1>13, <1>14 DEF Book

(* Lpcs of avail_dep and satisfy_dep posted in a row.                      *)
LEMMA BookPosts ==
  ASSUME Book, NEW u \in Seq(Lpc), \A i \in 1..Len(u) : u[i].kind # "done",
         inbox' = inbox \o u, UNCHANGED <<free, load, ring, wpc, cur>>
  PROVE  /\ HoldsTask' /\ FreeListExact' /\ LoadExact'
         /\ inbox' \in Seq(Lpc)
<1>1. inbox \in Seq(Lpc)
  BY DEF Book, TypeOK
<1>2. \A w \in Worker : Counted(w)' = Counted(w)
  BY <1>1, OthersAdded DEF Counted
<1>3. inbox' \in Seq(Lpc)
  BY <1>1, ConcatProperties
<1> QED
  BY <1>2, <1>3, CountsKept

LEMMA BookDeliver ==
  ASSUME NEW m \in Msg
  PROVE  Book /\ Deliver(m) => Book'
<1> SUFFICES ASSUME Book, Deliver(m) PROVE Book'
  OBVIOUS
<1>1. MsgTo[m] \in Seq(Task)
  BY SchedAssumption
<1>2. /\ HoldsTask' /\ FreeListExact' /\ LoadExact'
      /\ inbox' \in Seq(Lpc)
  BY <1>1, MsgSeqTypes, BookPosts DEF Deliver, poolVars, workerVars
<1>3. TypeOK'
  BY <1>2 DEF Book, Deliver, TypeOK, masterVars, queueVars, lockVars,
              poolVars, workerVars
<1> QED
  BY <1>2, <1>3 DEF Book

LEMMA BookLand ==
  ASSUME NEW m \in Msg
  PROVE  Book /\ Land(m) => Book'
<1> SUFFICES ASSUME Book, Land(m) PROVE Book'
  OBVIOUS
<1>1. thens[m] \in Seq(Task)
  BY DEF Book, TypeOK
<1>2. /\ HoldsTask' /\ FreeListExact' /\ LoadExact'
      /\ inbox' \in Seq(Lpc)
  BY <1>1, MsgSeqTypes, BookPosts DEF Land, poolVars, workerVars
<1>3. thens' \in [Msg -> Seq(Task)]
  BY EmptySeq DEF Book, TypeOK, Land
<1>4. TypeOK'
  BY <1>2, <1>3 DEF Book, Land, TypeOK, masterVars, queueVars, lockVars,
                    poolVars, workerVars
<1> QED
  BY <1>2, <1>4 DEF Book

LEMMA UsesCount ==
  ASSUME NEW t, NEW m \in Msg
  PROVE  /\ Cardinality(UsesOf(t, m)) = Times(t, MsgTo[m])
         /\ Cardinality(UsesOf(t, m)) \in Nat
<1>1. MsgTo[m] \in Seq(Task)
  BY SchedAssumption
<1>2. UsesOf(t, m) = Places(t, MsgTo[m])
  BY <1>1, LenProperties DEF UsesOf, Places
<1> QED
  BY <1>1, <1>2, TimesType DEF Times

LEMMA BookFetch ==
  ASSUME NEW t \in Task
  PROVE  Book /\ Fetch(t) => Book'
<1> SUFFICES ASSUME Book, Fetch(t) PROVE Book'
  OBVIOUS
<1> DEFINE landed == LandedInputs(t)
           u == [i \in 1..Cardinality(landed) |-> DepLpc(t)]
<1>1. Cardinality(landed) \in Nat
  <2>1. landed \in SUBSET Entries(t, MsgTo)
    BY DEF Inputs, LandedInputs
  <2> QED
    BY <2>1, SchedAssumption, CountType, FS_Subset, FS_CardinalityType
<1>2. inbox' = inbox \o u
  BY DEF Fetch
<1> HIDE DEF landed
<1>3. /\ u \in Seq(Lpc) /\ Len(u) = Cardinality(landed)
      /\ \A i \in 1..Len(u) : u[i].kind # "done"
  <2>1. u \in [1..Cardinality(landed) -> Lpc]
    BY LpcTypes
  <2>2. u \in Seq(Lpc) /\ Len(u) = Cardinality(landed)
    BY <1>1, <2>1, SeqDef, LenProperties
  <2> QED
    BY <2>2 DEF DepLpc
<1> HIDE DEF u
<1>4. /\ HoldsTask' /\ FreeListExact' /\ LoadExact'
      /\ inbox' \in Seq(Lpc)
  BY <1>2, <1>3, BookPosts DEF Fetch, poolVars, workerVars
<1>5. thens' \in [Msg -> Seq(Task)] /\ avail' \in SUBSET Task
  <2>1. thens' = [m \in Msg |->
                    IF msg[m] = "fetching"
                    THEN thens[m] \o Repeat(Cardinality(UsesOf(t, m)), t)
                    ELSE thens[m]]
    BY DEF Fetch, Repeat
  <2>2. ASSUME NEW m \in Msg
        PROVE  /\ thens[m] \in Seq(Task)
               /\ thens[m] \o Repeat(Cardinality(UsesOf(t, m)), t) \in Seq(Task)
    <3>1. Cardinality(UsesOf(t, m)) \in Nat
      BY UsesCount
    <3>2. Repeat(Cardinality(UsesOf(t, m)), t) \in Seq(Task)
      BY <3>1, SeqDef DEF Repeat
    <3>3. thens[m] \in Seq(Task)
      BY DEF Book, TypeOK
    <3> QED
      BY <3>2, <3>3, ConcatProperties
  <2>3. thens' \in [Msg -> Seq(Task)]
    BY <2>1, <2>2
  <2> QED
    BY <2>3 DEF Book, TypeOK, Fetch
<1>6. /\ UNCHANGED <<mpc, pos, taskCnt, burst, ready, inCnt, availCnt, msg>>
      /\ UNCHANGED <<inUse, delayed, free, load, ring, wpc, cur, todo, ran>>
      /\ UNCHANGED done
  BY DEF Fetch, masterVars, lockVars, poolVars, workerVars
<1>7. TypeOK'
  BY <1>4, <1>5, <1>6 DEF Book, TypeOK
<1> QED
  BY <1>4, <1>7 DEF Book

(* The steps that only move the master thread.                             *)
MasterMove ==
  \/ StartWorkers \/ EnterProgress \/ LeaveProgress \/ LoopBack
  \/ LeaveLoop \/ SetDone \/ Join \/ Barrier

LEMMA BookMove == Book /\ MasterMove => Book'
<1> SUFFICES ASSUME Book, MasterMove PROVE Book'
  OBVIOUS
<1>1. Len(inbox) \in Nat /\ burst \in Nat
  BY LenProperties DEF Book, TypeOK
<1>2. /\ mpc' \in {"assign", "progress", "comm", "drain", "join", "final",
                   "end"}
      /\ burst' \in Nat
  BY <1>1 DEF MasterMove, StartWorkers, EnterProgress, LeaveProgress, LoopBack,
              LeaveLoop, SetDone, Join, Barrier
<1>3. done' \in BOOLEAN
  BY DEF Book, TypeOK, MasterMove, StartWorkers, EnterProgress, LeaveProgress,
         LoopBack, LeaveLoop, SetDone, Join, Barrier
<1>4. /\ UNCHANGED <<pos, taskCnt, ready, avail, inCnt, availCnt, msg, thens>>
      /\ UNCHANGED <<inUse, delayed, inbox, free, load, ring, wpc, cur, todo>>
      /\ UNCHANGED ran
  BY DEF MasterMove, StartWorkers, EnterProgress, LeaveProgress, LoopBack,
         LeaveLoop, SetDone, Join, Barrier, queueVars, commVars, lockVars,
         poolVars, workerVars
<1>5. TypeOK'
  BY <1>2, <1>3, <1>4 DEF Book, TypeOK
<1>6. \A w \in Worker : Counted(w)' = Counted(w)
  BY <1>4 DEF Counted
<1> QED
  BY <1>4, <1>5, <1>6, CountsKept DEF Book

-----------------------------------------------------------------------------
(* The steps of a worker.                                                  *)

LEMMA BookGet ==
  ASSUME NEW w \in Worker
  PROVE  Book /\ Get(w) => Book'
<1> SUFFICES ASSUME Book, Get(w) PROVE Book'
  OBVIOUS
<1>1. TypeOK /\ HoldsTask /\ FreeListExact /\ LoadExact
  BY DEF Book
<1>2. /\ UNCHANGED <<mpc, pos, taskCnt, burst, ready, avail, inCnt, availCnt>>
      /\ UNCHANGED <<msg, thens, inUse, delayed, inbox, free, load, todo, ran>>
      /\ UNCHANGED done
  BY DEF Get, masterVars, queueVars, commVars, lockVars
<1>3. FreeListExact'
  BY <1>1, <1>2 DEF FreeListExact, Elems
<1>4. \A v \in Worker : Counted(v)' = Counted(v)
  BY <1>2 DEF Counted
<1>5. CASE ring[w] = <<>> /\ wpc' = [wpc EXCEPT ![w] = "check"]
           /\ UNCHANGED <<cur, ring>>
  <2>1. wpc[w] = "get"
    BY DEF Get
  <2>2. TypeOK'
    BY <1>1, <1>2, <1>5 DEF TypeOK
  <2>3. \A v \in Worker : Busy(v)' = Busy(v)
    BY <1>1, <1>5, <2>1 DEF Busy, TypeOK
  <2>4. HoldsTask'
    BY <1>1, <1>5, <2>1 DEF HoldsTask, TypeOK
  <2>5. LoadExact'
    BY <1>1, <1>2, <1>4, <1>5, <2>3 DEF LoadExact, Counted
  <2> QED
    BY <1>3, <2>2, <2>4, <2>5 DEF Book
<1>6. CASE /\ ring[w] # <<>>
           /\ wpc' = [wpc EXCEPT ![w] = "run"]
           /\ cur' = [cur EXCEPT ![w] = Head(ring[w])]
           /\ ring' = [ring EXCEPT ![w] = Tail(@)]
  <2>1. /\ Head(ring[w]) \in Task /\ Tail(ring[w]) \in Seq(Task)
        /\ Len(Tail(ring[w])) = Len(ring[w]) - 1
    BY <1>1, <1>6, HeadTailProperties DEF TypeOK
  <2>2. TypeOK'
    BY <1>1, <1>2, <1>6, <2>1 DEF TypeOK
  <2>3. HoldsTask'
    BY <1>1, <1>6, <2>1 DEF HoldsTask, TypeOK
  <2>4. wpc[w] = "get"
    BY DEF Get
  <2>5. LoadExact'
    <3> SUFFICES ASSUME NEW v \in Worker
                 PROVE  load'[v] = Len(ring'[v]) + Busy(v)' + Counted(v)'
      BY DEF LoadExact, Counted
    <3>1. load[v] = Len(ring[v]) + Busy(v) + Counted(v)
      BY <1>1 DEF LoadExact, Counted
    <3>2. CASE v = w
      <4>1. Busy(v) = 0 /\ Busy(v)' = 1
        BY <1>1, <1>6, <2>4, <3>2 DEF Busy, TypeOK
      <4>2. ring'[v] = Tail(ring[v])
        BY <1>1, <1>6, <3>2 DEF TypeOK
      <4> QED
        BY <1>1, <1>2, <1>4, <2>1, <3>1, <3>2, <4>1, <4>2, CountedNat
    <3>3. CASE v # w
      <4>1. Busy(v)' = Busy(v) /\ ring'[v] = ring[v]
        BY <1>1, <1>6, <3>3 DEF Busy, TypeOK
      <4> QED
        BY <1>2, <1>4, <3>1, <4>1
    <3> QED
      BY <3>2, <3>3
  <2> QED
    BY <1>3, <2>2, <2>3, <2>5 DEF Book
<1> QED
  BY <1>5, <1>6 DEF Get

LEMMA BookCheck ==
  ASSUME NEW w \in Worker
  PROVE  Book /\ Check(w) => Book'
<1> SUFFICES ASSUME Book, Check(w) PROVE Book'
  OBVIOUS
<1>1. TypeOK /\ HoldsTask /\ FreeListExact /\ LoadExact
  BY DEF Book
<1>2. /\ UNCHANGED <<mpc, pos, taskCnt, burst, ready, avail, inCnt, availCnt>>
      /\ UNCHANGED <<msg, thens, inUse, delayed, inbox, free, load, ring, cur>>
      /\ UNCHANGED <<todo, ran, done>>
  BY DEF Check, masterVars, queueVars, commVars, lockVars, poolVars
<1>3. /\ wpc[w] = "check"
      /\ \E q \in {"exit", "get"} : wpc' = [wpc EXCEPT ![w] = q]
  BY DEF Check
<1>4. TypeOK'
  BY <1>1, <1>2, <1>3 DEF TypeOK
<1>5. HoldsTask'
  BY <1>1, <1>2, <1>3 DEF HoldsTask, TypeOK
<1>6. \A v \in Worker : Busy(v)' = Busy(v) /\ Counted(v)' = Counted(v)
  BY <1>1, <1>2, <1>3 DEF Busy, Counted, TypeOK
<1>7. FreeListExact' /\ LoadExact'
  BY <1>1, <1>2, <1>6 DEF FreeListExact, Elems, LoadExact, Counted
<1> QED
  BY <1>4, <1>5, <1>7 DEF Book

LEMMA BookRun ==
  ASSUME NEW w \in Worker
  PROVE  Book /\ Run(w) => Book'
<1> SUFFICES ASSUME Book, Run(w) PROVE Book'
  OBVIOUS
<1> DEFINE t == cur[w]
<1>1. TypeOK /\ HoldsTask /\ FreeListExact /\ LoadExact
  BY DEF Book
<1>2. /\ UNCHANGED <<mpc, pos, taskCnt, burst, ready, avail, inCnt, availCnt>>
      /\ UNCHANGED <<msg, thens, delayed, inbox, free, load, ring, cur, done>>
  BY DEF Run, masterVars, queueVars, commVars, poolVars
<1>3. t \in Task /\ wpc[w] = "run" /\ wpc' = [wpc EXCEPT ![w] = "signal"]
  BY <1>1 DEF Run, HoldsTask
<1>4. LockOf[t] \in Cell \cup {NoCell} /\ Out[t] \in Seq(Task)
  BY <1>3, SchedAssumption
<1>5. inUse' \in [Cell -> BOOLEAN]
  BY <1>1, <1>4 DEF Run, TypeOK
<1>6. todo' \in [Worker -> Seq(Task)] /\ ran' \in [Task -> Nat]
  BY <1>1, <1>3, <1>4 DEF Run, TypeOK
<1>7. TypeOK'
  BY <1>1, <1>2, <1>3, <1>5, <1>6 DEF TypeOK
<1>8. HoldsTask'
  BY <1>1, <1>2, <1>3 DEF HoldsTask, TypeOK
<1>9. \A v \in Worker : Busy(v)' = Busy(v) /\ Counted(v)' = Counted(v)
  BY <1>1, <1>2, <1>3 DEF Busy, Counted, TypeOK
<1>10. FreeListExact' /\ LoadExact'
  BY <1>1, <1>2, <1>9 DEF FreeListExact, Elems, LoadExact, Counted
<1> QED
  BY <1>7, <1>8, <1>10 DEF Book

LEMMA BookSignal ==
  ASSUME NEW w \in Worker
  PROVE  Book /\ Signal(w) => Book'
<1> SUFFICES ASSUME Book, Signal(w) PROVE Book'
  OBVIOUS
<1>1. TypeOK /\ todo[w] # <<>>
  BY DEF Book, Signal
<1>2. /\ UNCHANGED <<mpc, pos, taskCnt, burst, ready, avail, inCnt, availCnt>>
      /\ UNCHANGED <<msg, thens, inUse, delayed, free, load, ring, wpc, cur>>
      /\ UNCHANGED <<ran, done>>
  BY DEF Signal, masterVars, queueVars, commVars, lockVars, poolVars
<1>3. Head(todo[w]) \in Task /\ Tail(todo[w]) \in Seq(Task)
  BY <1>1, HeadTailProperties DEF TypeOK
<1>4. todo' \in [Worker -> Seq(Task)]
  BY <1>1, <1>3 DEF Signal, TypeOK
<1>5. /\ inbox' \in Seq(Lpc)
      /\ \A v \in Worker : Counted(v)' = Counted(v)
  BY <1>1, <1>3, SignalAdded DEF Signal, TypeOK, Counted
<1>6. TypeOK'
  BY <1>1, <1>2, <1>4, <1>5 DEF TypeOK
<1> QED
  BY <1>2, <1>5, <1>6, CountsKept DEF Book

LEMMA BookReport ==
  ASSUME NEW w \in Worker
  PROVE  Book /\ Report(w) => Book'
<1> SUFFICES ASSUME Book, Report(w) PROVE Book'
  OBVIOUS
<1> DEFINE c == LockOf[cur[w]]
<1>1. TypeOK /\ HoldsTask /\ FreeListExact /\ LoadExact
  BY DEF Book
<1>2. /\ UNCHANGED <<mpc, pos, taskCnt, burst, ready, avail, inCnt, availCnt>>
      /\ UNCHANGED <<msg, thens, inUse, delayed, free, load, ring, todo, ran>>
      /\ UNCHANGED done
  BY DEF Report, masterVars, queueVars, commVars, lockVars, poolVars
<1>3. /\ wpc[w] = "signal" /\ wpc' = [wpc EXCEPT ![w] = "get"]
      /\ cur' = [cur EXCEPT ![w] = None]
      /\ inbox' = Append(inbox, DoneLpc(w, c))
  BY DEF Report, PostDone
<1>4. c \in Cell \cup {NoCell}
  BY <1>1, <1>3, SchedAssumption DEF HoldsTask
<1> HIDE DEF c
<1>5. inbox' \in Seq(Lpc)
  BY <1>1, <1>3, <1>4, LpcTypes, AppendProperties DEF TypeOK
<1>6. \A v \in Worker :
        Counted(v)' = Counted(v) + (IF v = w THEN 1 ELSE 0)
  BY <1>1, <1>3, <1>4, ReportAdded DEF TypeOK, Counted
<1>7. TypeOK'
  BY <1>1, <1>2, <1>3, <1>5 DEF TypeOK
<1>8. HoldsTask'
  BY <1>1, <1>3, SchedAssumption DEF HoldsTask, TypeOK
<1>9. FreeListExact'
  BY <1>1, <1>2 DEF FreeListExact, Elems
<1>10. LoadExact'
  <2> SUFFICES ASSUME NEW v \in Worker
               PROVE  load'[v] = Len(ring'[v]) + Busy(v)' + Counted(v)'
    BY DEF LoadExact, Counted
  <2>1. Busy(v)' = Busy(v) - (IF v = w THEN 1 ELSE 0)
    BY <1>1, <1>3 DEF Busy, TypeOK
  <2>2. load[v] = Len(ring[v]) + Busy(v) + Counted(v)
    BY <1>1 DEF LoadExact, Counted
  <2> QED
    BY <1>1, <1>2, <1>6, <2>1, <2>2, CountedNat
<1> QED
  BY <1>7, <1>8, <1>9, <1>10 DEF Book

-----------------------------------------------------------------------------
LEMMA BookNext == Book /\ [Next]_vars => Book'
<1> SUFFICES ASSUME Book, [Next]_vars PROVE Book'
  OBVIOUS
<1>1. CASE MasterStep
  BY <1>1, BookSetup, BookAssign, BookHandleDep, BookHandleAvail,
     BookHandleDone, BookFetch, BookMove DEF MasterStep, Handle, MasterMove
<1>2. CASE \E m \in Msg : Deliver(m) \/ Land(m)
  BY <1>2, BookDeliver, BookLand
<1>3. CASE \E w \in Worker : Work(w)
  BY <1>3, BookGet, BookCheck, BookRun, BookSignal, BookReport DEF Work
<1>4. CASE UNCHANGED vars
  <2>1. /\ UNCHANGED <<mpc, pos, taskCnt, burst, ready, avail, inCnt>>
        /\ UNCHANGED <<availCnt, msg, thens, inUse, delayed, inbox, free>>
        /\ UNCHANGED <<load, ring, wpc, cur, todo, ran, done>>
    BY <1>4 DEF vars, masterVars, queueVars, commVars, lockVars, poolVars,
                workerVars
  <2>2. TypeOK'
    BY <2>1 DEF Book, TypeOK
  <2> QED
    BY <2>1, <2>2, CountsKept DEF Book, Counted
<1> QED
  BY <1>1, <1>2, <1>3, <1>4 DEF Next, Terminated

(* Every variable of the scheduler stays within its type.                  *)
THEOREM TypeCorrect == Spec => []TypeOK
<1>1. Book => TypeOK
  BY DEF Book
<1> QED
  BY <1>1, BookInit, BookNext, PTL DEF Spec

(* The assertions of assignWork and of the workers' lpc hold: the list of  *)
(* free workers is exact.                                                  *)
THEOREM FreeListCorrect == Spec => []FreeListExact
<1>1. Book => FreeListExact
  BY DEF Book
<1> QED
  BY <1>1, BookInit, BookNext, PTL DEF Spec

(* worker_loads_ is exact: no load goes below zero, no ring overflows.     *)
THEOREM LoadCorrect == Spec => []LoadExact
<1>1. Book => LoadExact
  BY DEF Book
<1> QED
  BY <1>1, BookInit, BookNext, PTL DEF Spec

-----------------------------------------------------------------------------
(* The flags of the cells: each is set exactly while one task holds it,    *)
(* two workers never compute into one cell, and a delayed task is always   *)
(* owed a wake-up.                                                         *)


(* What the steps that move no task have in common.                        *)
LEMMA HoldersKept ==
  ASSUME LockHeld, UNCHANGED <<ready, inUse, ring, wpc, cur>>
  PROVE  LockHeld'
  BY DEF LockHeld, CellHeld, AtMostOne, InReady, InRing, Computing

(* A task enters ready_tasks with the flag it has just taken: nobody held  *)
(* that flag.                                                              *)
LEMMA TakenByOne ==
  ASSUME TypeOK, LockHeld, NEW t \in Task, Lockable(t), TakeLock(t),
         ready' = ready \cup {t}, UNCHANGED <<ring, wpc, cur>>
  PROVE  LockHeld'
<1> SUFFICES ASSUME NEW c \in Cell
             PROVE  CellHeld(c)'
  BY DEF LockHeld
<1>1. InRing(c)' = InRing(c) /\ Computing(c)' = Computing(c)
  BY DEF InRing, Computing
<1>2. CellHeld(c)
  BY DEF LockHeld
<1>3. CASE LockOf[t] = c
  <2>1. ~inUse[c] /\ inUse'[c]
    BY <1>3, SchedAssumption DEF Lockable, TakeLock, TypeOK
  <2>2. InReady(c) = {} /\ InRing(c) = {} /\ Computing(c) = {}
    BY <1>2, <2>1 DEF CellHeld
  <2>3. InReady(c)' = {t}
    BY <1>3, <2>2 DEF InReady
  <2> QED
    BY <1>1, <2>1, <2>2, <2>3 DEF CellHeld, AtMostOne
<1>4. CASE LockOf[t] # c
  <2>1. inUse'[c] = inUse[c]
    BY <1>4 DEF TakeLock, TypeOK
  <2>2. InReady(c)' = InReady(c)
    BY <1>4 DEF InReady
  <2> QED
    BY <1>1, <1>2, <2>1, <2>2 DEF CellHeld, AtMostOne
<1> QED
  BY <1>3, <1>4

(* A task goes from ready_tasks to a ring.                                 *)
LEMMA HoldersAssign ==
  ASSUME NEW t \in Task, Book, LockHeld, Assign(t)
  PROVE  LockHeld'
<1> DEFINE w == Head(free)
           n == Len(ring[w]) + 1
<1>1. TypeOK
  BY DEF Book
<1>2. w \in Worker
  BY <1>1, HeadTailProperties DEF Assign, TypeOK
<1>3. /\ Len(ring[w]) \in Nat /\ n \in 1..RingSize
      /\ ring'[w] = Append(ring[w], t) /\ Len(ring'[w]) = n
      /\ \A i \in 1..Len(ring[w]) : ring'[w][i] = ring[w][i]
      /\ ring'[w][n] = t
      /\ \A v \in Worker : v # w => ring'[v] = ring[v]
  <2>1. ring[w] \in Seq(Task) /\ ring'[w] = Append(ring[w], t)
    BY <1>1, <1>2 DEF Assign, TypeOK
  <2>2. \A v \in Worker : v # w => ring'[v] = ring[v]
    BY <1>1, <1>2 DEF Assign, TypeOK
  <2>3. Len(ring[w]) < RingSize /\ Len(ring[w]) \in Nat
    BY <2>1, LenProperties DEF Assign
  <2>4. /\ Len(Append(ring[w], t)) = n /\ Append(ring[w], t)[n] = t
        /\ \A i \in 1..Len(ring[w]) : Append(ring[w], t)[i] = ring[w][i]
    BY <2>1, AppendProperties
  <2> QED
    BY <2>1, <2>2, <2>3, <2>4 DEF RingSize
<1> HIDE DEF w, n
<1>4. /\ t \in ready /\ ready' = ready \ {t}
      /\ UNCHANGED <<inUse, wpc, cur>>
  BY DEF Assign, Top, lockVars, workerVars
<1> SUFFICES ASSUME NEW c \in Cell PROVE CellHeld(c)'
  BY DEF LockHeld
<1>5. CellHeld(c) /\ Computing(c)' = Computing(c)
  BY <1>4 DEF LockHeld, Computing
<1>6. CASE LockOf[t] = c
  <2>1. t \in InReady(c) /\ InReady(c)' = {}
    BY <1>4, <1>5, <1>6 DEF InReady, CellHeld, AtMostOne
  <2>2. InRing(c) = {} /\ Computing(c) = {} /\ inUse[c]
    BY <1>5, <2>1 DEF CellHeld
  <2>3. InRing(c)' = {<<w, n>>}
    <3>1. <<w, n>> \in InRing(c)'
      BY <1>2, <1>3, <1>6 DEF InRing
    <3>2. ASSUME NEW v \in Worker, NEW i \in 1..RingSize,
                 <<v, i>> \in InRing(c)'
          PROVE  v = w /\ i = n
      <4>1. i <= Len(ring'[v]) /\ LockOf[ring'[v][i]] = c
        BY <3>2 DEF InRing
      <4>2. ~(i <= Len(ring[v]) /\ LockOf[ring[v][i]] = c)
        <5>1. <<v, i>> \notin InRing(c)
          BY <2>2
        <5> QED
          BY <5>1 DEF InRing
      <4>3. v = w
        BY <1>3, <4>1, <4>2
      <4> QED
        BY <1>3, <4>1, <4>2, <4>3
    <3> QED
      BY <3>1, <3>2 DEF InRing
  <2> QED
    BY <1>4, <1>5, <2>1, <2>2, <2>3 DEF CellHeld, AtMostOne
<1>7. CASE LockOf[t] # c
  <2>1. InReady(c)' = InReady(c)
    BY <1>4, <1>7 DEF InReady
  <2>2. InRing(c)' = InRing(c)
    <3>1. ASSUME NEW v \in Worker, NEW i \in 1..RingSize
          PROVE  (i <= Len(ring'[v]) /\ LockOf[ring'[v][i]] = c)
                   <=> (i <= Len(ring[v]) /\ LockOf[ring[v][i]] = c)
      BY <1>3, <1>7
    <3> QED
      BY <3>1 DEF InRing
  <2> QED
    BY <1>4, <1>5, <2>1, <2>2 DEF CellHeld, AtMostOne
<1> QED
  BY <1>6, <1>7

(* A worker takes the oldest task of its ring.                             *)
LEMMA HoldersGet ==
  ASSUME NEW w \in Worker, Book, LockHeld, Get(w), ring[w] # <<>>
  PROVE  LockHeld'
<1> DEFINE t == Head(ring[w])
<1>1. TypeOK /\ wpc[w] = "get"
  BY DEF Book, Get
<1>2. ring[w] \in Seq(Task)
  BY <1>1 DEF TypeOK
<1>3. /\ wpc' = [wpc EXCEPT ![w] = "run"] /\ cur' = [cur EXCEPT ![w] = t]
      /\ ring' = [ring EXCEPT ![w] = Tail(ring[w])]
      /\ UNCHANGED <<ready, inUse>>
  BY DEF Get, queueVars, lockVars
<1>4. /\ Len(ring[w]) \in Nat /\ Len(ring[w]) >= 1 /\ t = ring[w][1]
      /\ ring'[w] = Tail(ring[w]) /\ Len(ring'[w]) = Len(ring[w]) - 1
      /\ \A i \in 1..(Len(ring[w]) - 1) : ring'[w][i] = ring[w][i + 1]
      /\ \A v \in Worker : v # w => ring'[v] = ring[v]
  BY <1>1, <1>2, <1>3, HeadTailProperties, LenProperties, EmptySeq DEF TypeOK
<1>5. /\ wpc'[w] = "run" /\ cur'[w] = t
      /\ \A v \in Worker : v # w => wpc'[v] = wpc[v] /\ cur'[v] = cur[v]
  BY <1>1, <1>3 DEF TypeOK
<1>6. Len(ring[w]) <= RingSize
  BY <1>1, <1>4, CountedNat DEF Book, LoadExact, Counted, RingSize
<1>7. ASSUME NEW i \in 1..RingSize, i <= Len(ring'[w])
       PROVE  /\ i + 1 \in 1..RingSize /\ i + 1 <= Len(ring[w])
              /\ ring'[w][i] = ring[w][i + 1]
  <2>1. i \in 1..(Len(ring[w]) - 1)
    BY <1>4, <1>7
  <2>2. ring'[w][i] = ring[w][i + 1]
    BY <1>4, <2>1
  <2> QED
    BY <1>4, <1>6, <2>1, <2>2 DEF RingSize
<1> HIDE DEF t
<1> SUFFICES ASSUME NEW c \in Cell PROVE CellHeld(c)'
  BY DEF LockHeld
<1>8. CellHeld(c) /\ InReady(c)' = InReady(c)
  BY <1>3 DEF LockHeld, InReady
<1>9. CASE LockOf[t] = c
  <2>1. <<w, 1>> \in InRing(c)
    BY <1>4, <1>9 DEF InRing, RingSize
  <2>2. InReady(c) = {} /\ Computing(c) = {} /\ inUse[c]
    BY <1>8, <2>1 DEF CellHeld
  <2>3. \A v \in Worker, i \in 1..RingSize :
          i <= Len(ring[v]) /\ LockOf[ring[v][i]] = c => v = w /\ i = 1
    <3> SUFFICES ASSUME NEW v \in Worker, NEW i \in 1..RingSize,
                        i <= Len(ring[v]), LockOf[ring[v][i]] = c
                 PROVE  v = w /\ i = 1
      OBVIOUS
    <3>1. <<v, i>> \in InRing(c)
      BY DEF InRing
    <3>2. <<v, i>> = <<w, 1>>
      BY <1>8, <2>1, <3>1 DEF CellHeld, AtMostOne
    <3> QED
      BY <3>2
  <2>4. InRing(c)' = {}
    <3> SUFFICES ASSUME NEW v \in Worker, NEW i \in 1..RingSize,
                        i <= Len(ring'[v]), LockOf[ring'[v][i]] = c
                 PROVE  FALSE
      BY DEF InRing
    <3>1. CASE v # w
      BY <1>4, <2>3, <3>1
    <3>2. CASE v = w
      <4>1. /\ i + 1 \in 1..RingSize /\ i + 1 <= Len(ring[w])
            /\ LockOf[ring[w][i + 1]] = c
        BY <1>7, <3>2
      <4> QED
        BY <2>3, <4>1
    <3> QED
      BY <3>1, <3>2
  <2>5. Computing(c)' = {w}
    BY <1>5, <1>9, <2>2 DEF Computing
  <2> QED
    BY <1>3, <1>8, <2>2, <2>4, <2>5 DEF CellHeld, AtMostOne
<1>10. CASE LockOf[t] # c
  <2>1. Computing(c)' = Computing(c)
    BY <1>1, <1>5, <1>10 DEF Computing
  <2>2. ASSUME NEW v \in Worker, NEW i \in 1..RingSize,
               i <= Len(ring'[v]), LockOf[ring'[v][i]] = c
        PROVE  \/ v # w /\ <<v, i>> \in InRing(c)
               \/ v = w /\ <<w, i + 1>> \in InRing(c)
    <3>1. CASE v # w
      BY <1>4, <2>2, <3>1 DEF InRing
    <3>2. CASE v = w
      <4>1. /\ i + 1 \in 1..RingSize /\ i + 1 <= Len(ring[w])
            /\ LockOf[ring[w][i + 1]] = c
        BY <1>7, <2>2, <3>2
      <4> QED
        BY <3>2, <4>1 DEF InRing
    <3> QED
      BY <3>1, <3>2
  <2>3. ASSUME InRing(c) # {} PROVE InRing(c)' # {}
    <3>1. PICK v \in Worker, i \in 1..RingSize :
            i <= Len(ring[v]) /\ LockOf[ring[v][i]] = c
      BY <2>3 DEF InRing
    <3>2. CASE v # w
      <4>1. <<v, i>> \in InRing(c)'
        BY <1>4, <3>1, <3>2 DEF InRing
      <4> QED
        BY <4>1
    <3>3. CASE v = w
      <4>1. /\ i - 1 \in 1..RingSize /\ i - 1 <= Len(ring'[w])
            /\ LockOf[ring'[w][i - 1]] = c
        BY <1>4, <1>10, <3>1, <3>3 DEF RingSize
      <4>2. <<w, i - 1>> \in InRing(c)'
        BY <4>1 DEF InRing
      <4> QED
        BY <4>2
    <3> QED
      BY <3>2, <3>3
  <2>4. InRing(c)' # {} => InRing(c) # {}
    <3> SUFFICES ASSUME InRing(c)' # {} PROVE InRing(c) # {}
      OBVIOUS
    <3>1. PICK v \in Worker, i \in 1..RingSize :
            i <= Len(ring'[v]) /\ LockOf[ring'[v][i]] = c
      BY DEF InRing
    <3> QED
      BY <2>2, <3>1
  <2>5. AtMostOne(InRing(c)')
    <3> SUFFICES ASSUME NEW u \in Worker, NEW i \in 1..RingSize,
                        NEW v \in Worker, NEW j \in 1..RingSize,
                        i <= Len(ring'[u]), LockOf[ring'[u][i]] = c,
                        j <= Len(ring'[v]), LockOf[ring'[v][j]] = c
                 PROVE  u = v /\ i = j
      BY DEF InRing, AtMostOne
    <3>1. \A x, y \in InRing(c) : x = y
      BY <1>8 DEF CellHeld, AtMostOne
    <3>2. \/ u # w /\ <<u, i>> \in InRing(c)
          \/ u = w /\ <<w, i + 1>> \in InRing(c)
      BY <2>2
    <3>3. \/ v # w /\ <<v, j>> \in InRing(c)
          \/ v = w /\ <<w, j + 1>> \in InRing(c)
      BY <2>2
    <3> QED
      BY <3>1, <3>2, <3>3
  <2> QED
    BY <1>3, <1>8, <2>1, <2>3, <2>4, <2>5 DEF CellHeld, AtMostOne
<1> QED
  BY <1>9, <1>10

(* A computation ends and frees the cell.                                  *)
LEMMA HoldersRun ==
  ASSUME NEW w \in Worker, Book, LockHeld, Run(w)
  PROVE  LockHeld'
<1> DEFINE t == cur[w]
<1>1. TypeOK /\ wpc[w] = "run" /\ t \in Task
  BY DEF Book, Run, HoldsTask
<1>2. /\ wpc' = [wpc EXCEPT ![w] = "signal"]
      /\ inUse' = IF LockOf[t] = NoCell THEN inUse
                  ELSE [inUse EXCEPT ![LockOf[t]] = FALSE]
      /\ UNCHANGED <<ready, ring, cur>>
  BY DEF Run, queueVars, poolVars
<1> SUFFICES ASSUME NEW c \in Cell PROVE CellHeld(c)'
  BY DEF LockHeld
<1>3. /\ CellHeld(c) /\ InReady(c)' = InReady(c) /\ InRing(c)' = InRing(c)
      /\ Computing(c)' = Computing(c) \ {w}
  BY <1>1, <1>2 DEF LockHeld, InReady, InRing, Computing, TypeOK
<1>4. CASE LockOf[t] = c
  <2>1. ~inUse'[c]
    BY <1>1, <1>2, <1>4, SchedAssumption DEF TypeOK
  <2>2. w \in Computing(c)
    BY <1>1, <1>4 DEF Computing
  <2> QED
    BY <1>3, <2>1, <2>2 DEF CellHeld, AtMostOne
<1>5. CASE LockOf[t] # c
  <2>1. inUse'[c] = inUse[c]
    BY <1>1, <1>2, <1>5 DEF TypeOK
  <2>2. w \notin Computing(c)
    BY <1>5 DEF Computing
  <2> QED
    BY <1>3, <2>1, <2>2 DEF CellHeld, AtMostOne
<1> QED
  BY <1>4, <1>5

(* A worker that was not computing and does not start to.                  *)
LEMMA HoldersElsewhere ==
  ASSUME NEW w \in Worker, TypeOK, LockHeld, wpc[w] # "run",
         UNCHANGED <<ready, inUse, ring>>,
         wpc'[w] # "run",
         \A v \in Worker : v # w => wpc'[v] = wpc[v] /\ cur'[v] = cur[v]
  PROVE  LockHeld'
<1> SUFFICES ASSUME NEW c \in Cell PROVE CellHeld(c)'
  BY DEF LockHeld
<1>1. /\ InReady(c)' = InReady(c) /\ InRing(c)' = InRing(c)
      /\ Computing(c)' = Computing(c)
  BY DEF InReady, InRing, Computing
<1> QED
  BY <1>1 DEF LockHeld, CellHeld, AtMostOne

LEMMA HoldersActivate ==
  ASSUME NEW t \in Task, TypeOK, LockHeld, Activate(t),
         UNCHANGED <<ring, wpc, cur>>
  PROVE  LockHeld'
  BY TakenByOne, HoldersKept DEF Activate

LEMMA HoldersWake ==
  ASSUME NEW c \in Cell \cup {NoCell}, TypeOK, LockHeld, WakeDelayed(c),
         UNCHANGED <<ring, wpc, cur>>
  PROVE  LockHeld'
<1>1. CASE UNCHANGED <<ready, inUse, delayed>>
  BY <1>1, HoldersKept
<1>2. CASE /\ c # NoCell /\ delayed[c] # <<>>
           /\ Lockable(Head(delayed[c])) /\ TakeLock(Head(delayed[c]))
           /\ ready' = ready \cup {Head(delayed[c])}
  <2>1. Head(delayed[c]) \in Task
    BY <1>2, HeadTailProperties DEF TypeOK
  <2> QED
    BY <1>2, <2>1, TakenByOne
<1> QED
  BY <1>1, <1>2 DEF WakeDelayed

LEMMA LockHeldNext == Book /\ LockHeld /\ [Next]_vars => LockHeld'
<1> SUFFICES ASSUME Book, LockHeld, [Next]_vars PROVE LockHeld'
  OBVIOUS
<1>1. TypeOK
  BY DEF Book
<1>2. CASE Setup
  <2>1. Order[pos] \in Task
    BY <1>1, <1>2, SchedAssumption, LenProperties, ElementOfSeq
       DEF Setup, TypeOK
  <2>2. UNCHANGED <<ring, wpc, cur>>
    BY <1>2 DEF Setup, poolVars, workerVars
  <2> QED
    BY <1>1, <1>2, <2>1, <2>2, HoldersActivate, HoldersKept DEF Setup
<1>3. CASE HandleDep
  <2>1. Head(inbox).task \in Task
    BY <1>1, <1>3, PopTypes, LpcKinds DEF HandleDep, NextLpc
  <2>2. UNCHANGED <<ring, wpc, cur>>
    BY <1>3 DEF HandleDep, poolVars, workerVars
  <2> QED
    BY <1>1, <1>3, <2>1, <2>2, HoldersActivate, HoldersKept DEF HandleDep
<1>4. CASE HandleDone
  <2>1. Head(inbox).cell \in Cell \cup {NoCell}
    BY <1>1, <1>4, PopTypes, LpcKinds DEF HandleDone, NextLpc
  <2>2. UNCHANGED <<ring, wpc, cur>>
    BY <1>4 DEF HandleDone, workerVars
  <2> QED
    BY <1>1, <1>4, <2>1, <2>2, HoldersWake DEF HandleDone
<1>5. CASE \E t \in Task : Assign(t)
  BY <1>5, HoldersAssign
<1>6. CASE HandleAvail \/ MasterMove \/ UNCHANGED vars
           \/ (\E t \in Task : Fetch(t))
           \/ (\E m \in Msg : Deliver(m) \/ Land(m))
  <2>1. UNCHANGED <<ready, inUse, ring, wpc, cur>>
    BY <1>6 DEF HandleAvail, MasterMove, StartWorkers, EnterProgress,
                LeaveProgress, LoopBack, LeaveLoop, SetDone, Join, Barrier,
                Fetch, Deliver, Land, vars, queueVars, lockVars, poolVars,
                workerVars
  <2> QED
    BY <2>1, HoldersKept
<1>7. ASSUME NEW w \in Worker, Get(w) PROVE LockHeld'
  <2>1. CASE ring[w] # <<>>
    BY <1>7, <2>1, HoldersGet
  <2>2. CASE ring[w] = <<>>
    BY <1>1, <1>7, <2>2, HoldersElsewhere
       DEF Get, queueVars, lockVars, TypeOK
  <2> QED
    BY <2>1, <2>2
<1>8. ASSUME NEW w \in Worker, Check(w) PROVE LockHeld'
  BY <1>1, <1>8, HoldersElsewhere
     DEF Check, queueVars, lockVars, poolVars, TypeOK
<1>9. ASSUME NEW w \in Worker, Run(w) PROVE LockHeld'
  BY <1>9, HoldersRun
<1>10. ASSUME NEW w \in Worker, Signal(w) PROVE LockHeld'
  BY <1>10, HoldersKept DEF Signal, queueVars, lockVars, poolVars
<1>11. ASSUME NEW w \in Worker, Report(w) PROVE LockHeld'
  BY <1>1, <1>11, HoldersElsewhere
     DEF Report, queueVars, lockVars, poolVars, TypeOK
<1> QED
  BY <1>2, <1>3, <1>4, <1>5, <1>6, <1>7, <1>8, <1>9, <1>10, <1>11
     DEF Next, MasterStep, Handle, MasterMove, Work, Terminated

LEMMA LockHeldInit == Init => LockHeld
<1> SUFFICES ASSUME Init, NEW c \in Cell PROVE CellHeld(c)
  BY DEF LockHeld
<1>1. InReady(c) = {} /\ Computing(c) = {} /\ ~inUse[c]
  BY DEF Init, InReady, Computing
<1>2. InRing(c) = {}
  BY EmptySeq DEF Init, InRing
<1> QED
  BY <1>1, <1>2 DEF CellHeld, AtMostOne

(* The flag of a cell is set exactly while one task holds it.              *)
THEOREM LocksCorrect == Spec => []LockHeld
  BY BookInit, BookNext, LockHeldInit, LockHeldNext, PTL DEF Spec

(* Two workers never compute into the same cell.                           *)
THEOREM Exclusion == Spec => []CellExclusive
<1>1. Book /\ LockHeld => CellExclusive
  <2> SUFFICES ASSUME Book, LockHeld, NEW v \in Worker, NEW w \in Worker,
                      v # w, wpc[v] = "run", wpc[w] = "run",
                      LockOf[cur[v]] # NoCell, LockOf[cur[v]] = LockOf[cur[w]]
               PROVE  FALSE
    BY DEF CellExclusive
  <2> DEFINE c == LockOf[cur[v]]
  <2>1. c \in Cell
    BY SchedAssumption DEF Book, HoldsTask
  <2>2. v \in Computing(c) /\ w \in Computing(c)
    BY DEF Computing
  <2> QED
    BY <2>1, <2>2 DEF LockHeld, CellHeld, AtMostOne
<1> QED
  BY <1>1, BookInit, BookNext, LocksCorrect, PTL DEF Spec

-----------------------------------------------------------------------------
(* Delayed tasks.  A report stays in the inbox until it is handled.        *)

LEMMA ReportStays ==
  ASSUME NEW s \in Seq(Lpc), NEW u \in Seq(Lpc), NEW c, ReportFor(s, c)
  PROVE  ReportFor(s \o u, c)
<1>1. PICK i \in 1..Len(s) : s[i].kind = "done" /\ s[i].cell = c
  BY DEF ReportFor
<1>2. i \in 1..Len(s \o u) /\ (s \o u)[i] = s[i]
  BY ConcatProperties, LenProperties
<1> QED
  BY <1>1, <1>2 DEF ReportFor

LEMMA ReportStaysAppend ==
  ASSUME NEW s \in Seq(Lpc), NEW l \in Lpc, NEW c
  PROVE  /\ ReportFor(s, c) => ReportFor(Append(s, l), c)
         /\ l.kind = "done" /\ l.cell = c => ReportFor(Append(s, l), c)
  BY AppendProperties, LenProperties DEF ReportFor

LEMMA ReportStaysTail ==
  ASSUME NEW s \in Seq(Lpc), s # <<>>, NEW c, ReportFor(s, c),
         ~(Head(s).kind = "done" /\ Head(s).cell = c)
  PROVE  ReportFor(Tail(s), c)
<1>1. PICK i \in 1..Len(s) : s[i].kind = "done" /\ s[i].cell = c
  BY DEF ReportFor
<1>2. /\ Len(s) \in Nat /\ Len(Tail(s)) = Len(s) - 1 /\ Head(s) = s[1]
      /\ \A j \in 1..Len(Tail(s)) : Tail(s)[j] = s[j + 1]
  BY HeadTailProperties, LenProperties
<1>3. i # 1
  BY <1>1, <1>2
<1>4. i - 1 \in 1..Len(Tail(s)) /\ Tail(s)[i - 1] = s[i]
  BY <1>2, <1>3
<1> QED
  BY <1>1, <1>4 DEF ReportFor

(* What waking up a delayed task relies on.                                *)
Owed(c) == delayed[c] # <<>> => inUse[c] \/ Signalling(c) \/ ReportFor(inbox, c)

LEMMA OwedIsWoken == DelayedIsWoken <=> \A c \in Cell : Owed(c)
  BY DEF DelayedIsWoken, Owed

LEMMA InPlaceActivate ==
  ASSUME NEW t \in Task, TypeOK, DelayedInPlace, Activate(t)
  PROVE  DelayedInPlace'
<1>1. CASE UNCHANGED delayed
  BY <1>1 DEF DelayedInPlace
<1>2. CASE ~Lockable(t)
           /\ delayed' = [delayed EXCEPT ![LockOf[t]] = Append(@, t)]
  <2> DEFINE d == LockOf[t]
  <2>1. d \in Cell /\ delayed[d] \in Seq(Task)
    BY <1>2 DEF Lockable, TypeOK
  <2>2. /\ Len(delayed[d]) \in Nat
        /\ Len(Append(delayed[d], t)) = Len(delayed[d]) + 1
        /\ \A i \in 1..Len(delayed[d]) : Append(delayed[d], t)[i] = delayed[d][i]
        /\ Append(delayed[d], t)[Len(delayed[d]) + 1] = t
    BY <2>1, AppendProperties, LenProperties
  <2> SUFFICES ASSUME NEW c \in Cell, NEW i \in 1..Len(delayed'[c])
               PROVE  LockOf[delayed'[c][i]] = c
    BY DEF DelayedInPlace
  <2>3. CASE c # d
    BY <1>2, <2>3 DEF DelayedInPlace, TypeOK
  <2>4. CASE c = d
    <3>1. delayed'[c] = Append(delayed[d], t)
      BY <1>2, <2>1, <2>4 DEF TypeOK
    <3>2. CASE i = Len(delayed[d]) + 1
      BY <2>2, <2>4, <3>1, <3>2
    <3>3. CASE i # Len(delayed[d]) + 1
      <4>1. i \in 1..Len(delayed[d])
        BY <2>2, <3>1, <3>3
      <4> QED
        BY <2>1, <2>2, <2>4, <3>1, <4>1 DEF DelayedInPlace
    <3> QED
      BY <3>2, <3>3
  <2> QED
    BY <2>3, <2>4
<1> QED
  BY <1>1, <1>2 DEF Activate

LEMMA InPlaceWake ==
  ASSUME NEW d \in Cell \cup {NoCell}, TypeOK, DelayedInPlace, WakeDelayed(d)
  PROVE  DelayedInPlace'
<1>1. CASE UNCHANGED delayed
  BY <1>1 DEF DelayedInPlace
<1>2. CASE /\ d # NoCell /\ delayed[d] # <<>>
           /\ delayed' = [delayed EXCEPT ![d] = Tail(@)]
  <2>1. d \in Cell /\ delayed[d] \in Seq(Task)
    BY <1>2 DEF TypeOK
  <2>2. /\ Len(delayed[d]) \in Nat /\ Len(Tail(delayed[d])) = Len(delayed[d]) - 1
        /\ \A i \in 1..Len(Tail(delayed[d])) :
             Tail(delayed[d])[i] = delayed[d][i + 1]
    BY <1>2, <2>1, HeadTailProperties, LenProperties
  <2> SUFFICES ASSUME NEW c \in Cell, NEW i \in 1..Len(delayed'[c])
               PROVE  LockOf[delayed'[c][i]] = c
    BY DEF DelayedInPlace
  <2>3. CASE c # d
    BY <1>2, <2>3 DEF DelayedInPlace, TypeOK
  <2>4. CASE c = d
    <3>1. delayed'[c] = Tail(delayed[d])
      BY <1>2, <2>1, <2>4 DEF TypeOK
    <3>2. i + 1 \in 1..Len(delayed[d]) /\ delayed'[c][i] = delayed[d][i + 1]
      BY <2>2, <3>1
    <3> QED
      BY <2>1, <2>4, <3>2 DEF DelayedInPlace
  <2> QED
    BY <2>3, <2>4
<1> QED
  BY <1>1, <1>2 DEF WakeDelayed

(* A task enters ready_tasks or a list; what the others are owed stays.    *)
LEMMA OwedActivate ==
  ASSUME NEW t \in Task, NEW c \in Cell, TypeOK, Owed(c), Activate(t),
         UNCHANGED <<wpc, cur>>,
         ReportFor(inbox, c) => ReportFor(inbox, c)'
  PROVE  Owed(c)'
<1>1. Signalling(c)' <=> Signalling(c)
  BY DEF Signalling
<1>2. inUse[c] => inUse'[c]
  BY DEF Activate, TakeLock, TypeOK
<1>3. CASE delayed'[c] = delayed[c]
  BY <1>1, <1>2, <1>3 DEF Owed
<1>4. CASE delayed'[c] # delayed[c]
  <2>1. ~Lockable(t) /\ LockOf[t] = c
    BY <1>4 DEF Activate, TypeOK
  <2> QED
    BY <1>2, <2>1 DEF Owed, Lockable
<1> QED
  BY <1>3, <1>4

(* The report for a cell is handled: the cell is taken again, or it was    *)
(* taken already, or nobody waits.                                         *)
LEMMA OwedWake ==
  ASSUME NEW c \in Cell, TypeOK, DelayedInPlace, Owed(c),
         HandleDone
  PROVE  Owed(c)'
<1> DEFINE d == Head(inbox).cell
<1>1. /\ inbox \in Seq(Lpc) /\ inbox # <<>> /\ inbox' = Tail(inbox)
      /\ Head(inbox).kind = "done"
  BY PopTypes DEF HandleDone, NextLpc, TypeOK
<1>2. UNCHANGED <<wpc, cur>> /\ WakeDelayed(d)
  BY DEF HandleDone, workerVars
<1>3. Signalling(c)' <=> Signalling(c)
  BY <1>2 DEF Signalling
<1>4. inUse[c] => inUse'[c]
  BY <1>2 DEF WakeDelayed, TakeLock, TypeOK
<1>5. CASE d # c
  <2>1. ReportFor(inbox, c) => ReportFor(inbox, c)'
    BY <1>1, <1>5, ReportStaysTail DEF ReportFor
  <2>2. delayed'[c] = delayed[c]
    BY <1>2, <1>5 DEF WakeDelayed, TypeOK
  <2> QED
    BY <1>3, <1>4, <2>1, <2>2 DEF Owed
<1>6. CASE d = c
  <2>1. CASE delayed[c] = <<>>
    <3>1. delayed'[c] = <<>>
      BY <1>2, <1>6, <2>1 DEF WakeDelayed
    <3> QED
      BY <3>1 DEF Owed
  <2>2. CASE delayed[c] # <<>>
    <3>1. LockOf[Head(delayed[c])] = c
      <4>1. delayed[c] \in Seq(Task) /\ Len(delayed[c]) \in Nat
        BY LenProperties DEF TypeOK
      <4>2. 1 \in 1..Len(delayed[c]) /\ Head(delayed[c]) = delayed[c][1]
        BY <2>2, <4>1, EmptySeq
      <4> QED
        BY <4>2 DEF DelayedInPlace
    <3>2. c # NoCell
      BY SchedAssumption
    <3>3. inUse'[c]
      <4>1. CASE Lockable(Head(delayed[c]))
        BY <1>2, <1>6, <2>2, <3>1, <3>2, <4>1 DEF WakeDelayed, TakeLock, TypeOK
      <4>2. CASE ~Lockable(Head(delayed[c]))
        BY <1>4, <3>1, <4>2 DEF Lockable
      <4> QED
        BY <4>1, <4>2
    <3> QED
      BY <3>3 DEF Owed
  <2> QED
    BY <2>1, <2>2
<1> QED
  BY <1>5, <1>6

LEMMA OwedKept ==
  ASSUME NEW c \in Cell, Owed(c), UNCHANGED <<delayed, inUse>>,
         Signalling(c) => Signalling(c)',
         ReportFor(inbox, c) => ReportFor(inbox, c)'
  PROVE  Owed(c)'
  BY DEF Owed

(* Appending to the inbox keeps every report in it.                        *)
LEMMA OwedPost ==
  ASSUME NEW c \in Cell, TypeOK, Owed(c), NEW u \in Seq(Lpc),
         inbox' = inbox \o u,
         UNCHANGED <<delayed, inUse, wpc, cur>>
  PROVE  Owed(c)'
<1>1. ReportFor(inbox, c) => ReportFor(inbox, c)'
  BY ReportStays DEF TypeOK, ReportFor
<1> QED
  BY <1>1, OwedKept DEF Signalling

LEMMA OwedWorker ==
  ASSUME NEW c \in Cell, NEW w \in Worker, Book, Owed(c), Work(w)
  PROVE  Owed(c)'
<1>1. TypeOK /\ HoldsTask
  BY DEF Book
<1>2. CASE Get(w) \/ Check(w)
  <2>1. UNCHANGED <<delayed, inUse, inbox>> /\ wpc[w] # "signal"
    BY <1>2 DEF Get, Check, lockVars
  <2>2. \A v \in Worker : v # w => wpc'[v] = wpc[v] /\ cur'[v] = cur[v]
    BY <1>1, <1>2 DEF Get, Check, TypeOK
  <2> QED
    BY <2>1, <2>2, OwedKept DEF Signalling, ReportFor
<1>3. CASE Run(w)
  <2>1. /\ UNCHANGED <<delayed, inbox, cur>>
        /\ wpc[w] = "run" /\ wpc' = [wpc EXCEPT ![w] = "signal"]
    BY <1>3 DEF Run
  <2>2. Signalling(c) => Signalling(c)'
    BY <1>1, <2>1 DEF Signalling, TypeOK
  <2>3. ReportFor(inbox, c) => ReportFor(inbox, c)'
    BY <2>1 DEF ReportFor
  <2>4. CASE LockOf[cur[w]] = c
    <3>1. Signalling(c)'
      BY <1>1, <2>1, <2>4 DEF Signalling, TypeOK
    <3> QED
      BY <3>1 DEF Owed
  <2>5. CASE LockOf[cur[w]] # c
    <3>1. inUse'[c] = inUse[c]
      BY <1>1, <1>3, <2>5 DEF Run, TypeOK
    <3> QED
      BY <2>1, <2>2, <2>3, <3>1 DEF Owed
  <2> QED
    BY <2>4, <2>5
<1>4. CASE Signal(w)
  <2>1. Head(todo[w]) \in Task
    BY <1>1, <1>4, HeadTailProperties DEF Signal, TypeOK
  <2>2. ReportFor(inbox, c) => ReportFor(inbox, c)'
    BY <1>1, <1>4, <2>1, LpcTypes, ReportStaysAppend
       DEF Signal, TypeOK, ReportFor
  <2>3. UNCHANGED <<delayed, inUse, wpc, cur>>
    BY <1>4 DEF Signal, lockVars
  <2> QED
    BY <2>2, <2>3, OwedKept DEF Signalling
<1>5. CASE Report(w)
  <2> DEFINE l == DoneLpc(w, LockOf[cur[w]])
  <2>1. /\ UNCHANGED <<delayed, inUse>> /\ inbox' = Append(inbox, l)
        /\ \A v \in Worker : v # w => wpc'[v] = wpc[v] /\ cur'[v] = cur[v]
    BY <1>1, <1>5 DEF Report, PostDone, lockVars, TypeOK
  <2>2. l \in Lpc /\ l.kind = "done" /\ l.cell = LockOf[cur[w]]
    <3>1. LockOf[cur[w]] \in Cell \cup {NoCell}
      BY <1>1, <1>5, SchedAssumption DEF Report, HoldsTask
    <3> QED
      BY <3>1, LpcTypes DEF DoneLpc
  <2> HIDE DEF l
  <2>3. /\ ReportFor(inbox, c) => ReportFor(inbox', c)
        /\ LockOf[cur[w]] = c => ReportFor(inbox', c)
    BY <1>1, <2>1, <2>2, ReportStaysAppend DEF TypeOK
  <2>4. ReportFor(inbox, c)' <=> ReportFor(inbox', c)
    BY DEF ReportFor
  <2> QED
    BY <2>1, <2>3, <2>4 DEF Owed, Signalling
<1> QED
  BY <1>2, <1>3, <1>4, <1>5 DEF Work

LEMMA WokenNext ==
  Book /\ DelayedInPlace /\ DelayedIsWoken /\ [Next]_vars
    => DelayedInPlace' /\ DelayedIsWoken'
<1> SUFFICES ASSUME Book, DelayedInPlace, DelayedIsWoken, [Next]_vars
             PROVE  DelayedInPlace' /\ DelayedIsWoken'
  OBVIOUS
<1>1. TypeOK
  BY DEF Book
<1>2. \A c \in Cell : Owed(c)
  BY OwedIsWoken
<1> SUFFICES DelayedInPlace' /\ \A c \in Cell : Owed(c)'
  BY DEF DelayedIsWoken, Owed
<1>3. CASE Setup
  <2>1. Order[pos] \in Task
    BY <1>1, <1>3, SchedAssumption, LenProperties, ElementOfSeq
       DEF Setup, TypeOK
  <2>2. UNCHANGED <<wpc, cur, inbox>>
    BY <1>3 DEF Setup, poolVars, workerVars
  <2>3. CASE Activate(Order[pos])
    BY <1>1, <1>2, <2>1, <2>2, <2>3, OwedActivate, InPlaceActivate
       DEF ReportFor
  <2>4. CASE UNCHANGED <<ready, inUse, delayed>>
    BY <1>2, <2>2, <2>4, OwedKept DEF DelayedInPlace, Signalling, ReportFor
  <2> QED
    BY <1>3, <2>3, <2>4 DEF Setup
<1>4. CASE HandleDep \/ HandleAvail
  <2>1. /\ Head(inbox).task \in Task /\ Head(inbox).kind # "done"
        /\ inbox # <<>> /\ inbox' = Tail(inbox)
    BY <1>1, <1>4, PopTypes, LpcKinds DEF HandleDep, HandleAvail, NextLpc
  <2>2. \A c \in Cell : ReportFor(inbox, c) => ReportFor(inbox, c)'
    <3> SUFFICES ASSUME NEW c \in Cell, ReportFor(inbox, c)
                 PROVE  ReportFor(inbox, c)'
      OBVIOUS
    <3>1. inbox \in Seq(Lpc)
      BY <1>1 DEF TypeOK
    <3>2. ReportFor(Tail(inbox), c)
      BY <2>1, <3>1, ReportStaysTail
    <3> QED
      BY <2>1, <3>2 DEF ReportFor
  <2>3. UNCHANGED <<wpc, cur>>
    BY <1>4 DEF HandleDep, HandleAvail, workerVars
  <2>4. CASE Activate(Head(inbox).task)
    BY <1>1, <1>2, <2>1, <2>2, <2>3, <2>4, OwedActivate, InPlaceActivate
  <2>5. CASE UNCHANGED <<inUse, delayed>>
    BY <1>2, <2>2, <2>3, <2>5, OwedKept DEF DelayedInPlace, Signalling
  <2> QED
    BY <1>4, <2>4, <2>5 DEF HandleDep, HandleAvail, lockVars
<1>5. CASE HandleDone
  <2>1. Head(inbox).cell \in Cell \cup {NoCell}
    BY <1>1, <1>5, PopTypes, LpcKinds DEF HandleDone, NextLpc
  <2> QED
    BY <1>1, <1>2, <1>5, <2>1, OwedWake, InPlaceWake DEF HandleDone
<1>6. CASE (\E t \in Task : Assign(t)) \/ MasterMove \/ UNCHANGED vars
  <2>1. UNCHANGED <<delayed, inUse, wpc, cur, inbox>>
    BY <1>6 DEF Assign, MasterMove, StartWorkers, EnterProgress,
                LeaveProgress, LoopBack, LeaveLoop, SetDone, Join, Barrier,
                vars, lockVars, workerVars
  <2> QED
    BY <1>2, <2>1, OwedKept DEF DelayedInPlace, Signalling, ReportFor
<1>7. ASSUME NEW t \in Task, Fetch(t)
      PROVE  DelayedInPlace' /\ \A c \in Cell : Owed(c)'
  <2> DEFINE landed == LandedInputs(t)
             u == [i \in 1..Cardinality(landed) |-> DepLpc(t)]
  <2>1. u \in Seq(Lpc)
    <3>1. landed \in SUBSET Entries(t, MsgTo)
      BY DEF Inputs, LandedInputs
    <3>2. Cardinality(landed) \in Nat
      BY <3>1, SchedAssumption, CountType, FS_Subset, FS_CardinalityType
    <3> HIDE DEF landed
    <3>3. u \in [1..Cardinality(landed) -> Lpc]
      BY LpcTypes
    <3> QED
      BY <3>2, <3>3, SeqDef
  <2>2. inbox' = inbox \o u /\ UNCHANGED <<delayed, inUse, wpc, cur>>
    BY <1>7 DEF Fetch, lockVars, workerVars
  <2> HIDE DEF u
  <2> QED
    BY <1>1, <1>2, <2>1, <2>2, OwedPost DEF DelayedInPlace
<1>8. ASSUME NEW m \in Msg, Deliver(m) \/ Land(m)
      PROVE  DelayedInPlace' /\ \A c \in Cell : Owed(c)'
  <2>1. MsgTo[m] \in Seq(Task) /\ thens[m] \in Seq(Task)
    BY <1>1, SchedAssumption DEF TypeOK
  <2>2. PICK u \in Seq(Lpc) : inbox' = inbox \o u
    BY <1>8, <2>1, MsgSeqTypes DEF Deliver, Land
  <2>3. UNCHANGED <<delayed, inUse, wpc, cur>>
    BY <1>8 DEF Deliver, Land, lockVars, workerVars
  <2> QED
    BY <1>1, <1>2, <2>2, <2>3, OwedPost DEF DelayedInPlace
<1>9. ASSUME NEW w \in Worker, Work(w)
      PROVE  DelayedInPlace' /\ \A c \in Cell : Owed(c)'
  <2>1. UNCHANGED delayed
    BY <1>9 DEF Work, Get, Check, Run, Signal, Report, lockVars
  <2> QED
    BY <1>2, <1>9, <2>1, OwedWorker DEF DelayedInPlace
<1> QED
  BY <1>3, <1>4, <1>5, <1>6, <1>7, <1>8, <1>9
     DEF Next, MasterStep, Handle, MasterMove, Terminated

(* A task delayed on a cell is never forgotten.                            *)
THEOREM NoLostWakeup == Spec => []DelayedIsWoken
<1>1. Init => DelayedInPlace /\ DelayedIsWoken
  <2> SUFFICES ASSUME Init PROVE \A c \in Cell : delayed[c] = <<>>
    BY EmptySeq DEF DelayedInPlace, DelayedIsWoken
  <2> QED
    BY DEF Init
<1> QED
  BY <1>1, BookInit, BookNext, WokenNext, PTL DEF Spec

-----------------------------------------------------------------------------
(* Every task is in one place once its dependencies are satisfied, and its *)
(* counters are what is still on its way.                                  *)


(* The signals of the tasks that have not run, and those of the tasks that *)
(* a worker is signalling for are in todo.                                 *)
Due  == [s \in Task |-> IF ran[s] = 0 THEN Out[s] ELSE <<>>]
Away == [m \in Msg |-> IF msg[m] = "away" THEN MsgTo[m] ELSE <<>>]

(* The task has not attached to its messages yet.                          *)
Waiting(t) == availCnt[t] > 0 \/ t \in avail

Unserved(t) ==
  [m \in Msg |-> IF Waiting(t) \/ msg[m] # "landed" THEN MsgTo[m] ELSE <<>>]

DepExact ==
  \A t \in Task :
    inCnt[t] = Count(t, Due) + Count(t, todo) + Count(t, Unserved(t))
                 + Times(DepLpc(t), inbox)

AvailExact ==
  \A t \in Task :
    /\ availCnt[t] = Count(t, Away) + Times(AvailLpc(t), inbox)
    /\ availCnt[t] <= Count(t, MsgTo)
    /\ t \in avail => availCnt[t] = 0 /\ Count(t, MsgTo) > 0

(* A message that is being fetched holds a callback for each entry of a    *)
(* task that has attached to it.                                           *)
CallbacksExact ==
  \A m \in Msg, t \in Task :
    Times(t, thens[m]) = IF msg[m] = "fetching" /\ ~Waiting(t)
                         THEN Cardinality(UsesOf(t, m)) ELSE 0

Running == [w \in Worker |-> IF wpc[w] = "run" THEN <<cur[w]>> ELSE <<>>]
TodoExact == \A w \in Worker : todo[w] # <<>> => wpc[w] = "signal"

(* The tasks whose promises have been finalized.                           *)
Seen ==
  IF mpc = "setup" THEN {Order[i] : i \in {j \in DOMAIN Order : j < pos}} ELSE Task

(* A task whose count is zero is ready, delayed, in a ring, running or has *)
(* run, and only one of these; another one is nowhere.                     *)
InReadyQueue(t) == IF t \in ready THEN 1 ELSE 0
Released(t) == IF inCnt[t] = 0 /\ t \in Seen THEN 1 ELSE 0

PlaceExact ==
  \A t \in Task :
    InReadyQueue(t) + Count(t, delayed) + Count(t, ring) + Count(t, Running)
      + ran[t] = Released(t)

Assigned == {t \in Task : Count(t, ring) + Count(t, Running) + ran[t] > 0}

LoopExact ==
  /\ taskCnt = Cardinality(Task \ Assigned)
  /\ mpc \in {"drain", "join", "final", "end"} => taskCnt = 0

(* Once the workers are joined nothing is posted any more.                 *)
ExitExact ==
  /\ mpc \in {"final", "end"} => \A w \in Worker : wpc[w] = "exit"
  /\ mpc = "final" => Len(inbox) <= burst
  /\ mpc = "end" => inbox = <<>>

IInv ==
  /\ Book /\ DepExact /\ AvailExact /\ CallbacksExact /\ TodoExact /\ PlaceExact
  /\ LoopExact /\ ExitExact

LEMMA FamilyTypes ==
  ASSUME TypeOK, HoldsTask
  PROVE  /\ IsFiniteSet(Task) /\ IsFiniteSet(Msg) /\ IsFiniteSet(Cell)
         /\ IsFiniteSet(Worker)
         /\ Out \in [Task -> Seq(Task)] /\ MsgTo \in [Msg -> Seq(Task)]
         /\ Due \in [Task -> Seq(Task)] /\ Away \in [Msg -> Seq(Task)]
         /\ \A t : Unserved(t) \in [Msg -> Seq(Task)]
         /\ Running \in [Worker -> Seq(Task)]
         /\ todo \in [Worker -> Seq(Task)] /\ ring \in [Worker -> Seq(Task)]
         /\ delayed \in [Cell -> Seq(Task)]
<1>1. \A w \in Worker : wpc[w] = "run" => cur[w] \in Task
  BY DEF HoldsTask
<1>2. Running \in [Worker -> Seq(Task)]
  BY <1>1, EmptySeq DEF Running
<1>3. Due \in [Task -> Seq(Task)]
  BY SchedAssumption, EmptySeq DEF Due
<1>4. Away \in [Msg -> Seq(Task)]
  BY SchedAssumption, EmptySeq DEF Away
<1>5. \A t : Unserved(t) \in [Msg -> Seq(Task)]
  BY SchedAssumption, EmptySeq DEF Unserved
<1> QED
  BY <1>2, <1>3, <1>4, <1>5, SchedAssumption DEF TypeOK

LEMMA NumberTypes ==
  ASSUME TypeOK, HoldsTask, NEW t \in Task
  PROVE  /\ Count(t, Due) \in Nat /\ Count(t, todo) \in Nat
         /\ Count(t, Unserved(t)) \in Nat /\ Count(t, Away) \in Nat
         /\ Count(t, MsgTo) \in Nat
         /\ Count(t, delayed) \in Nat /\ Count(t, ring) \in Nat
         /\ Count(t, Running) \in Nat /\ ran[t] \in Nat
         /\ Times(DepLpc(t), inbox) \in Nat /\ Times(AvailLpc(t), inbox) \in Nat
         /\ InReadyQueue(t) \in 0..1 /\ inCnt[t] \in Int /\ availCnt[t] \in Int
<1>1. /\ Count(t, Due) \in Nat /\ Count(t, todo) \in Nat
  BY FamilyTypes, CountType
<1>2. /\ Count(t, Unserved(t)) \in Nat /\ Count(t, Away) \in Nat
  BY FamilyTypes, CountType
<1>3. /\ Count(t, delayed) \in Nat /\ Count(t, ring) \in Nat
  BY FamilyTypes, CountType
<1>4. Count(t, Running) \in Nat /\ Count(t, MsgTo) \in Nat
  BY FamilyTypes, CountType
<1>5. /\ Times(DepLpc(t), inbox) \in Nat /\ Times(AvailLpc(t), inbox) \in Nat
  BY TimesType DEF TypeOK
<1>6. InReadyQueue(t) \in 0..1
  BY DEF InReadyQueue
<1> QED
  BY <1>1, <1>2, <1>3, <1>4, <1>5, <1>6 DEF TypeOK

-----------------------------------------------------------------------------
(* The lpcs that are posted and handled.                                   *)

LEMMA Kinds ==
  ASSUME NEW t, NEW u
  PROVE  /\ DepLpc(t) = DepLpc(u) <=> t = u
         /\ AvailLpc(t) = AvailLpc(u) <=> t = u
         /\ DepLpc(t) # AvailLpc(u)
         /\ \A w, c : DepLpc(t) # DoneLpc(w, c) /\ AvailLpc(t) # DoneLpc(w, c)
<1>1. DepLpc(t).kind = "dep" /\ AvailLpc(u).kind = "avail"
      /\ \A w, c : DoneLpc(w, c).kind = "done"
  BY DEF DepLpc, AvailLpc, DoneLpc
<1>2. DepLpc(t).task = t /\ DepLpc(u).task = u
      /\ AvailLpc(t).task = t /\ AvailLpc(u).task = u
      /\ AvailLpc(t).kind = "avail"
  BY DEF DepLpc, AvailLpc
<1> QED
  BY <1>1, <1>2

LEMMA PostedLists ==
  ASSUME NEW s \in Seq(Task), NEW t
  PROVE  /\ Times(DepLpc(t), DepLpcs(s)) = Times(t, s)
         /\ Times(AvailLpc(t), AvailLpcs(s)) = Times(t, s)
         /\ Times(AvailLpc(t), DepLpcs(s)) = 0
         /\ Times(DepLpc(t), AvailLpcs(s)) = 0
<1>1. Len(s) \in Nat /\ Len(DepLpcs(s)) = Len(s) /\ Len(AvailLpcs(s)) = Len(s)
  <2>1. Len(s) \in Nat
    BY LenProperties
  <2> QED
    BY <2>1, LenProperties DEF DepLpcs, AvailLpcs
<1>2. /\ Places(DepLpc(t), DepLpcs(s)) = Places(t, s)
      /\ Places(AvailLpc(t), AvailLpcs(s)) = Places(t, s)
      /\ Places(AvailLpc(t), DepLpcs(s)) = {}
      /\ Places(DepLpc(t), AvailLpcs(s)) = {}
  BY <1>1, Kinds DEF Places, DepLpcs, AvailLpcs
<1> QED
  BY <1>2, FS_EmptySet DEF Times

LEMMA TimesSingle ==
  ASSUME NEW a, NEW x
  PROVE  Times(x, <<a>>) = IF a = x THEN 1 ELSE 0
<1>1. <<a>> = Repeat(1, a)
  BY DEF Repeat
<1>2. Times(x, Repeat(1, a)) = IF x = a THEN 1 ELSE 0
  BY TimesConst
<1> QED
  BY <1>1, <1>2

LEMMA TimesAppend ==
  ASSUME NEW S, NEW s \in Seq(S), NEW a \in S, NEW x
  PROVE  Times(x, Append(s, a)) = Times(x, s) + (IF a = x THEN 1 ELSE 0)
<1>1. Append(s, a) = s \o <<a>> /\ <<a>> \in Seq(S)
  BY AppendIsConcat
<1>2. Times(x, s \o <<a>>) = Times(x, s) + Times(x, <<a>>)
  BY <1>1, TimesConcat
<1> QED
  BY <1>1, <1>2, TimesSingle

LEMMA TimesNone ==
  ASSUME NEW x PROVE Times(x, <<>>) = 0
<1>1. Places(x, <<>>) = {}
  BY DEF Places
<1> QED
  BY <1>1, FS_EmptySet DEF Times

(* What handling the oldest lpc takes off.                                 *)
LEMMA OldestTaken ==
  ASSUME TypeOK, inbox # <<>>, PopLpc
  PROVE  /\ \A t : Times(DepLpc(t), inbox) = Times(DepLpc(t), inbox')
                     + (IF Head(inbox) = DepLpc(t) THEN 1 ELSE 0)
         /\ \A t : Times(AvailLpc(t), inbox) = Times(AvailLpc(t), inbox')
                     + (IF Head(inbox) = AvailLpc(t) THEN 1 ELSE 0)
         /\ \A x : Times(x, inbox') \in Nat
         /\ Head(inbox).kind = "dep" =>
              Head(inbox).task \in Task /\ Head(inbox) = DepLpc(Head(inbox).task)
         /\ Head(inbox).kind = "avail" =>
              Head(inbox).task \in Task /\ Head(inbox) = AvailLpc(Head(inbox).task)
         /\ Head(inbox).kind = "done" =>
              \A t : Head(inbox) # DepLpc(t) /\ Head(inbox) # AvailLpc(t)
<1>1. inbox \in Seq(Lpc) /\ inbox' = Tail(inbox) /\ Head(inbox) \in Lpc
      /\ inbox' \in Seq(Lpc)
  BY PopTypes DEF TypeOK
<1>2. \A x : Times(x, inbox') \in Nat
  BY <1>1, TimesType
<1>3. ASSUME NEW x
      PROVE  Times(x, inbox) = Times(x, inbox') + (IF Head(inbox) = x THEN 1 ELSE 0)
  BY <1>1, TimesTail
<1>4. \A t : DepLpc(t).kind = "dep" /\ AvailLpc(t).kind = "avail"
  BY DEF DepLpc, AvailLpc
<1>5. \A l \in Lpc : /\ l.kind = "dep" => l.task \in Task /\ l = DepLpc(l.task)
                     /\ l.kind = "avail" => l.task \in Task /\ l = AvailLpc(l.task)
  BY DEF Lpc, DepLpc, AvailLpc
<1> QED
  BY <1>1, <1>2, <1>3, <1>4, <1>5

-----------------------------------------------------------------------------
(* What a step that leaves some variables alone preserves.                 *)

LEMMA DepKept ==
  ASSUME DepExact, UNCHANGED <<inCnt, ran, todo, msg, availCnt, avail>>,
         \A t \in Task : Times(DepLpc(t), inbox') = Times(DepLpc(t), inbox)
  PROVE  DepExact'
<1>1. Due' = Due /\ \A t : Unserved(t)' = Unserved(t)
  BY DEF Due, Unserved, Waiting
<1>2. ASSUME NEW t \in Task
      PROVE  inCnt'[t] = Count(t, Due)' + Count(t, todo)' + Count(t, Unserved(t))'
                           + Times(DepLpc(t), inbox)'
  <2>1. inCnt[t] = Count(t, Due) + Count(t, todo) + Count(t, Unserved(t))
                     + Times(DepLpc(t), inbox)
    BY DEF DepExact
  <2>2. Times(DepLpc(t), inbox') = Times(DepLpc(t), inbox)
    OBVIOUS
  <2> QED
    BY <1>1, <2>1, <2>2
<1> QED
  BY <1>2 DEF DepExact

LEMMA AvailKept ==
  ASSUME AvailExact, UNCHANGED <<msg, availCnt, avail>>,
         \A t \in Task : Times(AvailLpc(t), inbox') = Times(AvailLpc(t), inbox)
  PROVE  AvailExact'
<1>1. Away' = Away
  BY DEF Away
<1>2. ASSUME NEW t \in Task
      PROVE  /\ availCnt'[t] = Count(t, Away)' + Times(AvailLpc(t), inbox)'
             /\ availCnt'[t] <= Count(t, MsgTo)
             /\ t \in avail' => availCnt'[t] = 0 /\ Count(t, MsgTo) > 0
  <2>1. /\ availCnt[t] = Count(t, Away) + Times(AvailLpc(t), inbox)
        /\ availCnt[t] <= Count(t, MsgTo)
        /\ t \in avail => availCnt[t] = 0 /\ Count(t, MsgTo) > 0
    BY DEF AvailExact
  <2> QED
    BY <1>1, <2>1
<1> QED
  BY <1>2 DEF AvailExact

LEMMA CallbacksKept ==
  ASSUME CallbacksExact, UNCHANGED <<msg, thens, availCnt, avail>>
  PROVE  CallbacksExact'
  BY DEF CallbacksExact, Waiting

LEMMA TodoKept ==
  ASSUME TodoExact, UNCHANGED <<todo, wpc>> PROVE TodoExact'
  BY DEF TodoExact

LEMMA SeenKept ==
  ASSUME UNCHANGED <<mpc, pos>> \/ (mpc # "setup" /\ mpc' # "setup")
  PROVE  Seen' = Seen
  BY DEF Seen

(* The tasks keep their places, but for what happens to the ready queue    *)
(* and the lists of delayed tasks.                                         *)
LEMMA PlaceKept ==
  ASSUME PlaceExact, UNCHANGED <<ready, delayed, ring, wpc, cur, ran, inCnt>>,
         Seen' = Seen
  PROVE  PlaceExact'
<1>1. Running' = Running
  BY DEF Running
<1> QED
  BY <1>1 DEF PlaceExact, InReadyQueue, Released

LEMMA AssignedKept ==
  ASSUME UNCHANGED <<ring, wpc, cur, ran>>
  PROVE  Assigned' = Assigned
  BY DEF Assigned, Running

LEMMA LoopKept ==
  ASSUME LoopExact, UNCHANGED <<ring, wpc, cur, ran, taskCnt>>,
         mpc' \in {"drain", "join", "final", "end"} =>
           mpc \in {"drain", "join", "final", "end"} \/ taskCnt = 0
  PROVE  LoopExact'
  BY AssignedKept DEF LoopExact

LEMMA SinglePlace ==
  ASSUME Book, PlaceExact, NEW t \in Task
  PROVE  InReadyQueue(t) + Count(t, delayed) + Count(t, ring)
           + Count(t, Running) + ran[t] <= 1
<1>1. Released(t) \in 0..1
  BY DEF Released
<1> QED
  BY <1>1 DEF PlaceExact

-----------------------------------------------------------------------------
(* The ready queue and the lists of delayed tasks.                         *)

LEMMA ActivatePlaces ==
  ASSUME TypeOK, HoldsTask, NEW t \in Task, t \notin ready, Activate(t),
         NEW u \in Task
  PROVE  InReadyQueue(u)' + Count(u, delayed')
           = InReadyQueue(u) + Count(u, delayed) + (IF u = t THEN 1 ELSE 0)
<1>0. Count(u, delayed) \in Nat
  BY NumberTypes
<1>1. CASE ready' = ready \cup {t} /\ UNCHANGED delayed
  <2>1. InReadyQueue(u)' = InReadyQueue(u) + (IF u = t THEN 1 ELSE 0)
    BY <1>1 DEF InReadyQueue
  <2>2. InReadyQueue(u) \in 0..1
    BY DEF InReadyQueue
  <2> QED
    BY <1>0, <1>1, <2>1, <2>2
<1>2. CASE ~Lockable(t) /\ UNCHANGED ready
           /\ delayed' = [delayed EXCEPT ![LockOf[t]] = Append(@, t)]
  <2>0. PICK c : c = LockOf[t]
    OBVIOUS
  <2>1. c \in Cell /\ delayed \in [Cell -> Seq(Task)]
    BY <1>2, <2>0 DEF Lockable, TypeOK
  <2>2. delayed' \in [Cell -> Seq(Task)]
    BY ActivateTypes
  <2>3. delayed'[c] = Append(delayed[c], t)
    BY <1>2, <2>0, <2>1
  <2>4. OneChanged(Cell, delayed, delayed', c)
    BY <1>2, <2>0, <2>1, <2>2, SchedAssumption DEF OneChanged
  <2>5. /\ Count(u, delayed') + Times(u, delayed[c])
             = Count(u, delayed) + Times(u, delayed'[c])
        /\ Count(u, delayed') \in Nat /\ Count(u, delayed) \in Nat
        /\ Times(u, delayed[c]) \in Nat
    BY <2>4, CountChange
  <2>6. Times(u, Append(delayed[c], t))
          = Times(u, delayed[c]) + (IF t = u THEN 1 ELSE 0)
    BY <2>1, TimesAppend
  <2>7. InReadyQueue(u)' = InReadyQueue(u) /\ InReadyQueue(u) \in 0..1
    BY <1>2 DEF InReadyQueue
  <2> QED
    BY <1>0, <2>3, <2>5, <2>6, <2>7
<1> QED
  BY <1>1, <1>2 DEF Activate

LEMMA WakePlaces ==
  ASSUME Book, PlaceExact, NEW c \in Cell \cup {NoCell}, WakeDelayed(c),
         NEW u \in Task
  PROVE  InReadyQueue(u)' + Count(u, delayed')
           = InReadyQueue(u) + Count(u, delayed)
<1>0. TypeOK /\ HoldsTask
  BY DEF Book
<1>1. CASE UNCHANGED <<ready, delayed>>
  BY <1>1 DEF InReadyQueue
<1>2. CASE /\ c # NoCell /\ delayed[c] # <<>>
           /\ ready' = ready \cup {Head(delayed[c])}
           /\ delayed' = [delayed EXCEPT ![c] = Tail(@)]
  <2> DEFINE d == Head(delayed[c])
  <2>1. c \in Cell /\ delayed \in [Cell -> Seq(Task)] /\ delayed[c] \in Seq(Task)
    BY <1>0, <1>2 DEF TypeOK
  <2>2. /\ delayed' \in [Cell -> Seq(Task)]
        /\ delayed'[c] = Tail(delayed[c])
        /\ OneChanged(Cell, delayed, delayed', c)
    BY <1>0, <1>2, <2>1, WakeTypes, SchedAssumption DEF OneChanged
  <2>4. ASSUME NEW v \in Task
        PROVE  /\ Count(v, delayed') + (IF d = v THEN 1 ELSE 0) = Count(v, delayed)
               /\ Count(v, delayed') \in Nat /\ Count(v, delayed) \in Nat
    <3>1. /\ Count(v, delayed') + Times(v, delayed[c])
               = Count(v, delayed) + Times(v, delayed'[c])
          /\ Count(v, delayed') \in Nat /\ Count(v, delayed) \in Nat
          /\ Times(v, delayed'[c]) \in Nat
      BY <2>2, CountChange
    <3>2. Times(v, delayed[c])
            = Times(v, Tail(delayed[c])) + (IF d = v THEN 1 ELSE 0)
      BY <1>2, <2>1, TimesTail
    <3> QED
      BY <2>2, <3>1, <3>2
  <2>5. d \in Task
    BY <1>2, <2>1, HeadTailProperties
  <2>6. InReadyQueue(d) = 0
    <3>1. /\ Count(d, ring) \in Nat /\ Count(d, Running) \in Nat /\ ran[d] \in Nat
          /\ InReadyQueue(d) \in 0..1
      BY <1>0, <2>5, NumberTypes
    <3>2. InReadyQueue(d) + Count(d, delayed) + Count(d, ring)
            + Count(d, Running) + ran[d] <= 1
      BY <2>5, SinglePlace
    <3>3. Count(d, delayed) \in Nat \ {0}
      BY <2>4, <2>5
    <3> QED
      BY <3>1, <3>2, <3>3
  <2>7. InReadyQueue(u)' = InReadyQueue(u) + (IF d = u THEN 1 ELSE 0)
        /\ InReadyQueue(u) \in 0..1
    BY <1>2, <2>6 DEF InReadyQueue
  <2> HIDE DEF d
  <2>8. /\ Count(u, delayed') + (IF d = u THEN 1 ELSE 0) = Count(u, delayed)
        /\ Count(u, delayed') \in Nat /\ Count(u, delayed) \in Nat
    BY <2>4
  <2> QED
    BY <2>7, <2>8
<1> QED
  BY <1>1, <1>2 DEF WakeDelayed

(* A task whose count was above zero is nowhere; if the step makes it zero *)
(* it is put in one place.                                                 *)
LEMMA PlaceActivate ==
  ASSUME Book, PlaceExact, NEW t \in Task, Activate(t), Released(t) = 0,
         UNCHANGED <<ring, wpc, cur, ran>>,
         Released(t)' = 1,
         \A u \in Task \ {t} : Released(u)' = Released(u)
  PROVE  PlaceExact'
<1>0. TypeOK /\ HoldsTask
  BY DEF Book
<1>1. Running' = Running
  BY DEF Running
<1>2. ASSUME NEW u \in Task
      PROVE  /\ Count(u, delayed) \in Nat /\ Count(u, ring) \in Nat
             /\ Count(u, Running) \in Nat /\ ran[u] \in Nat
             /\ InReadyQueue(u) \in 0..1
             /\ InReadyQueue(u) + Count(u, delayed) + Count(u, ring)
                  + Count(u, Running) + ran[u] = Released(u)
  BY <1>0, NumberTypes DEF PlaceExact
<1>3. t \notin ready
  <2>1. InReadyQueue(t) = 0
    BY <1>2
  <2> QED
    BY <2>1 DEF InReadyQueue
<1>4. ASSUME NEW u \in Task
      PROVE  InReadyQueue(u)' + Count(u, delayed') + Count(u, ring')
               + Count(u, Running') + ran'[u] = Released(u)'
  <2>1. InReadyQueue(u)' + Count(u, delayed')
          = InReadyQueue(u) + Count(u, delayed) + (IF u = t THEN 1 ELSE 0)
    BY <1>0, <1>3, ActivatePlaces
  <2>2. Released(u)' = Released(u) + (IF u = t THEN 1 ELSE 0)
    BY <1>2
  <2>3. Count(u, ring') = Count(u, ring) /\ Count(u, Running') = Count(u, Running)
        /\ ran'[u] = ran[u]
    BY <1>1
  <2>4. delayed' \in [Cell -> Seq(Task)] /\ IsFiniteSet(Cell)
    BY <1>0, ActivateTypes, SchedAssumption
  <2>5. Count(u, delayed') \in Nat
    BY <2>4, CountType
  <2>6. InReadyQueue(u)' \in 0..1
    BY DEF InReadyQueue
  <2> QED
    BY <1>2, <2>1, <2>2, <2>3, <2>5, <2>6
<1> QED
  BY <1>4 DEF PlaceExact

-----------------------------------------------------------------------------
(* What the invariant says of one task.                                    *)

LEMMA CountsOf ==
  ASSUME IInv, NEW t \in Task
  PROVE  /\ inCnt[t] = Count(t, Due) + Count(t, todo) + Count(t, Unserved(t))
                         + Times(DepLpc(t), inbox)
         /\ availCnt[t] = Count(t, Away) + Times(AvailLpc(t), inbox)
         /\ availCnt[t] <= Count(t, MsgTo)
         /\ t \in avail => availCnt[t] = 0 /\ Count(t, MsgTo) > 0
         /\ InReadyQueue(t) + Count(t, delayed) + Count(t, ring)
              + Count(t, Running) + ran[t] = Released(t)
         /\ Released(t) \in 0..1
  BY DEF IInv, DepExact, AvailExact, PlaceExact, Released

LEMMA NumbersOf ==
  ASSUME IInv, NEW t \in Task
  PROVE  /\ Count(t, Due) \in Nat /\ Count(t, todo) \in Nat
         /\ Count(t, Unserved(t)) \in Nat /\ Count(t, Away) \in Nat
         /\ Count(t, MsgTo) \in Nat
         /\ Count(t, delayed) \in Nat /\ Count(t, ring) \in Nat
         /\ Count(t, Running) \in Nat /\ ran[t] \in Nat
         /\ Times(DepLpc(t), inbox) \in Nat /\ Times(AvailLpc(t), inbox) \in Nat
         /\ InReadyQueue(t) \in 0..1 /\ inCnt[t] \in Int /\ availCnt[t] \in Int
  BY NumberTypes DEF IInv, Book

LEMMA NothingListed ==
  ASSUME NEW s \in Seq(Task), \A t \in Task : Times(t, s) = 0
  PROVE  s = <<>>
<1> SUFFICES ASSUME s # <<>> PROVE FALSE
  OBVIOUS
<1>1. PICK t \in Task : t = Head(s)
  BY HeadTailProperties
<1>2. Tail(s) \in Seq(Task) /\ Times(t, s) = Times(t, Tail(s)) + 1
  BY <1>1, TimesTail
<1>3. Times(t, Tail(s)) \in Nat
  BY <1>2, TimesType
<1> QED
  BY <1>2, <1>3

(* A task whose count is zero has attached to its messages, which have all *)
(* landed.                                                                 *)
LEMMA Satisfied ==
  ASSUME IInv, NEW t \in Task, inCnt[t] = 0
  PROVE  /\ Count(t, Due) = 0 /\ Count(t, todo) = 0
         /\ Times(DepLpc(t), inbox) = 0 /\ Times(AvailLpc(t), inbox) = 0
         /\ ~Waiting(t)
         /\ \A m \in Msg : msg[m] # "landed" => Times(t, MsgTo[m]) = 0
<1>1. /\ Count(t, Due) = 0 /\ Count(t, todo) = 0 /\ Count(t, Unserved(t)) = 0
      /\ Times(DepLpc(t), inbox) = 0
  <2>1. inCnt[t] = Count(t, Due) + Count(t, todo) + Count(t, Unserved(t))
                     + Times(DepLpc(t), inbox)
    BY CountsOf
  <2>2. /\ Count(t, Due) \in Nat /\ Count(t, todo) \in Nat
        /\ Count(t, Unserved(t)) \in Nat /\ Times(DepLpc(t), inbox) \in Nat
    BY NumbersOf
  <2> QED
    BY <2>1, <2>2
<1>2. IsFiniteSet(Msg) /\ MsgTo \in [Msg -> Seq(Task)]
      /\ Unserved(t) \in [Msg -> Seq(Task)]
  BY FamilyTypes DEF IInv, Book
<1>3. \A m \in Msg : Times(t, Unserved(t)[m]) = 0
  BY <1>1, <1>2, CountNone
<1>4. ~Waiting(t)
  <2> SUFFICES ASSUME Waiting(t) PROVE FALSE
    OBVIOUS
  <2>1. Unserved(t) = MsgTo
    BY <1>2 DEF Unserved
  <2>2. Count(t, MsgTo) = 0
    BY <1>1, <2>1
  <2>3. /\ availCnt[t] <= Count(t, MsgTo) /\ availCnt[t] \in Int
        /\ t \in avail => Count(t, MsgTo) > 0
    BY CountsOf, NumbersOf
  <2> QED
    BY <2>2, <2>3 DEF Waiting
<1>5. \A m \in Msg : msg[m] # "landed" => Times(t, MsgTo[m]) = 0
  BY <1>3, <1>4 DEF Unserved
<1>6. Times(AvailLpc(t), inbox) = 0
  <2>1. /\ availCnt[t] = Count(t, Away) + Times(AvailLpc(t), inbox)
        /\ availCnt[t] \in Int /\ Count(t, Away) \in Nat
        /\ Times(AvailLpc(t), inbox) \in Nat
    BY CountsOf, NumbersOf
  <2>2. ~(availCnt[t] > 0)
    BY <1>4 DEF Waiting
  <2> QED
    BY <2>1, <2>2
<1> QED
  BY <1>1, <1>4, <1>5, <1>6

(* When every task has been handed over, nothing is on its way.            *)
LEMMA AllHandedOver ==
  ASSUME IInv, taskCnt = 0
  PROVE  /\ \A t \in Task : inCnt[t] = 0 /\ InReadyQueue(t) = 0 /\ Count(t, delayed) = 0
         /\ \A m \in Msg : msg[m] # "landed" => MsgTo[m] = <<>> /\ thens[m] = <<>>
<1>1. Task \ Assigned = {}
  <2>1. IsFiniteSet(Task \ Assigned)
    BY SchedAssumption, FS_Subset
  <2>2. Cardinality(Task \ Assigned) = 0
    BY DEF IInv, LoopExact
  <2> QED
    BY <2>1, <2>2, FS_EmptySet
<1>2. ASSUME NEW t \in Task
      PROVE  inCnt[t] = 0 /\ InReadyQueue(t) = 0 /\ Count(t, delayed) = 0
  <2>1. Count(t, ring) + Count(t, Running) + ran[t] > 0
    BY <1>1 DEF Assigned
  <2>2. Released(t) = 1 /\ InReadyQueue(t) = 0 /\ Count(t, delayed) = 0
    <3>1. /\ InReadyQueue(t) + Count(t, delayed) + Count(t, ring)
               + Count(t, Running) + ran[t] = Released(t)
          /\ Released(t) \in 0..1
      BY CountsOf
    <3>2. /\ InReadyQueue(t) \in Nat /\ Count(t, delayed) \in Nat
          /\ Count(t, ring) \in Nat /\ Count(t, Running) \in Nat /\ ran[t] \in Nat
      BY NumbersOf
    <3>3. PICK a, b, c, d, e, n :
            /\ a = InReadyQueue(t) /\ b = Count(t, delayed) /\ c = Count(t, ring)
            /\ d = Count(t, Running) /\ e = ran[t] /\ n = Released(t)
      OBVIOUS
    <3>4. /\ a \in Nat /\ b \in Nat /\ c \in Nat /\ d \in Nat /\ e \in Nat
          /\ n \in 0..1 /\ a + b + c + d + e = n /\ c + d + e > 0
      BY <2>1, <3>1, <3>2, <3>3
    <3>5. n = 1 /\ a = 0 /\ b = 0
      BY <3>4
    <3> QED
      BY <3>3, <3>5
  <2> QED
    BY <2>2 DEF Released
<1>3. ASSUME NEW m \in Msg, msg[m] # "landed"
      PROVE  MsgTo[m] = <<>> /\ thens[m] = <<>>
  <2>1. \A t \in Task : Times(t, MsgTo[m]) = 0
    BY <1>2, <1>3, Satisfied
  <2>2. ASSUME NEW t \in Task PROVE Times(t, thens[m]) = 0
    <3>1. Cardinality(UsesOf(t, m)) = 0
      BY <2>1, UsesCount
    <3> QED
      BY <3>1 DEF IInv, CallbacksExact
  <2>3. MsgTo[m] \in Seq(Task) /\ thens[m] \in Seq(Task)
    BY SchedAssumption DEF IInv, Book, TypeOK
  <2> QED
    BY <2>1, <2>2, <2>3, NothingListed
<1> QED
  BY <1>2, <1>3

-----------------------------------------------------------------------------
(* The end of execute.                                                     *)

LEMMA ExitPop ==
  ASSUME IInv, InProgress, inbox # <<>>, PopLpc, UNCHANGED <<mpc, wpc>>
  PROVE  ExitExact'
<1>1. inbox \in Seq(Lpc) /\ inbox' = Tail(inbox) /\ burst \in Nat
  BY DEF IInv, Book, TypeOK, PopLpc
<1>2. Len(inbox) \in Nat /\ Len(inbox) >= 1 /\ Len(inbox') = Len(inbox) - 1
  BY <1>1, HeadTailProperties, LenProperties, EmptySeq
<1>3. burst' = IF burst > 0 THEN burst - 1 ELSE 0
  BY DEF PopLpc
<1>4. mpc = "final" => Len(inbox) <= burst
  BY DEF IInv, ExitExact
<1>5. mpc' = "final" => Len(inbox') <= burst'
  BY <1>1, <1>2, <1>3, <1>4
<1> QED
  BY <1>5 DEF IInv, ExitExact, InProgress

LEMMA ExitWorker ==
  ASSUME IInv, NEW w \in Worker, wpc[w] # "exit", UNCHANGED mpc
  PROVE  ExitExact'
  BY DEF IInv, ExitExact

LEMMA ExitKept ==
  ASSUME ExitExact, UNCHANGED <<mpc, wpc, inbox, burst>>
  PROVE  ExitExact'
  BY DEF ExitExact

LEMMA ExitEarly ==
  ASSUME mpc' \notin {"final", "end"} PROVE ExitExact'
  BY DEF ExitExact

(* The vector of tasks names each one once.                                *)
LEMMA OrderOnce ==
  \A i, j \in DOMAIN Order : Order[i] = Order[j] => i = j
<1> DEFINE n == Len(Order)
<1>1. n \in Nat /\ DOMAIN Order = 1..n /\ Order \in [1..n -> Task]
  BY SchedAssumption, LenProperties
<1>2. IsFiniteSet(1..n) /\ Cardinality(1..n) = n
  BY <1>1, UpTo
<1>3. Order \in Surjection(1..n, Task)
  BY <1>1, OrderIsTaskGraph DEF Surjection
<1>4. Cardinality(1..n) = Cardinality(Task) /\ IsFiniteSet(Task)
  BY <1>2, OrderIsTaskGraph, SchedAssumption
<1>5. Order \in Injection(1..n, Task)
  BY <1>2, <1>3, <1>4, FS_SurjSameCardinalityImpliesInj
<1> QED
  BY <1>1, <1>5 DEF Injection, IsInjective

-----------------------------------------------------------------------------
(* The steps that only move the master thread.                             *)

LEMMA IMove == IInv /\ MasterMove => IInv'
<1> SUFFICES ASSUME IInv, MasterMove PROVE IInv'
  OBVIOUS
<1>1. /\ UNCHANGED <<pos, taskCnt, ready, avail, inCnt, availCnt, msg, thens>>
      /\ UNCHANGED <<inUse, delayed, inbox, free, load, ring, wpc, cur, todo, ran>>
  BY DEF MasterMove, StartWorkers, EnterProgress, LeaveProgress, LoopBack,
         LeaveLoop, SetDone, Join, Barrier, queueVars, commVars, lockVars,
         poolVars, workerVars
<1>2. Book'
  BY BookMove DEF IInv
<1>3. DepExact' /\ AvailExact' /\ CallbacksExact' /\ TodoExact'
  BY <1>1, DepKept, AvailKept, CallbacksKept, TodoKept DEF IInv
<1>4. Seen' = Seen
  <2>1. CASE StartWorkers
    <3>1. mpc = "setup" /\ pos > Len(Order) /\ mpc' = "assign"
      BY <2>1 DEF StartWorkers
    <3>2. Len(Order) \in Nat /\ DOMAIN Order = 1..Len(Order) /\ pos \in Nat
      BY SchedAssumption, LenProperties DEF IInv, Book, TypeOK
    <3>3. {j \in DOMAIN Order : j < pos} = DOMAIN Order
      BY <3>1, <3>2
    <3> QED
      BY <3>1, <3>3, OrderIsTaskGraph DEF Seen
  <2>2. CASE ~StartWorkers
    <3>1. mpc # "setup" /\ mpc' # "setup"
      BY <2>2 DEF MasterMove, EnterProgress, LeaveProgress, LoopBack,
                  LeaveLoop, SetDone, Join, Barrier
    <3> QED
      BY <3>1, SeenKept
  <2> QED
    BY <2>1, <2>2
<1>5. PlaceExact'
  BY <1>1, <1>4, PlaceKept DEF IInv
<1>6. LoopExact'
  <2>1. mpc' \in {"drain", "join", "final", "end"} =>
          mpc \in {"drain", "join", "final", "end"} \/ taskCnt = 0
    BY DEF MasterMove, StartWorkers, EnterProgress, LeaveProgress, LoopBack,
           LeaveLoop, SetDone, Join, Barrier
  <2> QED
    BY <1>1, <2>1, LoopKept DEF IInv
<1>7. ExitExact'
  <2>1. CASE Join
    <3>1. Len(inbox) \in Nat
      BY LenProperties DEF IInv, Book, TypeOK
    <3> QED
      BY <1>1, <2>1, <3>1 DEF Join, ExitExact
  <2>2. CASE Barrier
    <3>1. mpc = "final" /\ mpc' = "end" /\ burst = 0
      BY <2>2 DEF Barrier
    <3>2. inbox \in Seq(Lpc) /\ Len(inbox) \in Nat /\ Len(inbox) <= 0
      BY <3>1, LenProperties DEF IInv, Book, TypeOK, ExitExact
    <3>3. inbox = <<>>
      BY <3>2, EmptySeq
    <3> QED
      BY <1>1, <3>1, <3>3 DEF IInv, ExitExact
  <2>3. CASE ~Join /\ ~Barrier
    <3>1. mpc' \notin {"final", "end"}
      BY <2>3 DEF MasterMove, StartWorkers, EnterProgress, LeaveProgress,
                  LoopBack, LeaveLoop, SetDone
    <3> QED
      BY <3>1, ExitEarly
  <2> QED
    BY <2>1, <2>2, <2>3
<1> QED
  BY <1>2, <1>3, <1>5, <1>6, <1>7 DEF IInv

-----------------------------------------------------------------------------
(* The steps of the master thread that handle tasks.                       *)

LEMMA ISetup == IInv /\ Setup => IInv'
<1> SUFFICES ASSUME IInv, Setup PROVE IInv'
  OBVIOUS
<1>0. TypeOK /\ HoldsTask
  BY DEF IInv, Book
<1>1. /\ UNCHANGED <<mpc, taskCnt, burst, avail, inCnt, availCnt, msg, thens>>
      /\ UNCHANGED <<inbox, free, load, ring, wpc, cur, todo, ran>>
      /\ mpc = "setup" /\ pos <= Len(Order) /\ pos' = pos + 1
  BY DEF Setup, commVars, poolVars, workerVars
<1>2. Book'
  BY BookSetup DEF IInv
<1>3. DepExact' /\ AvailExact' /\ CallbacksExact' /\ TodoExact'
  BY <1>1, DepKept, AvailKept, CallbacksKept, TodoKept DEF IInv
<1>4. LoopExact' /\ ExitExact'
  BY <1>1, LoopKept, ExitKept DEF IInv
<1>5. PICK t : t = Order[pos]
  OBVIOUS
<1>6. /\ Len(Order) \in Nat /\ DOMAIN Order = 1..Len(Order) /\ pos \in 1..Len(Order)
      /\ t \in Task
  BY <1>0, <1>1, <1>5, SchedAssumption, LenProperties, ElementOfSeq DEF TypeOK
<1>7. \A i, j \in DOMAIN Order : Order[i] = Order[j] => i = j
  BY OrderOnce
<1>8. Seen' = Seen \cup {t} /\ t \notin Seen
  <2>1. {j \in DOMAIN Order : j < pos'} = {j \in DOMAIN Order : j < pos} \cup {pos}
    BY <1>1, <1>6
  <2>2. Seen = {Order[i] : i \in {j \in DOMAIN Order : j < pos}}
    BY <1>1 DEF Seen
  <2>3. Seen' = {Order[i] : i \in {j \in DOMAIN Order : j < pos'}}
    BY <1>1 DEF Seen
  <2>4. t \notin Seen
    BY <1>5, <1>6, <1>7, <2>2
  <2> QED
    BY <1>5, <2>1, <2>2, <2>3, <2>4
<1>9. Released(t) = 0
  BY <1>8 DEF Released
<1>10. \A u \in Task \ {t} : Released(u)' = Released(u)
  BY <1>1, <1>8 DEF Released
<1>11. PlaceExact'
  <2>1. CASE inCnt[t] = 0
    <3>1. Activate(t)
      BY <1>5, <2>1 DEF Setup
    <3>2. Released(t)' = 1
      BY <1>1, <1>8, <2>1 DEF Released
    <3> QED
      BY <1>1, <1>6, <1>9, <1>10, <3>1, <3>2, PlaceActivate DEF IInv
  <2>2. CASE inCnt[t] # 0
    <3>1. UNCHANGED <<ready, delayed>>
      BY <1>5, <2>2 DEF Setup
    <3>2. \A u \in Task : Released(u)' = Released(u)
      BY <1>1, <1>9, <1>10, <2>2 DEF Released
    <3>3. Running' = Running
      BY <1>1 DEF Running
    <3> QED
      BY <1>1, <3>1, <3>2, <3>3 DEF IInv, PlaceExact, InReadyQueue
  <2> QED
    BY <2>1, <2>2
<1> QED
  BY <1>2, <1>3, <1>4, <1>11 DEF IInv

LEMMA IHandleDone == IInv /\ HandleDone => IInv'
<1> SUFFICES ASSUME IInv, HandleDone PROVE IInv'
  OBVIOUS
<1>0. TypeOK /\ HoldsTask
  BY DEF IInv, Book
<1>1. /\ UNCHANGED <<mpc, pos, taskCnt, avail, inCnt, availCnt, msg, thens>>
      /\ UNCHANGED <<ring, wpc, cur, todo, ran>>
      /\ inbox # <<>> /\ Head(inbox).kind = "done" /\ PopLpc /\ InProgress
      /\ WakeDelayed(Head(inbox).cell)
  BY DEF HandleDone, NextLpc, commVars, workerVars
<1>2. Book'
  BY BookHandleDone DEF IInv
<1>3. /\ \A t : Times(DepLpc(t), inbox') = Times(DepLpc(t), inbox)
      /\ \A t : Times(AvailLpc(t), inbox') = Times(AvailLpc(t), inbox)
  <2>1. /\ \A t : Times(DepLpc(t), inbox) = Times(DepLpc(t), inbox')
                     + (IF Head(inbox) = DepLpc(t) THEN 1 ELSE 0)
        /\ \A t : Times(AvailLpc(t), inbox) = Times(AvailLpc(t), inbox')
                     + (IF Head(inbox) = AvailLpc(t) THEN 1 ELSE 0)
        /\ \A x : Times(x, inbox') \in Nat
        /\ \A t : Head(inbox) # DepLpc(t) /\ Head(inbox) # AvailLpc(t)
    BY <1>0, <1>1, OldestTaken
  <2> QED
    BY <2>1
<1>4. DepExact' /\ AvailExact' /\ CallbacksExact' /\ TodoExact'
  BY <1>1, <1>3, DepKept, AvailKept, CallbacksKept, TodoKept DEF IInv
<1>5. LoopExact' /\ ExitExact'
  BY <1>1, LoopKept, ExitPop DEF IInv
<1>6. Head(inbox).cell \in Cell \cup {NoCell}
  BY <1>0, <1>1, PopTypes, LpcKinds
<1>7. Running' = Running /\ Seen' = Seen
  BY <1>1, SeenKept DEF Running
<1>8. ASSUME NEW u \in Task
      PROVE  InReadyQueue(u)' + Count(u, delayed') + Count(u, ring')
               + Count(u, Running') + ran'[u] = Released(u)'
  <2>1. InReadyQueue(u)' + Count(u, delayed') = InReadyQueue(u) + Count(u, delayed)
    BY <1>1, <1>6, WakePlaces DEF IInv
  <2>2. InReadyQueue(u) + Count(u, delayed) + Count(u, ring)
          + Count(u, Running) + ran[u] = Released(u)
    BY CountsOf
  <2>3. /\ Count(u, ring') = Count(u, ring) /\ Count(u, Running') = Count(u, Running)
        /\ ran'[u] = ran[u] /\ Released(u)' = Released(u)
    BY <1>1, <1>7 DEF Released
  <2> QED
    BY <2>1, <2>2, <2>3
<1>9. PlaceExact'
  BY <1>8 DEF PlaceExact
<1> QED
  BY <1>2, <1>4, <1>5, <1>9 DEF IInv

LEMMA IHandleDep == IInv /\ HandleDep => IInv'
<1> SUFFICES ASSUME IInv, HandleDep PROVE IInv'
  OBVIOUS
<1>0. TypeOK /\ HoldsTask
  BY DEF IInv, Book
<1>1. PICK t : t = Head(inbox).task
  OBVIOUS
<1>2. /\ UNCHANGED <<mpc, pos, taskCnt, avail, availCnt, msg, thens>>
      /\ UNCHANGED <<ring, wpc, cur, todo, ran>>
      /\ inbox # <<>> /\ Head(inbox).kind = "dep" /\ PopLpc /\ InProgress
      /\ inCnt' = [inCnt EXCEPT ![t] = @ - 1]
  BY <1>1 DEF HandleDep, NextLpc, commVars, poolVars, workerVars
<1>3. Book'
  BY BookHandleDep DEF IInv
<1>4. /\ t \in Task /\ Head(inbox) = DepLpc(t)
      /\ \A u : Times(DepLpc(u), inbox)
                  = Times(DepLpc(u), inbox') + (IF u = t THEN 1 ELSE 0)
      /\ \A u : Times(AvailLpc(u), inbox') = Times(AvailLpc(u), inbox)
      /\ \A u : Times(DepLpc(u), inbox') \in Nat
  <2>1. /\ \A u : Times(DepLpc(u), inbox) = Times(DepLpc(u), inbox')
                     + (IF Head(inbox) = DepLpc(u) THEN 1 ELSE 0)
        /\ \A u : Times(AvailLpc(u), inbox) = Times(AvailLpc(u), inbox')
                     + (IF Head(inbox) = AvailLpc(u) THEN 1 ELSE 0)
        /\ \A x : Times(x, inbox') \in Nat
        /\ t \in Task /\ Head(inbox) = DepLpc(t)
    BY <1>0, <1>1, <1>2, OldestTaken
  <2>2. \A u : DepLpc(t) = DepLpc(u) <=> t = u
    BY Kinds
  <2>3. \A u : DepLpc(t) # AvailLpc(u)
    BY Kinds
  <2>4. \A u : Times(DepLpc(u), inbox)
                 = Times(DepLpc(u), inbox') + (IF u = t THEN 1 ELSE 0)
    BY <2>1, <2>2
  <2>5. \A u : Times(AvailLpc(u), inbox') = Times(AvailLpc(u), inbox)
    BY <2>1, <2>3
  <2> QED
    BY <2>1, <2>4, <2>5
<1>5. AvailExact' /\ CallbacksExact' /\ TodoExact'
  BY <1>2, <1>4, AvailKept, CallbacksKept, TodoKept DEF IInv
<1>6. LoopExact' /\ ExitExact'
  BY <1>2, LoopKept, ExitPop DEF IInv
<1>7. \A u \in Task : inCnt'[u] = inCnt[u] - (IF u = t THEN 1 ELSE 0)
  BY <1>0, <1>2 DEF TypeOK
<1>8. DepExact'
  <2>1. Due' = Due /\ \A u : Unserved(u)' = Unserved(u)
    BY <1>2 DEF Due, Unserved, Waiting
  <2>2. ASSUME NEW u \in Task
        PROVE  inCnt'[u] = Count(u, Due)' + Count(u, todo)' + Count(u, Unserved(u))'
                             + Times(DepLpc(u), inbox)'
    <3>1. inCnt[u] = Count(u, Due) + Count(u, todo) + Count(u, Unserved(u))
                       + Times(DepLpc(u), inbox)
      BY CountsOf
    <3>2. /\ Count(u, Due) \in Nat /\ Count(u, todo) \in Nat
          /\ Count(u, Unserved(u)) \in Nat /\ Times(DepLpc(u), inbox) \in Nat
      BY NumbersOf
    <3>3. /\ Times(DepLpc(u), inbox)
               = Times(DepLpc(u), inbox') + (IF u = t THEN 1 ELSE 0)
          /\ Times(DepLpc(u), inbox') \in Nat
      BY <1>4
    <3>4. inCnt'[u] = inCnt[u] - (IF u = t THEN 1 ELSE 0)
      BY <1>7
    <3>5. inCnt'[u] = Count(u, Due) + Count(u, todo) + Count(u, Unserved(u))
                        + Times(DepLpc(u), inbox')
      BY <3>1, <3>2, <3>3, <3>4
    <3> QED
      BY <1>2, <2>1, <3>5
  <2> QED
    BY <2>2 DEF DepExact
<1>9. inCnt[t] > 0
  <2>1. inCnt[t] = Count(t, Due) + Count(t, todo) + Count(t, Unserved(t))
                     + Times(DepLpc(t), inbox)
    BY <1>4, CountsOf
  <2>2. /\ Count(t, Due) \in Nat /\ Count(t, todo) \in Nat
        /\ Count(t, Unserved(t)) \in Nat
    BY <1>4, NumbersOf
  <2>3. Times(DepLpc(t), inbox) = Times(DepLpc(t), inbox') + 1
        /\ Times(DepLpc(t), inbox') \in Nat
    BY <1>4
  <2> QED
    BY <2>1, <2>2, <2>3
<1>10. Seen = Task /\ Seen' = Task
  BY <1>2 DEF Seen, InProgress
<1>11. Released(t) = 0
  BY <1>9 DEF Released
<1>12. \A u \in Task \ {t} : Released(u)' = Released(u)
  BY <1>7, <1>10, NumbersOf DEF Released
<1>13. PlaceExact'
  <2>1. CASE inCnt[t] = 1
    <3>1. Activate(t)
      BY <1>1, <2>1 DEF HandleDep
    <3>2. Released(t)' = 1
      BY <1>4, <1>7, <1>10, <2>1 DEF Released
    <3> QED
      BY <1>2, <1>4, <1>11, <1>12, <3>1, <3>2, PlaceActivate DEF IInv
  <2>2. CASE inCnt[t] # 1
    <3>1. UNCHANGED <<ready, delayed>>
      BY <1>1, <2>2 DEF HandleDep
    <3>2. inCnt'[t] # 0
      BY <1>4, <1>7, <2>2, NumbersOf
    <3>3. \A u \in Task : Released(u)' = Released(u)
      BY <1>11, <1>12, <3>2 DEF Released
    <3>4. Running' = Running
      BY <1>2 DEF Running
    <3> QED
      BY <1>2, <3>1, <3>3, <3>4 DEF IInv, PlaceExact, InReadyQueue
  <2> QED
    BY <2>1, <2>2
<1> QED
  BY <1>3, <1>5, <1>6, <1>8, <1>13 DEF IInv

LEMMA IHandleAvail == IInv /\ HandleAvail => IInv'
<1> SUFFICES ASSUME IInv, HandleAvail PROVE IInv'
  OBVIOUS
<1>0. TypeOK /\ HoldsTask
  BY DEF IInv, Book
<1>1. PICK t : t = Head(inbox).task
  OBVIOUS
<1>2. /\ UNCHANGED <<mpc, pos, taskCnt, ready, inCnt, msg, thens>>
      /\ UNCHANGED <<inUse, delayed, free, load, ring, wpc, cur, todo, ran>>
      /\ inbox # <<>> /\ Head(inbox).kind = "avail" /\ PopLpc /\ InProgress
      /\ availCnt' = [availCnt EXCEPT ![t] = @ - 1]
      /\ avail' = IF availCnt[t] = 1 THEN avail \cup {t} ELSE avail
  BY <1>1 DEF HandleAvail, NextLpc, commVars, lockVars, poolVars, workerVars
<1>3. Book'
  BY BookHandleAvail DEF IInv
<1>4. /\ t \in Task
      /\ \A u : Times(AvailLpc(u), inbox)
                  = Times(AvailLpc(u), inbox') + (IF u = t THEN 1 ELSE 0)
      /\ \A u : Times(DepLpc(u), inbox') = Times(DepLpc(u), inbox)
      /\ \A u : Times(AvailLpc(u), inbox') \in Nat
  <2>1. /\ \A u : Times(DepLpc(u), inbox) = Times(DepLpc(u), inbox')
                     + (IF Head(inbox) = DepLpc(u) THEN 1 ELSE 0)
        /\ \A u : Times(AvailLpc(u), inbox) = Times(AvailLpc(u), inbox')
                     + (IF Head(inbox) = AvailLpc(u) THEN 1 ELSE 0)
        /\ \A x : Times(x, inbox') \in Nat
        /\ t \in Task /\ Head(inbox) = AvailLpc(t)
    BY <1>0, <1>1, <1>2, OldestTaken
  <2>2. \A u : AvailLpc(t) = AvailLpc(u) <=> t = u
    BY Kinds
  <2>3. \A u : AvailLpc(t) # DepLpc(u)
    BY Kinds
  <2>4. \A u : Times(AvailLpc(u), inbox)
                 = Times(AvailLpc(u), inbox') + (IF u = t THEN 1 ELSE 0)
    BY <2>1, <2>2
  <2>5. \A u : Times(DepLpc(u), inbox') = Times(DepLpc(u), inbox)
    BY <2>1, <2>3
  <2> QED
    BY <2>1, <2>4, <2>5
<1>5. \A u \in Task : availCnt'[u] = availCnt[u] - (IF u = t THEN 1 ELSE 0)
  BY <1>0, <1>2 DEF TypeOK
<1>6. availCnt[t] > 0 /\ Count(t, MsgTo) > 0 /\ t \notin avail
  <2>1. /\ availCnt[t] = Count(t, Away) + Times(AvailLpc(t), inbox)
        /\ availCnt[t] <= Count(t, MsgTo)
        /\ t \in avail => availCnt[t] = 0
    BY <1>4, CountsOf
  <2>2. Count(t, Away) \in Nat /\ Count(t, MsgTo) \in Nat
    BY <1>4, NumbersOf
  <2>3. Times(AvailLpc(t), inbox) = Times(AvailLpc(t), inbox') + 1
        /\ Times(AvailLpc(t), inbox') \in Nat
    BY <1>4
  <2> QED
    BY <2>1, <2>2, <2>3
<1>7. \A u \in Task : Waiting(u)' <=> Waiting(u)
  <2> SUFFICES ASSUME NEW u \in Task PROVE Waiting(u)' <=> Waiting(u)
    OBVIOUS
  <2>1. CASE u # t
    BY <1>2, <1>5, <2>1, NumbersOf DEF Waiting
  <2>2. CASE u = t
    <3>1. availCnt[t] \in Int /\ availCnt'[t] = availCnt[t] - 1
      BY <1>4, <1>5, NumbersOf
    <3> QED
      BY <1>2, <1>6, <2>2, <3>1 DEF Waiting
  <2> QED
    BY <2>1, <2>2
<1>8. \A u \in Task : Unserved(u)' = Unserved(u)
  BY <1>2, <1>7 DEF Unserved
<1>9. DepExact'
  <2>1. Due' = Due
    BY <1>2 DEF Due
  <2>2. ASSUME NEW u \in Task
        PROVE  inCnt'[u] = Count(u, Due)' + Count(u, todo)' + Count(u, Unserved(u))'
                             + Times(DepLpc(u), inbox)'
    <3>1. inCnt[u] = Count(u, Due) + Count(u, todo) + Count(u, Unserved(u))
                       + Times(DepLpc(u), inbox)
      BY CountsOf
    <3>2. Times(DepLpc(u), inbox') = Times(DepLpc(u), inbox)
          /\ Unserved(u)' = Unserved(u)
      BY <1>4, <1>8
    <3> QED
      BY <1>2, <2>1, <3>1, <3>2
  <2> QED
    BY <2>2 DEF DepExact
<1>10. AvailExact'
  <2>1. Away' = Away
    BY <1>2 DEF Away
  <2>2. ASSUME NEW u \in Task
        PROVE  /\ availCnt'[u] = Count(u, Away)' + Times(AvailLpc(u), inbox)'
               /\ availCnt'[u] <= Count(u, MsgTo)
               /\ u \in avail' => availCnt'[u] = 0 /\ Count(u, MsgTo) > 0
    <3>1. /\ availCnt[u] = Count(u, Away) + Times(AvailLpc(u), inbox)
          /\ availCnt[u] <= Count(u, MsgTo)
          /\ u \in avail => availCnt[u] = 0 /\ Count(u, MsgTo) > 0
      BY CountsOf
    <3>2. /\ Count(u, Away) \in Nat /\ Count(u, MsgTo) \in Nat
          /\ availCnt[u] \in Int /\ Times(AvailLpc(u), inbox) \in Nat
      BY NumbersOf
    <3>3. /\ Times(AvailLpc(u), inbox)
               = Times(AvailLpc(u), inbox') + (IF u = t THEN 1 ELSE 0)
          /\ Times(AvailLpc(u), inbox') \in Nat
          /\ availCnt'[u] = availCnt[u] - (IF u = t THEN 1 ELSE 0)
      BY <1>4, <1>5
    <3>4. availCnt'[u] = Count(u, Away) + Times(AvailLpc(u), inbox')
      BY <3>1, <3>2, <3>3
    <3>5. availCnt'[u] <= Count(u, MsgTo)
      BY <3>1, <3>2, <3>3
    <3>6. ASSUME u \in avail' PROVE availCnt'[u] = 0 /\ Count(u, MsgTo) > 0
      <4>1. CASE u = t
        BY <1>2, <1>6, <3>2, <3>3, <3>6, <4>1
      <4>2. CASE u # t
        <5>1. u \in avail
          BY <1>2, <3>6, <4>2
        <5>2. availCnt'[u] = availCnt[u]
          BY <3>2, <3>3, <4>2
        <5> QED
          BY <3>1, <5>1, <5>2
      <4> QED
        BY <4>1, <4>2
    <3> QED
      BY <2>1, <3>4, <3>5, <3>6
  <2> QED
    BY <2>2 DEF AvailExact
<1>11. CallbacksExact'
  BY <1>2, <1>7 DEF IInv, CallbacksExact
<1>12. TodoExact' /\ LoopExact' /\ ExitExact'
  BY <1>2, TodoKept, LoopKept, ExitPop DEF IInv
<1>13. PlaceExact'
  BY <1>2, SeenKept, PlaceKept DEF IInv
<1> QED
  BY <1>3, <1>9, <1>10, <1>11, <1>12, <1>13 DEF IInv

LEMMA IAssign ==
  ASSUME NEW t \in Task
  PROVE  IInv /\ Assign(t) => IInv'
<1> SUFFICES ASSUME IInv, Assign(t) PROVE IInv'
  OBVIOUS
<1>0. TypeOK /\ HoldsTask
  BY DEF IInv, Book
<1>1. PICK w : w = Head(free)
  OBVIOUS
<1>2. /\ UNCHANGED <<mpc, pos, burst, avail, inCnt, availCnt, msg, thens>>
      /\ UNCHANGED <<inUse, delayed, inbox, wpc, cur, todo, ran>>
      /\ mpc = "assign" /\ free # <<>> /\ t \in ready
      /\ ring' = [ring EXCEPT ![w] = Append(@, t)]
      /\ ready' = ready \ {t} /\ taskCnt' = taskCnt - 1
  BY <1>1 DEF Assign, Top, commVars, lockVars, workerVars
<1>3. Book'
  BY BookAssign DEF IInv
<1>4. DepExact' /\ AvailExact' /\ CallbacksExact' /\ TodoExact'
  BY <1>2, DepKept, AvailKept, CallbacksKept, TodoKept DEF IInv
<1>5. ExitExact'
  BY <1>2, ExitEarly
<1>6. w \in Worker /\ ring \in [Worker -> Seq(Task)] /\ IsFiniteSet(Worker)
  BY <1>0, <1>1, <1>2, SchedAssumption, HeadTailProperties DEF TypeOK
<1>7. ring' \in [Worker -> Seq(Task)]
  BY <1>3 DEF Book, TypeOK
<1>8. OneChanged(Worker, ring, ring', w)
  BY <1>2, <1>6, <1>7 DEF OneChanged
<1>9. Running' = Running /\ Seen' = Seen
  BY <1>2, SeenKept DEF Running
<1>10. ASSUME NEW u \in Task
       PROVE  /\ Count(u, ring') = Count(u, ring) + (IF t = u THEN 1 ELSE 0)
              /\ Count(u, ring') \in Nat
  <2>1. /\ Count(u, ring') + Times(u, ring[w]) = Count(u, ring) + Times(u, ring'[w])
        /\ Count(u, ring') \in Nat /\ Count(u, ring) \in Nat
        /\ Times(u, ring[w]) \in Nat /\ Times(u, ring'[w]) \in Nat
    BY <1>8, CountChange
  <2>2. ring'[w] = Append(ring[w], t)
    BY <1>2, <1>6
  <2>3. Times(u, Append(ring[w], t)) = Times(u, ring[w]) + (IF t = u THEN 1 ELSE 0)
    BY <1>6, TimesAppend
  <2>4. Times(u, ring'[w]) = Times(u, ring[w]) + (IF t = u THEN 1 ELSE 0)
    BY <2>2, <2>3
  <2> QED
    BY <2>1, <2>4
<1>11. ASSUME NEW u \in Task
       PROVE  InReadyQueue(u) = InReadyQueue(u)' + (IF t = u THEN 1 ELSE 0)
  BY <1>2 DEF InReadyQueue
<1>12. PlaceExact'
  <2>1. ASSUME NEW u \in Task
        PROVE  InReadyQueue(u)' + Count(u, delayed') + Count(u, ring')
                 + Count(u, Running') + ran'[u] = Released(u)'
    <3>1. InReadyQueue(u) + Count(u, delayed) + Count(u, ring)
            + Count(u, Running) + ran[u] = Released(u)
      BY CountsOf
    <3>2. /\ Count(u, delayed) \in Nat /\ Count(u, ring) \in Nat
          /\ Count(u, Running) \in Nat /\ ran[u] \in Nat
      BY NumbersOf
    <3>3. InReadyQueue(u)' \in 0..1
      BY DEF InReadyQueue
    <3>4. Released(u)' = Released(u)
      BY <1>2, <1>9 DEF Released
    <3>5. /\ Count(u, ring') = Count(u, ring) + (IF t = u THEN 1 ELSE 0)
          /\ Count(u, ring') \in Nat
          /\ InReadyQueue(u) = InReadyQueue(u)' + (IF t = u THEN 1 ELSE 0)
      BY <1>10, <1>11
    <3>6. InReadyQueue(u)' + Count(u, delayed) + Count(u, ring')
            + Count(u, Running) + ran[u] = Released(u)
      BY <3>1, <3>2, <3>3, <3>5
    <3> QED
      BY <1>2, <1>9, <3>4, <3>6
  <2> QED
    BY <2>1 DEF PlaceExact
<1>13. LoopExact'
  <2>1. t \notin Assigned
    <3>1. /\ InReadyQueue(t) + Count(t, delayed) + Count(t, ring)
               + Count(t, Running) + ran[t] = Released(t)
          /\ Released(t) \in 0..1
      BY CountsOf
    <3>2. /\ Count(t, delayed) \in Nat /\ Count(t, ring) \in Nat
          /\ Count(t, Running) \in Nat /\ ran[t] \in Nat
      BY NumbersOf
    <3>3. InReadyQueue(t) = 1
      BY <1>2 DEF InReadyQueue
    <3>4. Count(t, ring) + Count(t, Running) + ran[t] = 0
      BY <3>1, <3>2, <3>3
    <3> QED
      BY <3>4 DEF Assigned
  <2>2. Assigned' = Assigned \cup {t}
    <3>1. Assigned' = {u \in Task : Count(u, ring') + Count(u, Running') + ran'[u] > 0}
      BY DEF Assigned
    <3>2. ASSUME NEW u \in Task
          PROVE  Count(u, ring') + Count(u, Running') + ran'[u] > 0
                   <=> u = t \/ u \in Assigned
      <4>1. /\ Count(u, ring) \in Nat
            /\ Count(u, Running) \in Nat /\ ran[u] \in Nat
        BY NumbersOf
      <4>2. Count(u, ring') = Count(u, ring) + (IF t = u THEN 1 ELSE 0)
        BY <1>10
      <4>3. u \in Assigned <=> Count(u, ring) + Count(u, Running) + ran[u] > 0
        BY DEF Assigned
      <4>4. Count(u, ring') + Count(u, Running) + ran[u] > 0
              <=> u = t \/ u \in Assigned
        BY <4>1, <4>2, <4>3
      <4> QED
        BY <1>2, <1>9, <4>4
    <3>3. Assigned \subseteq Task
      BY DEF Assigned
    <3> QED
      BY <3>1, <3>2, <3>3
  <2>3. Task \ Assigned' = (Task \ Assigned) \ {t}
    BY <2>2
  <2>4. IsFiniteSet(Task \ Assigned)
    BY SchedAssumption, FS_Subset
  <2>5. Cardinality((Task \ Assigned) \ {t}) = Cardinality(Task \ Assigned) - 1
    BY <2>1, <2>4, FS_RemoveElement
  <2>6. taskCnt = Cardinality(Task \ Assigned)
    BY DEF IInv, LoopExact
  <2>7. taskCnt' = Cardinality(Task \ Assigned')
    BY <1>2, <2>3, <2>5, <2>6
  <2> QED
    BY <1>2, <2>7 DEF LoopExact
<1> QED
  BY <1>3, <1>4, <1>5, <1>12, <1>13 DEF IInv

-----------------------------------------------------------------------------
(* The messages.                                                           *)

LEMMA PostedTimes ==
  ASSUME TypeOK, NEW u \in Seq(Lpc), inbox' = inbox \o u
  PROVE  \A x : /\ Times(x, inbox') = Times(x, inbox) + Times(x, u)
                /\ Times(x, inbox) \in Nat /\ Times(x, u) \in Nat
<1> SUFFICES ASSUME NEW x
             PROVE  /\ Times(x, inbox') = Times(x, inbox) + Times(x, u)
                    /\ Times(x, inbox) \in Nat /\ Times(x, u) \in Nat
  OBVIOUS
<1>1. inbox \in Seq(Lpc)
  BY DEF TypeOK
<1>2. Times(x, inbox \o u) = Times(x, inbox) + Times(x, u)
  BY <1>1, TimesConcat
<1>3. Times(x, inbox) \in Nat /\ Times(x, u) \in Nat
  BY <1>1, TimesType
<1> QED
  BY <1>2, <1>3

LEMMA NothingPosted ==
  ASSUME NEW s \in Seq(Lpc)
  PROVE  s \o DepLpcs(<<>>) = s /\ s \o AvailLpcs(<<>>) = s
<1>1. <<>> \in Seq(Task) /\ Len(<<>>) = 0
  BY EmptySeq
<1>2. DepLpcs(<<>>) \in Seq(Lpc) /\ AvailLpcs(<<>>) \in Seq(Lpc)
  BY <1>1, MsgSeqTypes
<1>3. Len(DepLpcs(<<>>)) = 0 /\ Len(AvailLpcs(<<>>)) = 0
  BY <1>1, LenProperties DEF DepLpcs, AvailLpcs
<1>4. DepLpcs(<<>>) = <<>> /\ AvailLpcs(<<>>) = <<>>
  BY <1>2, <1>3, EmptySeq
<1> QED
  BY <1>4, ConcatEmptySeq

LEMMA IDeliver ==
  ASSUME NEW m \in Msg
  PROVE  IInv /\ Deliver(m) => IInv'
<1> SUFFICES ASSUME IInv, Deliver(m) PROVE IInv'
  OBVIOUS
<1>0. TypeOK /\ HoldsTask
  BY DEF IInv, Book
<1>1. /\ UNCHANGED <<mpc, pos, taskCnt, burst, ready, avail, inCnt, availCnt, thens>>
      /\ UNCHANGED <<inUse, delayed, free, load, ring, wpc, cur, todo, ran>>
      /\ InProgress /\ msg[m] = "away"
      /\ msg' = [msg EXCEPT ![m] = "fetching"]
      /\ inbox' = inbox \o AvailLpcs(MsgTo[m])
  BY DEF Deliver, masterVars, queueVars, lockVars, poolVars, workerVars
<1>2. Book'
  BY BookDeliver DEF IInv
<1>3. MsgTo[m] \in Seq(Task) /\ AvailLpcs(MsgTo[m]) \in Seq(Lpc)
  BY SchedAssumption, MsgSeqTypes
<1>4. msg'[m] = "fetching" /\ \A k \in Msg : k # m => msg'[k] = msg[k]
  BY <1>0, <1>1 DEF TypeOK
<1>5. \A x : /\ Times(x, inbox') = Times(x, inbox) + Times(x, AvailLpcs(MsgTo[m]))
             /\ Times(x, inbox) \in Nat /\ Times(x, AvailLpcs(MsgTo[m])) \in Nat
  BY <1>0, <1>1, <1>3, PostedTimes
<1>6. ASSUME NEW t
      PROVE  /\ Times(DepLpc(t), inbox') = Times(DepLpc(t), inbox)
             /\ Times(AvailLpc(t), inbox') = Times(AvailLpc(t), inbox) + Times(t, MsgTo[m])
  BY <1>3, <1>5, PostedLists
<1>7. \A t : Unserved(t)' = Unserved(t)
  BY <1>1, <1>4 DEF Unserved, Waiting
<1>8. DepExact'
  <2>1. Due' = Due
    BY <1>1 DEF Due
  <2>2. ASSUME NEW u \in Task
        PROVE  inCnt'[u] = Count(u, Due)' + Count(u, todo)' + Count(u, Unserved(u))'
                             + Times(DepLpc(u), inbox)'
    <3>1. inCnt[u] = Count(u, Due) + Count(u, todo) + Count(u, Unserved(u))
                       + Times(DepLpc(u), inbox)
      BY CountsOf
    <3>2. Times(DepLpc(u), inbox') = Times(DepLpc(u), inbox)
      BY <1>6
    <3> QED
      BY <1>1, <1>7, <2>1, <3>1, <3>2
  <2> QED
    BY <2>2 DEF DepExact
<1>9. OneChanged(Msg, Away, Away', m)
  <2>1. Away \in [Msg -> Seq(Task)]
    BY <1>0, FamilyTypes
  <2>2. Away' \in [Msg -> Seq(Task)]
    BY SchedAssumption, EmptySeq DEF Away
  <2>3. \A k \in Msg \ {m} : Away'[k] = Away[k]
    BY <1>4 DEF Away
  <2> QED
    BY <2>1, <2>2, <2>3, SchedAssumption DEF OneChanged
<1>10. Away[m] = MsgTo[m] /\ Away'[m] = <<>>
  BY <1>1, <1>4 DEF Away
<1>11. ASSUME NEW t \in Task
       PROVE  /\ Count(t, Away') + Times(t, MsgTo[m]) = Count(t, Away)
              /\ Count(t, Away') \in Nat /\ Times(t, MsgTo[m]) \in Nat
  <2>1. /\ Count(t, Away') + Times(t, Away[m]) = Count(t, Away) + Times(t, Away'[m])
        /\ Count(t, Away') \in Nat /\ Count(t, Away) \in Nat
        /\ Times(t, Away[m]) \in Nat
    BY <1>9, CountChange
  <2>2. Times(t, Away[m]) = Times(t, MsgTo[m]) /\ Times(t, Away'[m]) = 0
    BY <1>10, TimesNone
  <2> QED
    BY <2>1, <2>2
<1>12. AvailExact'
  <2>1. ASSUME NEW t \in Task
        PROVE  /\ availCnt'[t] = Count(t, Away)' + Times(AvailLpc(t), inbox)'
               /\ availCnt'[t] <= Count(t, MsgTo)
               /\ t \in avail' => availCnt'[t] = 0 /\ Count(t, MsgTo) > 0
    <3>1. /\ availCnt[t] = Count(t, Away) + Times(AvailLpc(t), inbox)
          /\ availCnt[t] <= Count(t, MsgTo)
          /\ t \in avail => availCnt[t] = 0 /\ Count(t, MsgTo) > 0
      BY CountsOf
    <3>2. /\ Count(t, Away) \in Nat /\ Times(AvailLpc(t), inbox) \in Nat
      BY NumbersOf
    <3>3. Times(AvailLpc(t), inbox') = Times(AvailLpc(t), inbox) + Times(t, MsgTo[m])
      BY <1>6
    <3>4. /\ Count(t, Away') + Times(t, MsgTo[m]) = Count(t, Away)
          /\ Count(t, Away') \in Nat /\ Times(t, MsgTo[m]) \in Nat
      BY <1>11
    <3>5. availCnt[t] = Count(t, Away') + Times(AvailLpc(t), inbox')
      BY <3>1, <3>2, <3>3, <3>4
    <3> QED
      BY <1>1, <3>1, <3>5
  <2> QED
    BY <2>1 DEF AvailExact
<1>13. CallbacksExact'
  <2> SUFFICES ASSUME NEW k \in Msg, NEW t \in Task
               PROVE  Times(t, thens'[k]) = IF msg'[k] = "fetching" /\ ~Waiting(t)'
                                            THEN Cardinality(UsesOf(t, k)) ELSE 0
    BY DEF CallbacksExact
  <2>1. /\ Waiting(t)' <=> Waiting(t)
        /\ Times(t, thens[k]) = IF msg[k] = "fetching" /\ ~Waiting(t)
                                THEN Cardinality(UsesOf(t, k)) ELSE 0
        /\ thens' = thens
    BY <1>1 DEF Waiting, IInv, CallbacksExact
  <2>2. CASE k # m
    BY <1>4, <2>1, <2>2
  <2>3. CASE k = m
    <3>1. ASSUME ~Waiting(t) PROVE Cardinality(UsesOf(t, m)) = 0
      <4>1. /\ availCnt[t] = Count(t, Away) + Times(AvailLpc(t), inbox)
            /\ Times(AvailLpc(t), inbox) \in Nat /\ availCnt[t] \in Int
        BY CountsOf, NumbersOf
      <4>2. ~(availCnt[t] > 0)
        BY <3>1 DEF Waiting
      <4>3. /\ Count(t, Away') + Times(t, MsgTo[m]) = Count(t, Away)
            /\ Count(t, Away') \in Nat /\ Times(t, MsgTo[m]) \in Nat
        BY <1>11
      <4>4. Times(t, MsgTo[m]) = 0
        BY <4>1, <4>2, <4>3
      <4> QED
        BY <4>4, UsesCount
    <3>2. Times(t, thens[m]) = 0
      BY <1>1, <2>1, <2>3
    <3> QED
      BY <2>1, <2>3, <3>1, <3>2
  <2> QED
    BY <2>2, <2>3
<1>14. TodoExact' /\ LoopExact' /\ PlaceExact'
  BY <1>1, TodoKept, LoopKept, SeenKept, PlaceKept DEF IInv
<1>15. ExitExact'
  <2>1. CASE mpc = "final"
    <3>1. taskCnt = 0
      BY <2>1 DEF IInv, LoopExact
    <3>2. MsgTo[m] = <<>>
      BY <1>1, <3>1, AllHandedOver
    <3>3. inbox' = inbox
      BY <1>0, <1>1, <3>2, NothingPosted DEF TypeOK
    <3> QED
      BY <1>1, <3>3, ExitKept DEF IInv
  <2>2. CASE mpc # "final"
    BY <1>1, <2>2, ExitEarly DEF InProgress
  <2> QED
    BY <2>1, <2>2
<1> QED
  BY <1>2, <1>8, <1>12, <1>13, <1>14, <1>15 DEF IInv

LEMMA ILand ==
  ASSUME NEW m \in Msg
  PROVE  IInv /\ Land(m) => IInv'
<1> SUFFICES ASSUME IInv, Land(m) PROVE IInv'
  OBVIOUS
<1>0. TypeOK /\ HoldsTask
  BY DEF IInv, Book
<1>1. /\ UNCHANGED <<mpc, pos, taskCnt, burst, ready, avail, inCnt, availCnt>>
      /\ UNCHANGED <<inUse, delayed, free, load, ring, wpc, cur, todo, ran>>
      /\ InProgress /\ msg[m] = "fetching"
      /\ msg' = [msg EXCEPT ![m] = "landed"]
      /\ thens' = [thens EXCEPT ![m] = <<>>]
      /\ inbox' = inbox \o DepLpcs(thens[m])
  BY DEF Land, masterVars, queueVars, lockVars, poolVars, workerVars
<1>2. Book'
  BY BookLand DEF IInv
<1>3. thens[m] \in Seq(Task) /\ DepLpcs(thens[m]) \in Seq(Lpc)
  BY <1>0, MsgSeqTypes DEF TypeOK
<1>4. /\ msg'[m] = "landed" /\ \A k \in Msg : k # m => msg'[k] = msg[k]
      /\ thens'[m] = <<>> /\ \A k \in Msg : k # m => thens'[k] = thens[k]
  BY <1>0, <1>1 DEF TypeOK
<1>5. \A x : /\ Times(x, inbox') = Times(x, inbox) + Times(x, DepLpcs(thens[m]))
             /\ Times(x, inbox) \in Nat /\ Times(x, DepLpcs(thens[m])) \in Nat
  BY <1>0, <1>1, <1>3, PostedTimes
<1>6. ASSUME NEW t
      PROVE  /\ Times(AvailLpc(t), inbox') = Times(AvailLpc(t), inbox)
             /\ Times(DepLpc(t), inbox') = Times(DepLpc(t), inbox) + Times(t, thens[m])
  BY <1>3, <1>5, PostedLists
<1>7. \A t : Waiting(t)' <=> Waiting(t)
  BY <1>1 DEF Waiting
<1>8. ASSUME NEW t \in Task
      PROVE  /\ Count(t, Unserved(t)') + Times(t, thens[m]) = Count(t, Unserved(t))
             /\ Count(t, Unserved(t)') \in Nat /\ Times(t, thens[m]) \in Nat
  <2>1. OneChanged(Msg, Unserved(t), Unserved(t)', m)
    <3>1. Unserved(t) \in [Msg -> Seq(Task)]
      BY <1>0, FamilyTypes
    <3>2. Unserved(t)' \in [Msg -> Seq(Task)]
      BY SchedAssumption, EmptySeq DEF Unserved
    <3>3. \A k \in Msg \ {m} : Unserved(t)'[k] = Unserved(t)[k]
      BY <1>4, <1>7 DEF Unserved
    <3> QED
      BY <3>1, <3>2, <3>3, SchedAssumption DEF OneChanged
  <2>2. PICK f : f = Unserved(t)
    OBVIOUS
  <2>3. PICK g : g = Unserved(t)'
    OBVIOUS
  <2>4. /\ Count(t, g) + Times(t, f[m]) = Count(t, f) + Times(t, g[m])
        /\ Count(t, g) \in Nat /\ Count(t, f) \in Nat
        /\ Times(t, f[m]) \in Nat /\ Times(t, g[m]) \in Nat
    BY <2>1, <2>2, <2>3, CountChange
  <2>5. Times(t, thens[m]) = IF ~Waiting(t) THEN Times(t, MsgTo[m]) ELSE 0
    BY <1>1, UsesCount DEF IInv, CallbacksExact
  <2>6. f[m] = MsgTo[m] /\ g[m] = IF Waiting(t) THEN MsgTo[m] ELSE <<>>
    BY <1>1, <1>4, <1>7, <2>2, <2>3 DEF Unserved
  <2>7. Times(t, f[m]) = Times(t, g[m]) + Times(t, thens[m])
    BY <2>4, <2>5, <2>6, TimesNone
  <2>8. Times(t, thens[m]) \in Nat
    BY <1>3, TimesType
  <2>9. Count(t, g) + Times(t, thens[m]) = Count(t, f) /\ Count(t, g) \in Nat
    BY <2>4, <2>7, <2>8
  <2> QED
    BY <2>2, <2>3, <2>8, <2>9
<1>9. DepExact'
  <2>1. Due' = Due
    BY <1>1 DEF Due
  <2>2. ASSUME NEW u \in Task
        PROVE  inCnt'[u] = Count(u, Due)' + Count(u, todo)' + Count(u, Unserved(u))'
                             + Times(DepLpc(u), inbox)'
    <3>1. inCnt[u] = Count(u, Due) + Count(u, todo) + Count(u, Unserved(u))
                       + Times(DepLpc(u), inbox)
      BY CountsOf
    <3>2. /\ Count(u, Due) \in Nat /\ Count(u, todo) \in Nat
          /\ Count(u, Unserved(u)) \in Nat /\ Times(DepLpc(u), inbox) \in Nat
      BY NumbersOf
    <3>3. Times(DepLpc(u), inbox') = Times(DepLpc(u), inbox) + Times(u, thens[m])
      BY <1>6
    <3>4. /\ Count(u, Unserved(u)') + Times(u, thens[m]) = Count(u, Unserved(u))
          /\ Count(u, Unserved(u)') \in Nat /\ Times(u, thens[m]) \in Nat
      BY <1>8
    <3>5. inCnt[u] = Count(u, Due) + Count(u, todo) + Count(u, Unserved(u)')
                       + Times(DepLpc(u), inbox')
      BY <3>1, <3>2, <3>3, <3>4
    <3> QED
      BY <1>1, <2>1, <3>5
  <2> QED
    BY <2>2 DEF DepExact
<1>10. AvailExact'
  <2>1. Away' = Away
    BY <1>1, <1>4 DEF Away
  <2>2. ASSUME NEW t \in Task
        PROVE  /\ availCnt'[t] = Count(t, Away)' + Times(AvailLpc(t), inbox)'
               /\ availCnt'[t] <= Count(t, MsgTo)
               /\ t \in avail' => availCnt'[t] = 0 /\ Count(t, MsgTo) > 0
    <3>1. /\ availCnt[t] = Count(t, Away) + Times(AvailLpc(t), inbox)
          /\ availCnt[t] <= Count(t, MsgTo)
          /\ t \in avail => availCnt[t] = 0 /\ Count(t, MsgTo) > 0
      BY CountsOf
    <3>2. Times(AvailLpc(t), inbox') = Times(AvailLpc(t), inbox)
      BY <1>6
    <3> QED
      BY <1>1, <2>1, <3>1, <3>2
  <2> QED
    BY <2>2 DEF AvailExact
<1>11. CallbacksExact'
  <2> SUFFICES ASSUME NEW k \in Msg, NEW t \in Task
               PROVE  Times(t, thens'[k]) = IF msg'[k] = "fetching" /\ ~Waiting(t)'
                                            THEN Cardinality(UsesOf(t, k)) ELSE 0
    BY DEF CallbacksExact
  <2>1. CASE k # m
    BY <1>4, <1>7, <2>1 DEF IInv, CallbacksExact
  <2>2. CASE k = m
    BY <1>4, <2>2, TimesNone
  <2> QED
    BY <2>1, <2>2
<1>12. TodoExact' /\ LoopExact' /\ PlaceExact'
  BY <1>1, TodoKept, LoopKept, SeenKept, PlaceKept DEF IInv
<1>13. ExitExact'
  <2>1. CASE mpc = "final"
    <3>1. taskCnt = 0
      BY <2>1 DEF IInv, LoopExact
    <3>2. thens[m] = <<>>
      BY <1>1, <3>1, AllHandedOver
    <3>3. inbox' = inbox
      BY <1>0, <1>1, <3>2, NothingPosted DEF TypeOK
    <3> QED
      BY <1>1, <3>3, ExitKept DEF IInv
  <2>2. CASE mpc # "final"
    BY <1>1, <2>2, ExitEarly DEF InProgress
  <2> QED
    BY <2>1, <2>2
<1> QED
  BY <1>2, <1>9, <1>10, <1>11, <1>12, <1>13 DEF IInv

(* The lists of the messages that have landed.                             *)
Landed == [m \in Msg |-> IF msg[m] = "landed" THEN MsgTo[m] ELSE <<>>]

LEMMA LandedCount ==
  ASSUME NEW t
  PROVE  /\ Landed \in [Msg -> Seq(Task)]
         /\ Cardinality(LandedInputs(t)) = Count(t, Landed)
         /\ Cardinality(LandedInputs(t)) \in Nat
<1>1. Landed \in [Msg -> Seq(Task)] /\ MsgTo \in [Msg -> Seq(Task)]
  BY SchedAssumption, EmptySeq DEF Landed
<1>2. Count(t, Landed) \in Nat
  BY <1>1, SchedAssumption, CountType
<1>3. \A e : e \in Entries(t, Landed) <=>
               e = <<e[1], e[2]>> /\ e[1] \in Msg /\ e[2] \in Places(t, Landed[e[1]])
  BY <1>1, EntryShape
<1>4. \A e : e \in Entries(t, MsgTo) <=>
               e = <<e[1], e[2]>> /\ e[1] \in Msg /\ e[2] \in Places(t, MsgTo[e[1]])
  BY <1>1, EntryShape
<1>5. \A m \in Msg : Places(t, Landed[m]) =
                       IF msg[m] = "landed" THEN Places(t, MsgTo[m]) ELSE {}
  <2>1. Places(t, <<>>) = {}
    BY DEF Places
  <2> QED
    BY <2>1 DEF Landed
<1>6. \A e : e \in Entries(t, Landed) <=> e \in Entries(t, MsgTo) /\ msg[e[1]] = "landed"
  BY <1>3, <1>4, <1>5
<1>7. Entries(t, Landed) = LandedInputs(t)
  BY <1>6 DEF LandedInputs, Inputs
<1> QED
  BY <1>1, <1>2, <1>7 DEF Count

LEMMA IFetch ==
  ASSUME NEW t \in Task
  PROVE  IInv /\ Fetch(t) => IInv'
<1> SUFFICES ASSUME IInv, Fetch(t) PROVE IInv'
  OBVIOUS
<1>0. TypeOK /\ HoldsTask
  BY DEF IInv, Book
<1>1. /\ UNCHANGED <<mpc, pos, taskCnt, burst, ready, inCnt, availCnt, msg>>
      /\ UNCHANGED <<inUse, delayed, free, load, ring, wpc, cur, todo, ran>>
      /\ mpc = "comm" /\ t \in avail /\ avail' = avail \ {t}
  BY DEF Fetch, Top, masterVars, lockVars, poolVars, workerVars
<1>2. Book'
  BY BookFetch DEF IInv
<1>3. PICK n : n = Cardinality(LandedInputs(t))
  OBVIOUS
<1>4. n \in Nat /\ n = Count(t, Landed) /\ Landed \in [Msg -> Seq(Task)]
  BY <1>3, LandedCount
<1>5. inbox' = inbox \o Repeat(n, DepLpc(t))
  BY <1>3 DEF Fetch, Repeat
<1>6. Repeat(n, DepLpc(t)) \in Seq(Lpc)
  BY <1>4, LpcTypes, SeqDef DEF Repeat
<1>7. \A x : /\ Times(x, inbox') = Times(x, inbox) + Times(x, Repeat(n, DepLpc(t)))
             /\ Times(x, inbox) \in Nat
  BY <1>0, <1>5, <1>6, PostedTimes
<1>8. ASSUME NEW u
      PROVE  /\ Times(AvailLpc(u), inbox') = Times(AvailLpc(u), inbox)
             /\ Times(DepLpc(u), inbox')
                  = Times(DepLpc(u), inbox) + (IF u = t THEN n ELSE 0)
  <2>1. \A x : Times(x, Repeat(n, DepLpc(t))) = IF x = DepLpc(t) THEN n ELSE 0
    BY <1>4, TimesConst
  <2>2. AvailLpc(u) # DepLpc(t) /\ (DepLpc(u) = DepLpc(t) <=> u = t)
    BY Kinds
  <2>3. /\ Times(AvailLpc(u), Repeat(n, DepLpc(t))) = 0
        /\ Times(DepLpc(u), Repeat(n, DepLpc(t))) = IF u = t THEN n ELSE 0
    BY <2>1, <2>2
  <2> QED
    BY <1>7, <2>3
<1>9. Waiting(t) /\ ~Waiting(t)' /\ \A u \in Task : u # t => (Waiting(u)' <=> Waiting(u))
  <2>1. availCnt[t] = 0
    BY <1>1, CountsOf
  <2> QED
    BY <1>1, <2>1 DEF Waiting
<1>10. ASSUME NEW u \in Task
       PROVE  /\ Count(u, Unserved(u)') + (IF u = t THEN n ELSE 0) = Count(u, Unserved(u))
              /\ Count(u, Unserved(u)') \in Nat
  <2>0. /\ Unserved(u) \in [Msg -> Seq(Task)]
        /\ Unserved(u)' \in [Msg -> Seq(Task)]
    BY SchedAssumption, EmptySeq DEF Unserved
  <2>1. CASE u # t
    <3>1. Unserved(u)' = Unserved(u)
      BY <1>1, <1>9, <2>1 DEF Unserved
    <3>2. Count(u, Unserved(u)) \in Nat
      BY NumbersOf
    <3> QED
      BY <2>1, <3>1, <3>2
  <2>2. CASE u = t
    <3>1. PICK g : g = Unserved(t)'
      OBVIOUS
    <3>2. PICK h : h = Landed
      OBVIOUS
    <3>3. Unserved(t) = MsgTo
      BY <1>9, SchedAssumption DEF Unserved
    <3>4. Divided(Msg, MsgTo, g, h)
      <4>1. \A m \in Msg : (g[m] = MsgTo[m] /\ h[m] = <<>>)
                             \/ (h[m] = MsgTo[m] /\ g[m] = <<>>)
        BY <1>1, <1>9, <3>1, <3>2 DEF Unserved, Landed
      <4> QED
        BY <1>4, <2>0, <2>2, <3>1, <3>2, <4>1, SchedAssumption DEF Divided
    <3>5. /\ Count(t, MsgTo) = Count(t, g) + Count(t, h)
          /\ Count(t, g) \in Nat /\ Count(t, h) \in Nat
      BY <3>4, CountDivide
    <3>6. Count(t, h) = n
      BY <1>4, <3>2
    <3>7. Count(t, g) + n = Count(t, MsgTo)
      BY <3>5, <3>6
    <3> QED
      BY <2>2, <3>1, <3>3, <3>5, <3>7
  <2> QED
    BY <2>1, <2>2
<1>11. DepExact'
  <2>1. Due' = Due
    BY <1>1 DEF Due
  <2>2. ASSUME NEW u \in Task
        PROVE  inCnt'[u] = Count(u, Due)' + Count(u, todo)' + Count(u, Unserved(u))'
                             + Times(DepLpc(u), inbox)'
    <3>1. inCnt[u] = Count(u, Due) + Count(u, todo) + Count(u, Unserved(u))
                       + Times(DepLpc(u), inbox)
      BY CountsOf
    <3>2. /\ Count(u, Due) \in Nat /\ Count(u, todo) \in Nat
          /\ Count(u, Unserved(u)) \in Nat /\ Times(DepLpc(u), inbox) \in Nat
      BY NumbersOf
    <3>3. Times(DepLpc(u), inbox')
            = Times(DepLpc(u), inbox) + (IF u = t THEN n ELSE 0)
      BY <1>8
    <3>4. /\ Count(u, Unserved(u)') + (IF u = t THEN n ELSE 0) = Count(u, Unserved(u))
          /\ Count(u, Unserved(u)') \in Nat
      BY <1>10
    <3>5. inCnt[u] = Count(u, Due) + Count(u, todo) + Count(u, Unserved(u)')
                       + Times(DepLpc(u), inbox')
      BY <1>4, <3>1, <3>2, <3>3, <3>4
    <3> QED
      BY <1>1, <2>1, <3>5
  <2> QED
    BY <2>2 DEF DepExact
<1>12. AvailExact'
  <2>1. Away' = Away
    BY <1>1 DEF Away
  <2>2. ASSUME NEW u \in Task
        PROVE  /\ availCnt'[u] = Count(u, Away)' + Times(AvailLpc(u), inbox)'
               /\ availCnt'[u] <= Count(u, MsgTo)
               /\ u \in avail' => availCnt'[u] = 0 /\ Count(u, MsgTo) > 0
    <3>1. /\ availCnt[u] = Count(u, Away) + Times(AvailLpc(u), inbox)
          /\ availCnt[u] <= Count(u, MsgTo)
          /\ u \in avail => availCnt[u] = 0 /\ Count(u, MsgTo) > 0
      BY CountsOf
    <3>2. Times(AvailLpc(u), inbox') = Times(AvailLpc(u), inbox)
      BY <1>8
    <3>3. u \in avail' => u \in avail
      BY <1>1
    <3> QED
      BY <1>1, <2>1, <3>1, <3>2, <3>3
  <2> QED
    BY <2>2 DEF AvailExact
<1>13. CallbacksExact'
  <2> SUFFICES ASSUME NEW m \in Msg, NEW u \in Task
               PROVE  Times(u, thens'[m]) = IF msg'[m] = "fetching" /\ ~Waiting(u)'
                                            THEN Cardinality(UsesOf(u, m)) ELSE 0
    BY DEF CallbacksExact
  <2>1. PICK k : k = Cardinality(UsesOf(t, m))
    OBVIOUS
  <2>2. k \in Nat /\ thens[m] \in Seq(Task)
    BY <1>0, <2>1, UsesCount DEF TypeOK
  <2>3. thens'[m] = IF msg[m] = "fetching" THEN thens[m] \o Repeat(k, t) ELSE thens[m]
    BY <2>1 DEF Fetch, Repeat
  <2>4. Repeat(k, t) \in Seq(Task)
    BY <2>2, SeqDef DEF Repeat
  <2>5. Times(u, thens[m]) = IF msg[m] = "fetching" /\ ~Waiting(u)
                             THEN Cardinality(UsesOf(u, m)) ELSE 0
    BY DEF IInv, CallbacksExact
  <2>6. CASE msg[m] # "fetching"
    BY <1>1, <2>3, <2>5, <2>6
  <2>7. CASE msg[m] = "fetching"
    <3>1. Times(u, thens[m] \o Repeat(k, t))
            = Times(u, thens[m]) + Times(u, Repeat(k, t))
      BY <2>2, <2>4, TimesConcat
    <3>2. Times(u, Repeat(k, t)) = IF u = t THEN k ELSE 0
      BY <2>2, TimesConst
    <3>3. Times(u, thens'[m]) = Times(u, thens[m]) + (IF u = t THEN k ELSE 0)
      BY <2>3, <2>7, <3>1, <3>2
    <3>4. Times(u, thens[m]) \in Nat
      BY <2>2, TimesType
    <3>5. CASE u = t
      <4>1. Times(u, thens[m]) = 0
        BY <1>9, <2>5, <3>5
      <4>2. Times(u, thens'[m]) = k
        BY <2>2, <3>3, <3>5, <4>1
      <4> QED
        BY <1>1, <1>9, <2>1, <2>7, <3>5, <4>2
    <3>6. CASE u # t
      <4>1. Times(u, thens'[m]) = Times(u, thens[m])
        BY <3>3, <3>4, <3>6
      <4> QED
        BY <1>1, <1>9, <2>5, <3>6, <4>1
    <3> QED
      BY <3>5, <3>6
  <2> QED
    BY <2>6, <2>7
<1>14. TodoExact' /\ LoopExact' /\ PlaceExact' /\ ExitExact'
  BY <1>1, TodoKept, LoopKept, SeenKept, PlaceKept, ExitEarly DEF IInv
<1> QED
  BY <1>2, <1>11, <1>12, <1>13, <1>14 DEF IInv

-----------------------------------------------------------------------------
(* The steps of a worker.                                                  *)

LEMMA ICheck ==
  ASSUME NEW w \in Worker
  PROVE  IInv /\ Check(w) => IInv'
<1> SUFFICES ASSUME IInv, Check(w) PROVE IInv'
  OBVIOUS
<1>0. TypeOK
  BY DEF IInv, Book
<1>1. /\ UNCHANGED <<mpc, pos, taskCnt, burst, ready, avail, inCnt, availCnt>>
      /\ UNCHANGED <<msg, thens, delayed, inbox, ring, cur, todo, ran>>
      /\ wpc[w] = "check" /\ wpc' = [wpc EXCEPT ![w] = IF done THEN "exit" ELSE "get"]
  BY DEF Check, masterVars, queueVars, commVars, lockVars, poolVars
<1>2. Book'
  BY BookCheck DEF IInv
<1>3. Running' = Running
  BY <1>0, <1>1 DEF Running, TypeOK
<1>4. DepExact' /\ AvailExact' /\ CallbacksExact'
  BY <1>1, DepKept, AvailKept, CallbacksKept DEF IInv
<1>5. TodoExact'
  BY <1>0, <1>1 DEF IInv, TodoExact, TypeOK
<1>6. PlaceExact'
  <2>1. Seen' = Seen
    BY <1>1, SeenKept
  <2> QED
    BY <1>1, <1>3, <2>1 DEF IInv, PlaceExact, InReadyQueue, Released
<1>7. LoopExact'
  <2>1. Assigned' = Assigned
    BY <1>1, <1>3 DEF Assigned
  <2> QED
    BY <1>1, <2>1 DEF IInv, LoopExact
<1>8. ExitExact'
  BY <1>1, ExitWorker
<1> QED
  BY <1>2, <1>4, <1>5, <1>6, <1>7, <1>8 DEF IInv

(* A task moves from the ring to the worker, or from the worker to those   *)
(* that have run.                                                          *)
LEMMA PlaceMoved ==
  ASSUME IInv, UNCHANGED <<mpc, pos, ready, delayed, inCnt, taskCnt>>,
         \A u \in Task : Count(u, ring') + Count(u, Running') + ran'[u]
                           = Count(u, ring) + Count(u, Running) + ran[u],
         \A u \in Task : /\ Count(u, ring') \in Nat /\ Count(u, Running') \in Nat
                         /\ ran'[u] \in Nat
  PROVE  PlaceExact' /\ LoopExact'
<1>1. Seen' = Seen
  BY SeenKept
<1>2. ASSUME NEW u \in Task
      PROVE  InReadyQueue(u)' + Count(u, delayed') + Count(u, ring')
               + Count(u, Running') + ran'[u] = Released(u)'
  <2>1. InReadyQueue(u) + Count(u, delayed) + Count(u, ring)
          + Count(u, Running) + ran[u] = Released(u)
    BY CountsOf
  <2>2. /\ Count(u, delayed) \in Nat /\ Count(u, ring) \in Nat
        /\ Count(u, Running) \in Nat /\ ran[u] \in Nat /\ InReadyQueue(u) \in 0..1
    BY NumbersOf
  <2>3. InReadyQueue(u)' = InReadyQueue(u) /\ Released(u)' = Released(u)
    BY <1>1 DEF InReadyQueue, Released
  <2>4. InReadyQueue(u) + Count(u, delayed) + Count(u, ring')
          + Count(u, Running') + ran'[u] = Released(u)
    BY <2>1, <2>2
  <2> QED
    BY <2>3, <2>4
<1>3. PlaceExact'
  BY <1>2 DEF PlaceExact
<1>4. Assigned' = Assigned
  <2>1. Assigned' = {u \in Task : Count(u, ring') + Count(u, Running') + ran'[u] > 0}
    BY DEF Assigned
  <2> QED
    BY <2>1 DEF Assigned
<1>5. LoopExact'
  BY <1>4 DEF IInv, LoopExact
<1> QED
  BY <1>3, <1>5

LEMMA IGet ==
  ASSUME NEW w \in Worker
  PROVE  IInv /\ Get(w) => IInv'
<1> SUFFICES ASSUME IInv, Get(w) PROVE IInv'
  OBVIOUS
<1>0. TypeOK /\ HoldsTask
  BY DEF IInv, Book
<1>1. /\ UNCHANGED <<mpc, pos, taskCnt, burst, ready, avail, inCnt, availCnt>>
      /\ UNCHANGED <<msg, thens, delayed, inbox, todo, ran>>
      /\ wpc[w] = "get"
  BY DEF Get, masterVars, queueVars, commVars, lockVars
<1>2. Book'
  BY BookGet DEF IInv
<1>3. DepExact' /\ AvailExact' /\ CallbacksExact'
  BY <1>1, DepKept, AvailKept, CallbacksKept DEF IInv
<1>4. TodoExact'
  BY <1>0, <1>1 DEF Get, IInv, TodoExact, TypeOK
<1>5. ExitExact'
  BY <1>1, ExitWorker
<1>6. /\ ring \in [Worker -> Seq(Task)] /\ IsFiniteSet(Worker)
      /\ Running \in [Worker -> Seq(Task)]
  BY <1>0, FamilyTypes
<1>7. ring' \in [Worker -> Seq(Task)] /\ Running' \in [Worker -> Seq(Task)]
  <2>1. TypeOK' /\ HoldsTask'
    BY <1>2 DEF Book
  <2>2. \A v \in Worker : wpc'[v] = "run" => cur'[v] \in Task
    BY <2>1 DEF HoldsTask
  <2> QED
    BY <2>1, <2>2, EmptySeq DEF Running, TypeOK
<1>8. CASE ring[w] = <<>>
  <2>1. wpc' = [wpc EXCEPT ![w] = "check"] /\ UNCHANGED <<cur, ring>>
    BY <1>8 DEF Get
  <2>2. Running' = Running
    BY <1>0, <1>1, <2>1 DEF Running, TypeOK
  <2>3. PlaceExact' /\ LoopExact'
    <3>1. \A u \in Task : /\ Count(u, ring) \in Nat /\ Count(u, Running) \in Nat
                          /\ ran[u] \in Nat
      BY NumbersOf
    <3> QED
      BY <1>1, <2>1, <2>2, <3>1, PlaceMoved
  <2> QED
    BY <1>2, <1>3, <1>4, <1>5, <2>3 DEF IInv
<1>9. CASE ring[w] # <<>>
  <2>1. PICK t : t = Head(ring[w])
    OBVIOUS
  <2>2. /\ wpc' = [wpc EXCEPT ![w] = "run"] /\ cur' = [cur EXCEPT ![w] = t]
        /\ ring' = [ring EXCEPT ![w] = Tail(@)]
    BY <1>9, <2>1 DEF Get
  <2>3. OneChanged(Worker, ring, ring', w)
    BY <1>6, <1>7, <2>2 DEF OneChanged
  <2>4. OneChanged(Worker, Running, Running', w)
    <3>1. \A v \in Worker \ {w} : Running'[v] = Running[v]
      BY <1>0, <2>2 DEF Running, TypeOK
    <3> QED
      BY <1>6, <1>7, <3>1 DEF OneChanged
  <2>5. Running[w] = <<>> /\ Running'[w] = <<t>>
    BY <1>0, <1>1, <2>2 DEF Running, TypeOK
  <2>6. ASSUME NEW u \in Task
        PROVE  /\ Count(u, ring') + (IF t = u THEN 1 ELSE 0) = Count(u, ring)
               /\ Count(u, ring') \in Nat /\ Count(u, ring) \in Nat
    <3>1. /\ Count(u, ring') + Times(u, ring[w]) = Count(u, ring) + Times(u, ring'[w])
          /\ Count(u, ring') \in Nat /\ Count(u, ring) \in Nat
          /\ Times(u, ring[w]) \in Nat /\ Times(u, ring'[w]) \in Nat
      BY <2>3, CountChange
    <3>2. ring'[w] = Tail(ring[w])
      BY <1>6, <2>2
    <3>3. Times(u, ring[w]) = Times(u, Tail(ring[w])) + (IF t = u THEN 1 ELSE 0)
      BY <1>6, <1>9, <2>1, TimesTail
    <3>4. Times(u, ring[w]) = Times(u, ring'[w]) + (IF t = u THEN 1 ELSE 0)
      BY <3>2, <3>3
    <3> QED
      BY <3>1, <3>4
  <2>7. ASSUME NEW u \in Task
        PROVE  /\ Count(u, Running') = Count(u, Running) + (IF t = u THEN 1 ELSE 0)
               /\ Count(u, Running') \in Nat /\ Count(u, Running) \in Nat
    <3>1. /\ Count(u, Running') + Times(u, Running[w])
               = Count(u, Running) + Times(u, Running'[w])
          /\ Count(u, Running') \in Nat /\ Count(u, Running) \in Nat
      BY <2>4, CountChange
    <3>2. Times(u, Running[w]) = 0
          /\ Times(u, Running'[w]) = IF t = u THEN 1 ELSE 0
      BY <2>5, TimesNone, TimesSingle
    <3> QED
      BY <3>1, <3>2
  <2>8. PlaceExact' /\ LoopExact'
    <3>1. \A u \in Task : Count(u, ring') + Count(u, Running') + ran[u]
                            = Count(u, ring) + Count(u, Running) + ran[u]
      <4> SUFFICES ASSUME NEW u \in Task
                   PROVE  Count(u, ring') + Count(u, Running') + ran[u]
                            = Count(u, ring) + Count(u, Running) + ran[u]
        OBVIOUS
      <4>1. ran[u] \in Nat
        BY NumbersOf
      <4>2. Count(u, ring') + (IF t = u THEN 1 ELSE 0) = Count(u, ring)
            /\ Count(u, ring') \in Nat
        BY <2>6
      <4>3. Count(u, Running') = Count(u, Running) + (IF t = u THEN 1 ELSE 0)
            /\ Count(u, Running) \in Nat
        BY <2>7
      <4> QED
        BY <4>1, <4>2, <4>3
    <3>2. \A u \in Task : Count(u, ring') \in Nat /\ Count(u, Running') \in Nat
                          /\ ran[u] \in Nat
      BY <2>6, <2>7, NumbersOf
    <3> QED
      BY <1>1, <3>1, <3>2, PlaceMoved
  <2> QED
    BY <1>2, <1>3, <1>4, <1>5, <2>8 DEF IInv
<1> QED
  BY <1>8, <1>9

LEMMA IReport ==
  ASSUME NEW w \in Worker
  PROVE  IInv /\ Report(w) => IInv'
<1> SUFFICES ASSUME IInv, Report(w) PROVE IInv'
  OBVIOUS
<1>0. TypeOK /\ HoldsTask
  BY DEF IInv, Book
<1>1. PICK l : l = DoneLpc(w, LockOf[cur[w]])
  OBVIOUS
<1>2. /\ UNCHANGED <<mpc, pos, taskCnt, burst, ready, avail, inCnt, availCnt>>
      /\ UNCHANGED <<msg, thens, delayed, ring, todo, ran>>
      /\ wpc[w] = "signal" /\ todo[w] = <<>>
      /\ wpc' = [wpc EXCEPT ![w] = "get"] /\ cur' = [cur EXCEPT ![w] = None]
      /\ inbox' = Append(inbox, l)
  BY <1>1 DEF Report, PostDone, masterVars, queueVars, commVars, lockVars, poolVars
<1>3. Book'
  BY BookReport DEF IInv
<1>4. l \in Lpc
  <2>1. cur[w] \in Task
    BY <1>0, <1>2 DEF HoldsTask
  <2> QED
    BY <1>1, <2>1, SchedAssumption, LpcTypes
<1>5. \A t : Times(DepLpc(t), inbox') = Times(DepLpc(t), inbox)
             /\ Times(AvailLpc(t), inbox') = Times(AvailLpc(t), inbox)
  <2> SUFFICES ASSUME NEW t
               PROVE  Times(DepLpc(t), inbox') = Times(DepLpc(t), inbox)
                      /\ Times(AvailLpc(t), inbox') = Times(AvailLpc(t), inbox)
    OBVIOUS
  <2>1. inbox \in Seq(Lpc)
    BY <1>0 DEF TypeOK
  <2>2. l # DepLpc(t) /\ l # AvailLpc(t)
    BY <1>1, Kinds
  <2>3. \A x : Times(x, Append(inbox, l)) = Times(x, inbox) + (IF l = x THEN 1 ELSE 0)
    BY <1>4, <2>1, TimesAppend
  <2>4. Times(DepLpc(t), inbox) \in Nat /\ Times(AvailLpc(t), inbox) \in Nat
    BY <2>1, TimesType
  <2> QED
    BY <1>2, <2>2, <2>3, <2>4
<1>6. Running' = Running
  BY <1>0, <1>2 DEF Running, TypeOK
<1>7. DepExact' /\ AvailExact' /\ CallbacksExact'
  BY <1>2, <1>5, DepKept, AvailKept, CallbacksKept DEF IInv
<1>8. TodoExact'
  BY <1>0, <1>2 DEF IInv, TodoExact, TypeOK
<1>9. PlaceExact' /\ LoopExact'
  <2>1. \A u \in Task : /\ Count(u, ring) \in Nat /\ Count(u, Running) \in Nat
                        /\ ran[u] \in Nat
    BY NumbersOf
  <2> QED
    BY <1>2, <1>6, <2>1, PlaceMoved
<1>10. ExitExact'
  BY <1>2, ExitWorker
<1> QED
  BY <1>3, <1>7, <1>8, <1>9, <1>10 DEF IInv

LEMMA IRun ==
  ASSUME NEW w \in Worker
  PROVE  IInv /\ Run(w) => IInv'
<1> SUFFICES ASSUME IInv, Run(w) PROVE IInv'
  OBVIOUS
<1>0. TypeOK /\ HoldsTask
  BY DEF IInv, Book
<1>1. PICK t : t = cur[w]
  OBVIOUS
<1>2. /\ UNCHANGED <<mpc, pos, taskCnt, burst, ready, avail, inCnt, availCnt>>
      /\ UNCHANGED <<msg, thens, delayed, inbox, ring, cur>>
      /\ wpc[w] = "run"
      /\ wpc' = [wpc EXCEPT ![w] = "signal"]
      /\ todo' = [todo EXCEPT ![w] = Out[t]]
      /\ ran' = [ran EXCEPT ![t] = @ + 1]
  BY <1>1 DEF Run, masterVars, queueVars, commVars, poolVars
<1>3. Book'
  BY BookRun DEF IInv
<1>4. t \in Task
  BY <1>0, <1>1, <1>2 DEF HoldsTask
<1>5. /\ IsFiniteSet(Worker) /\ IsFiniteSet(Task)
      /\ Running \in [Worker -> Seq(Task)] /\ Due \in [Task -> Seq(Task)]
      /\ todo \in [Worker -> Seq(Task)] /\ Out \in [Task -> Seq(Task)]
  BY <1>0, FamilyTypes
<1>6. /\ Running' \in [Worker -> Seq(Task)] /\ Due' \in [Task -> Seq(Task)]
      /\ todo' \in [Worker -> Seq(Task)]
  <2>1. TypeOK' /\ HoldsTask'
    BY <1>3 DEF Book
  <2>2. \A v \in Worker : wpc'[v] = "run" => cur'[v] \in Task
    BY <2>1 DEF HoldsTask
  <2> QED
    BY <1>5, <2>1, <2>2, EmptySeq DEF Running, Due, TypeOK
<1>7. OneChanged(Worker, Running, Running', w)
  <2>1. \A v \in Worker \ {w} : Running'[v] = Running[v]
    BY <1>0, <1>2 DEF Running, TypeOK
  <2> QED
    BY <1>5, <1>6, <2>1 DEF OneChanged
<1>8. Running[w] = <<t>> /\ Running'[w] = <<>>
  BY <1>0, <1>1, <1>2 DEF Running, TypeOK
<1>9. ASSUME NEW u \in Task
      PROVE  /\ Count(u, Running') + (IF t = u THEN 1 ELSE 0) = Count(u, Running)
             /\ Count(u, Running') \in Nat /\ Count(u, Running) \in Nat
  <2>1. /\ Count(u, Running') + Times(u, Running[w])
             = Count(u, Running) + Times(u, Running'[w])
        /\ Count(u, Running') \in Nat /\ Count(u, Running) \in Nat
    BY <1>7, CountChange
  <2>2. Times(u, Running'[w]) = 0
        /\ Times(u, Running[w]) = IF t = u THEN 1 ELSE 0
    BY <1>8, TimesNone, TimesSingle
  <2> QED
    BY <2>1, <2>2
<1>10. ran[t] = 0
  <2>1. /\ InReadyQueue(t) + Count(t, delayed) + Count(t, ring)
             + Count(t, Running) + ran[t] = Released(t)
        /\ Released(t) \in 0..1
    BY <1>4, CountsOf
  <2>2. /\ Count(t, delayed) \in Nat /\ Count(t, ring) \in Nat
        /\ InReadyQueue(t) \in 0..1 /\ ran[t] \in Nat
    BY <1>4, NumbersOf
  <2>3. Count(t, Running) = Count(t, Running') + 1 /\ Count(t, Running') \in Nat
    BY <1>4, <1>9
  <2> QED
    BY <2>1, <2>2, <2>3
<1>11. ran'[t] = 1 /\ \A u \in Task : u # t => ran'[u] = ran[u]
  BY <1>0, <1>2, <1>4, <1>10 DEF TypeOK
<1>12. PlaceExact' /\ LoopExact'
  <2>1. ASSUME NEW u \in Task
        PROVE  /\ Count(u, ring) + Count(u, Running') + ran'[u]
                    = Count(u, ring) + Count(u, Running) + ran[u]
               /\ ran'[u] \in Nat /\ Count(u, ring) \in Nat
    <3>1. ran[u] \in Nat /\ Count(u, ring) \in Nat
      BY NumbersOf
    <3>2. ran'[u] = ran[u] + (IF t = u THEN 1 ELSE 0)
      BY <1>10, <1>11, <3>1
    <3>3. /\ Count(u, Running') + (IF t = u THEN 1 ELSE 0) = Count(u, Running)
          /\ Count(u, Running') \in Nat
      BY <1>9
    <3> QED
      BY <3>1, <3>2, <3>3
  <2>2. \A u \in Task : Count(u, Running') \in Nat
    BY <1>9
  <2> QED
    BY <1>2, <2>1, <2>2, PlaceMoved
<1>13. todo[w] = <<>>
  BY <1>2 DEF IInv, TodoExact
<1>14. TodoExact'
  BY <1>0, <1>2 DEF IInv, TodoExact, TypeOK
<1>15. OneChanged(Worker, todo, todo', w)
  BY <1>2, <1>5, <1>6 DEF OneChanged
<1>16. OneChanged(Task, Due, Due', t)
  <2>1. \A s \in Task \ {t} : Due'[s] = Due[s]
    BY <1>11 DEF Due
  <2> QED
    BY <1>4, <1>5, <1>6, <2>1 DEF OneChanged
<1>17. todo'[w] = Out[t] /\ Due[t] = Out[t] /\ Due'[t] = <<>>
  BY <1>2, <1>4, <1>5, <1>10, <1>11 DEF Due
<1>18. ASSUME NEW u \in Task
       PROVE  /\ Count(u, Due') + Count(u, todo') = Count(u, Due) + Count(u, todo)
              /\ Count(u, Due') \in Nat /\ Count(u, todo') \in Nat
  <2>1. /\ Count(u, Due') + Times(u, Due[t]) = Count(u, Due) + Times(u, Due'[t])
        /\ Count(u, Due') \in Nat /\ Count(u, Due) \in Nat
    BY <1>16, CountChange
  <2>2. /\ Count(u, todo') + Times(u, todo[w]) = Count(u, todo) + Times(u, todo'[w])
        /\ Count(u, todo') \in Nat /\ Count(u, todo) \in Nat
    BY <1>15, CountChange
  <2>3. /\ Times(u, Due[t]) = Times(u, Out[t]) /\ Times(u, todo'[w]) = Times(u, Out[t])
        /\ Times(u, Due'[t]) = 0 /\ Times(u, todo[w]) = 0
    BY <1>13, <1>17, TimesNone
  <2>4. Times(u, Out[t]) \in Nat
    BY <1>4, <1>5, TimesType
  <2> QED
    BY <2>1, <2>2, <2>3, <2>4
<1>19. DepExact'
  <2>1. \A u : Unserved(u)' = Unserved(u)
    BY <1>2 DEF Unserved, Waiting
  <2>2. ASSUME NEW u \in Task
        PROVE  inCnt'[u] = Count(u, Due)' + Count(u, todo)' + Count(u, Unserved(u))'
                             + Times(DepLpc(u), inbox)'
    <3>1. inCnt[u] = Count(u, Due) + Count(u, todo) + Count(u, Unserved(u))
                       + Times(DepLpc(u), inbox)
      BY CountsOf
    <3>2. /\ Count(u, Due) \in Nat /\ Count(u, todo) \in Nat
      BY NumbersOf
    <3>3. /\ Count(u, Due') + Count(u, todo') = Count(u, Due) + Count(u, todo)
          /\ Count(u, Due') \in Nat /\ Count(u, todo') \in Nat
      BY <1>18
    <3>4. inCnt[u] = Count(u, Due') + Count(u, todo') + Count(u, Unserved(u))
                       + Times(DepLpc(u), inbox)
      BY <3>1, <3>2, <3>3
    <3> QED
      BY <1>2, <2>1, <3>4
  <2> QED
    BY <2>2 DEF DepExact
<1>20. AvailExact' /\ CallbacksExact'
  BY <1>2, AvailKept, CallbacksKept DEF IInv
<1>21. ExitExact'
  BY <1>2, ExitWorker
<1> QED
  BY <1>3, <1>12, <1>14, <1>19, <1>20, <1>21 DEF IInv

LEMMA ISignal ==
  ASSUME NEW w \in Worker
  PROVE  IInv /\ Signal(w) => IInv'
<1> SUFFICES ASSUME IInv, Signal(w) PROVE IInv'
  OBVIOUS
<1>0. TypeOK /\ HoldsTask
  BY DEF IInv, Book
<1>1. PICK t : t = Head(todo[w])
  OBVIOUS
<1>2. /\ UNCHANGED <<mpc, pos, taskCnt, burst, ready, avail, inCnt, availCnt>>
      /\ UNCHANGED <<msg, thens, delayed, ring, cur, wpc, ran>>
      /\ wpc[w] = "signal" /\ todo[w] # <<>>
      /\ inbox' = Append(inbox, DepLpc(t))
      /\ todo' = [todo EXCEPT ![w] = Tail(@)]
  BY <1>1 DEF Signal, masterVars, queueVars, commVars, lockVars, poolVars
<1>3. Book'
  BY BookSignal DEF IInv
<1>4. /\ IsFiniteSet(Worker) /\ todo \in [Worker -> Seq(Task)]
      /\ todo' \in [Worker -> Seq(Task)]
  BY <1>0, <1>3, FamilyTypes DEF Book, TypeOK
<1>5. t \in Task /\ todo'[w] = Tail(todo[w])
  BY <1>1, <1>2, <1>4, HeadTailProperties
<1>6. OneChanged(Worker, todo, todo', w)
  BY <1>2, <1>4 DEF OneChanged
<1>7. ASSUME NEW u \in Task
      PROVE  /\ Count(u, todo') + (IF t = u THEN 1 ELSE 0) = Count(u, todo)
             /\ Count(u, todo') \in Nat
  <2>1. /\ Count(u, todo') + Times(u, todo[w]) = Count(u, todo) + Times(u, todo'[w])
        /\ Count(u, todo') \in Nat /\ Count(u, todo) \in Nat
        /\ Times(u, todo[w]) \in Nat /\ Times(u, todo'[w]) \in Nat
    BY <1>6, CountChange
  <2>2. Times(u, todo[w]) = Times(u, Tail(todo[w])) + (IF t = u THEN 1 ELSE 0)
    BY <1>1, <1>2, <1>4, TimesTail
  <2>3. Times(u, todo[w]) = Times(u, todo'[w]) + (IF t = u THEN 1 ELSE 0)
    BY <1>5, <2>2
  <2> QED
    BY <2>1, <2>3
<1>8. ASSUME NEW u
      PROVE  /\ Times(DepLpc(u), inbox')
                  = Times(DepLpc(u), inbox) + (IF t = u THEN 1 ELSE 0)
             /\ Times(AvailLpc(u), inbox') = Times(AvailLpc(u), inbox)
  <2>1. inbox \in Seq(Lpc) /\ DepLpc(t) \in Lpc
    BY <1>0, <1>5, LpcTypes DEF TypeOK
  <2>2. \A x : Times(x, Append(inbox, DepLpc(t)))
                 = Times(x, inbox) + (IF DepLpc(t) = x THEN 1 ELSE 0)
    BY <2>1, TimesAppend
  <2>3. DepLpc(t) # AvailLpc(u) /\ (DepLpc(t) = DepLpc(u) <=> t = u)
    BY Kinds
  <2>4. Times(AvailLpc(u), inbox) \in Nat
    BY <2>1, TimesType
  <2> QED
    BY <1>2, <2>2, <2>3, <2>4
<1>9. DepExact'
  <2>1. Due' = Due /\ \A u : Unserved(u)' = Unserved(u)
    BY <1>2 DEF Due, Unserved, Waiting
  <2>2. ASSUME NEW u \in Task
        PROVE  inCnt'[u] = Count(u, Due)' + Count(u, todo)' + Count(u, Unserved(u))'
                             + Times(DepLpc(u), inbox)'
    <3>1. inCnt[u] = Count(u, Due) + Count(u, todo) + Count(u, Unserved(u))
                       + Times(DepLpc(u), inbox)
      BY CountsOf
    <3>2. /\ Count(u, Due) \in Nat /\ Count(u, Unserved(u)) \in Nat
          /\ Times(DepLpc(u), inbox) \in Nat
      BY NumbersOf
    <3>3. Count(u, todo') + (IF t = u THEN 1 ELSE 0) = Count(u, todo)
          /\ Count(u, todo') \in Nat
      BY <1>7
    <3>4. Times(DepLpc(u), inbox')
            = Times(DepLpc(u), inbox) + (IF t = u THEN 1 ELSE 0)
      BY <1>8
    <3>5. inCnt[u] = Count(u, Due) + Count(u, todo') + Count(u, Unserved(u))
                       + Times(DepLpc(u), inbox')
      BY <3>1, <3>2, <3>3, <3>4
    <3> QED
      BY <1>2, <2>1, <3>5
  <2> QED
    BY <2>2 DEF DepExact
<1>10. AvailExact' /\ CallbacksExact'
  BY <1>2, <1>8, AvailKept, CallbacksKept DEF IInv
<1>11. TodoExact'
  BY <1>2, <1>4 DEF IInv, TodoExact
<1>12. PlaceExact' /\ LoopExact'
  BY <1>2, SeenKept, PlaceKept, LoopKept DEF IInv
<1>13. ExitExact'
  BY <1>2, ExitWorker
<1> QED
  BY <1>3, <1>9, <1>10, <1>11, <1>12, <1>13 DEF IInv

-----------------------------------------------------------------------------
LEMMA CountEmpty ==
  ASSUME NEW X, NEW f, DOMAIN f = X, \A x \in X : f[x] = <<>>, NEW t
  PROVE  Count(t, f) = 0
<1>1. \A x \in X : DOMAIN f[x] = {}
  OBVIOUS
<1>2. Entries(t, f) = {}
  BY <1>1 DEF Entries
<1> QED
  BY <1>2, FS_EmptySet DEF Count

LEMMA IInit == Init => IInv
<1> SUFFICES ASSUME Init PROVE IInv
  OBVIOUS
<1>0. Book /\ TypeOK /\ HoldsTask
  BY BookInit DEF Book
<1>1. /\ mpc = "setup" /\ pos = 1 /\ taskCnt = Len(Order) /\ ready = {} /\ avail = {}
      /\ inCnt = [t \in Task |-> LocalDeps(t) + RemoteDeps(t)]
      /\ availCnt = [t \in Task |-> RemoteDeps(t)]
      /\ msg = [m \in Msg |-> "away"] /\ thens = [m \in Msg |-> <<>>]
      /\ delayed = [c \in Cell |-> <<>>] /\ inbox = <<>>
      /\ ring = [w \in Worker |-> <<>>] /\ wpc = [w \in Worker |-> "get"]
      /\ todo = [w \in Worker |-> <<>>] /\ ran = [t \in Task |-> 0]
  BY DEF Init
<1>2. /\ Due = Out /\ Away = MsgTo /\ \A t : Unserved(t) = MsgTo
      /\ Running = [w \in Worker |-> <<>>]
  BY <1>1, SchedAssumption DEF Due, Away, Unserved, Running
<1>3. \A t : Count(t, todo) = 0 /\ Count(t, delayed) = 0 /\ Count(t, ring) = 0
             /\ Count(t, Running) = 0
  <2> SUFFICES ASSUME NEW t
               PROVE  Count(t, todo) = 0 /\ Count(t, delayed) = 0 /\ Count(t, ring) = 0
                      /\ Count(t, Running) = 0
    OBVIOUS
  <2>1. Count(t, todo) = 0
    BY <1>1, CountEmpty
  <2>2. Count(t, delayed) = 0
    BY <1>1, CountEmpty
  <2>3. Count(t, ring) = 0
    BY <1>1, CountEmpty
  <2>4. Count(t, Running) = 0
    BY <1>2, CountEmpty
  <2> QED
    BY <2>1, <2>2, <2>3, <2>4
<1>4. \A x : Times(x, inbox) = 0
  BY <1>1, TimesNone
<1>5. \A t : /\ LocalDeps(t) = Count(t, Out) /\ RemoteDeps(t) = Count(t, MsgTo)
             /\ Count(t, Out) \in Nat /\ Count(t, MsgTo) \in Nat
  BY DepCounts DEF LocalDeps, RemoteDeps, Count
<1>6. DepExact
  BY <1>1, <1>2, <1>3, <1>4, <1>5 DEF DepExact
<1>7. AvailExact
  BY <1>1, <1>2, <1>4, <1>5 DEF AvailExact
<1>8. CallbacksExact
  BY <1>1, TimesNone DEF CallbacksExact
<1>9. TodoExact
  BY <1>1 DEF TodoExact
<1>10. Seen = {}
  <2>1. \A j \in DOMAIN Order : ~(j < 1)
    BY SchedAssumption, LenProperties
  <2> QED
    BY <1>1, <2>1 DEF Seen
<1>11. PlaceExact
  BY <1>1, <1>3, <1>10 DEF PlaceExact, InReadyQueue, Released
<1>12. LoopExact
  <2>1. Assigned = {}
    BY <1>1, <1>3 DEF Assigned
  <2> QED
    BY <1>1, <2>1, OrderIsTaskGraph DEF LoopExact
<1>13. ExitExact
  BY <1>1 DEF ExitExact
<1> QED
  BY <1>0, <1>6, <1>7, <1>8, <1>9, <1>11, <1>12, <1>13 DEF IInv

LEMMA INext == IInv /\ [Next]_vars => IInv'
<1> SUFFICES ASSUME IInv, [Next]_vars PROVE IInv'
  OBVIOUS
<1>1. CASE Setup
  BY <1>1, ISetup
<1>2. CASE MasterMove
  BY <1>2, IMove
<1>3. CASE Handle
  BY <1>3, IHandleDep, IHandleAvail, IHandleDone DEF Handle
<1>4. ASSUME NEW t \in Task, Assign(t) \/ Fetch(t) PROVE IInv'
  BY <1>4, IAssign, IFetch
<1>5. ASSUME NEW m \in Msg, Deliver(m) \/ Land(m) PROVE IInv'
  BY <1>5, IDeliver, ILand
<1>6. ASSUME NEW w \in Worker, Work(w) PROVE IInv'
  BY <1>6, IGet, ICheck, IRun, ISignal, IReport DEF Work
<1>7. CASE UNCHANGED vars
  <2>1. /\ UNCHANGED <<mpc, pos, taskCnt, burst, ready, avail, inCnt, availCnt>>
        /\ UNCHANGED <<msg, thens, delayed, inbox, ring, wpc, cur, todo, ran>>
    BY <1>7 DEF vars, masterVars, queueVars, commVars, lockVars, poolVars, workerVars
  <2>2. Book'
    BY <1>7, BookNext DEF IInv
  <2> QED
    BY <2>1, <2>2, DepKept, AvailKept, CallbacksKept, TodoKept, SeenKept, PlaceKept,
       LoopKept, ExitKept DEF IInv
<1> QED
  BY <1>1, <1>2, <1>3, <1>4, <1>5, <1>6, <1>7
     DEF Next, MasterStep, MasterMove, Terminated

(* What is still on its way is what every count says, and each released    *)
(* task is in one place.                                                   *)
THEOREM SchedulerInvariant == Spec => []IInv
  BY IInit, INext, PTL DEF Spec

LEMMA InputsAreFirst == IInv => InputsFirst
<1> SUFFICES ASSUME IInv, NEW w \in Worker, wpc[w] = "run"
             PROVE  /\ \A s \in Sources(cur[w]) : ran[s] = 1
                    /\ \A x \in Inputs(cur[w]) : msg[x[1]] = "landed"
  BY DEF InputsFirst
<1>0. TypeOK /\ HoldsTask
  BY DEF IInv, Book
<1>1. PICK t \in Task : t = cur[w]
  BY <1>0 DEF HoldsTask
<1>2. inCnt[t] = 0
  <2>1. IsFiniteSet(Worker) /\ Running \in [Worker -> Seq(Task)]
    BY <1>0, FamilyTypes
  <2>2. Times(t, Running[w]) = 1
    <3>1. Running[w] = <<t>>
      BY <1>1 DEF Running
    <3> QED
      BY <3>1, TimesSingle
  <2>3. Count(t, Running) # 0
    BY <2>1, <2>2, CountNone
  <2>4. Released(t) # 0
    <3>1. InReadyQueue(t) + Count(t, delayed) + Count(t, ring)
            + Count(t, Running) + ran[t] = Released(t)
      BY CountsOf
    <3>2. /\ InReadyQueue(t) \in 0..1 /\ Count(t, delayed) \in Nat
          /\ Count(t, ring) \in Nat /\ Count(t, Running) \in Nat /\ ran[t] \in Nat
      BY NumbersOf
    <3>3. Count(t, Running) > 0
      BY <2>3, <3>2
    <3> QED
      BY <3>1, <3>2, <3>3
  <2> QED
    BY <2>4 DEF Released
<1>3. /\ Count(t, Due) = 0
      /\ \A m \in Msg : msg[m] # "landed" => Times(t, MsgTo[m]) = 0
  BY <1>2, Satisfied
<1>4. ASSUME NEW s \in Sources(t) PROVE ran[s] = 1
  <2>1. s \in Task /\ \E i \in DOMAIN Out[s] : Out[s][i] = t
    BY DEF Sources
  <2>2. Due \in [Task -> Seq(Task)] /\ IsFiniteSet(Task) /\ Out[s] \in Seq(Task)
    BY <1>0, <2>1, FamilyTypes
  <2>3. Times(t, Due[s]) = 0
    BY <1>3, <2>1, <2>2, CountNone
  <2>4. Times(t, Out[s]) # 0
    BY <2>1, <2>2, TimesZero, LenProperties
  <2>5. ran[s] # 0
    BY <2>1, <2>3, <2>4 DEF Due
  <2>6. InReadyQueue(s) + Count(s, delayed) + Count(s, ring)
          + Count(s, Running) + ran[s] <= 1
    BY <2>1, SinglePlace DEF IInv
  <2>7. /\ InReadyQueue(s) \in 0..1 /\ Count(s, delayed) \in Nat
        /\ Count(s, ring) \in Nat /\ Count(s, Running) \in Nat /\ ran[s] \in Nat
    BY <2>1, NumbersOf
  <2>8. ran[s] <= 1
    BY <2>6, <2>7
  <2> QED
    BY <2>5, <2>7, <2>8
<1>5. ASSUME NEW x \in Inputs(t) PROVE msg[x[1]] = "landed"
  <2>1. MsgTo \in [Msg -> Seq(Task)]
    BY SchedAssumption
  <2>2. x[1] \in Msg /\ x[2] \in Places(t, MsgTo[x[1]])
    BY <2>1, EntryShape DEF Inputs
  <2>3. MsgTo[x[1]] \in Seq(Task) /\ \E i \in 1..Len(MsgTo[x[1]]) : MsgTo[x[1]][i] = t
    BY <2>1, <2>2 DEF Places
  <2>4. Times(t, MsgTo[x[1]]) # 0
    BY <2>3, TimesZero
  <2> QED
    BY <1>3, <2>2, <2>4
<1> QED
  BY <1>1, <1>4, <1>5

(* A task runs only after every local task it depends on has run and every *)
(* message it takes has landed, however often a message lists it.          *)
THEOREM InputsComeFirst == Spec => []InputsFirst
  BY InputsAreFirst, SchedulerInvariant, PTL

LEMMA NothingLeft == IInv => CleanExit
<1> SUFFICES ASSUME IInv, mpc = "end"
             PROVE  /\ inbox = <<>> /\ ready = {} /\ avail = {}
                    /\ \A c \in Cell : delayed[c] = <<>>
                    /\ \A w \in Worker : load[w] = Len(ring[w])
  BY DEF CleanExit
<1>0. TypeOK /\ HoldsTask /\ LoadExact
  BY DEF IInv, Book
<1>1. inbox = <<>> /\ \A w \in Worker : wpc[w] = "exit"
  BY DEF IInv, ExitExact
<1>2. taskCnt = 0
  BY DEF IInv, LoopExact
<1>3. \A t \in Task : inCnt[t] = 0 /\ InReadyQueue(t) = 0 /\ Count(t, delayed) = 0
  BY <1>2, AllHandedOver
<1>4. ready = {}
  BY <1>0, <1>3 DEF InReadyQueue, TypeOK
<1>5. avail = {}
  <2>1. \A t \in Task : ~Waiting(t)
    BY <1>3, Satisfied
  <2> QED
    BY <1>0, <2>1 DEF Waiting, TypeOK
<1>6. ASSUME NEW c \in Cell PROVE delayed[c] = <<>>
  <2>1. IsFiniteSet(Cell) /\ delayed \in [Cell -> Seq(Task)]
    BY <1>0, FamilyTypes
  <2>2. ASSUME NEW t \in Task PROVE Times(t, delayed[c]) = 0
    BY <1>3, <2>1, CountNone
  <2> QED
    BY <2>1, <2>2, NothingListed
<1>7. ASSUME NEW w \in Worker PROVE load[w] = Len(ring[w])
  <2>1. Reports(inbox, w) = {}
    BY <1>1 DEF Reports
  <2>2. Cardinality(Reports(inbox, w)) = 0 /\ Busy(w) = 0
    BY <1>1, <2>1, FS_EmptySet DEF Busy
  <2>3. load[w] = Len(ring[w]) + Busy(w) + Cardinality(Reports(inbox, w))
    BY <1>0 DEF LoadExact
  <2>4. Len(ring[w]) \in Nat
    BY <1>0, LenProperties DEF TypeOK
  <2> QED
    BY <2>2, <2>3, <2>4
<1> QED
  BY <1>1, <1>4, <1>5, <1>6, <1>7

(* When execute returns, the master has handled every lpc and no task is   *)
(* ready, delayed or available.                                            *)
THEOREM ExitIsClean == Spec => []CleanExit
  BY NothingLeft, SchedulerInvariant, PTL
=============================================================================
