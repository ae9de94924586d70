------------------------------ MODULE Counting ------------------------------
(***************************************************************************)
(* Facts about finite sets and sequences that the proofs of the counters   *)
(* need: how to count the entries of an inbox, what they weigh, and the    *)
(* sum of a function over a set.                                           *)
(* Nothing here is about symPACK.  No induction is used: what is counted   *)
(* is always the cardinality of a set of places.                           *)
(***************************************************************************)
EXTENDS Sequences, SequencesExt, FiniteSetTheorems, SequenceTheorems, TLAPS

LEMMA SplitCount ==
  ASSUME NEW A, NEW B, NEW S, IsFiniteSet(S), S = A \cup B, A \cap B = {}
  PROVE  /\ IsFiniteSet(A) /\ IsFiniteSet(B)
         /\ Cardinality(A) \in Nat /\ Cardinality(B) \in Nat
         /\ Cardinality(S) = Cardinality(A) + Cardinality(B)
<1>1. IsFiniteSet(A) /\ IsFiniteSet(B)
  BY FS_Subset
<1>2. Cardinality(A \cap B) = 0
  BY FS_EmptySet
<1>3. Cardinality(A \cup B) = Cardinality(A) + Cardinality(B) - Cardinality(A \cap B)
  BY <1>1, FS_Union
<1>4. Cardinality(A) \in Nat /\ Cardinality(B) \in Nat
  BY <1>1, FS_CardinalityType
<1>5. Cardinality(S) = Cardinality(A) + Cardinality(B)
  BY <1>2, <1>3, <1>4
<1> QED
  BY <1>1, <1>4, <1>5

LEMMA SameCount ==
  ASSUME NEW S, IsFiniteSet(S), NEW T, NEW f \in [S -> T],
         \A x, y \in S : f[x] = f[y] => x = y,
         \A y \in T : \E x \in S : f[x] = y
  PROVE  IsFiniteSet(T) /\ Cardinality(T) = Cardinality(S)
<1>1. f \in Bijection(S, T)
  BY DEF Bijection, Injection, Surjection, IsInjective
<1> QED
  BY <1>1, FS_Bijection DEF ExistsBijection

LEMMA IntoFinite ==
  ASSUME NEW T, IsFiniteSet(T), NEW S, NEW f \in [S -> T],
         \A x, y \in S : f[x] = f[y] => x = y
  PROVE  IsFiniteSet(S) /\ Cardinality(S) <= Cardinality(T)
<1>1. f \in Injection(S, T)
  BY DEF Injection, IsInjective
<1> QED
  BY <1>1, FS_Injection

LEMMA ImageFinite ==
  ASSUME NEW S, IsFiniteSet(S), NEW f, DOMAIN f = S, f = [y \in S |-> f[y]]
  PROVE  IsFiniteSet({f[y] : y \in S})
<1> DEFINE T == {f[y] : y \in S}
<1>1. f \in Surjection(S, T)
  BY DEF Surjection
<1> QED
  BY <1>1, FS_Surjection

(* A set of naturals has as many lower bounds as its least element says.   *)
LEMMA LeastNatural ==
  ASSUME NEW S, S \subseteq Nat, S # {}
  PROVE  \E m \in S : \A k \in S : m <= k
<1>1. PICK s \in S : TRUE
  OBVIOUS
<1> DEFINE D == {d \in Nat : \A k \in S : d <= k}
           c == Cardinality(D)
<1>2. D \subseteq 0..s
  BY <1>1
<1>3. IsFiniteSet(0..s) /\ IsFiniteSet(D)
  <2>1. 0 \in Int /\ s \in Int
    OBVIOUS
  <2>2. IsFiniteSet(0..s)
    BY <2>1, FS_Interval
  <2> QED
    BY <1>2, <2>2, FS_Subset
<1>4. c \in Nat
  BY <1>3, FS_CardinalityType
<1>5. \A d \in D : d < c
  <2> SUFFICES ASSUME NEW d \in D PROVE d < c
    OBVIOUS
  <2>1. 0..d \subseteq D
    OBVIOUS
  <2>2. Cardinality(0..d) = d + 1
    BY FS_Interval
  <2>3. Cardinality(0..d) <= c
    BY <1>3, <2>1, FS_Subset
  <2> QED
    BY <1>4, <2>2, <2>3
<1>6. 0 \in D
  BY <1>1
<1>7. D = 0..(c - 1)
  <2>1. D \subseteq 0..(c - 1)
    BY <1>4, <1>5
  <2>2. IsFiniteSet(0..(c - 1)) /\ Cardinality(0..(c - 1)) = c
    <3>1. c - 1 \in Int /\ 0 <= c - 1
      BY <1>4, <1>5, <1>6
    <3> QED
      BY <1>4, <3>1, FS_Interval
  <2> QED
    BY <2>1, <2>2, FS_Subset
<1> HIDE DEF c
<1>8. c - 1 \in D /\ c \notin D
  BY <1>4, <1>5, <1>6, <1>7
<1>9. PICK k \in S : ~(c <= k)
  BY <1>4, <1>8
<1>10. k = c - 1
  BY <1>4, <1>8, <1>9
<1> QED
  BY <1>8, <1>10

LEMMA SumIsZero ==
  ASSUME NEW a \in Nat, NEW b \in Nat, NEW c \in Nat, NEW n, n = 0, n = a + b + c
  PROVE  a = 0 /\ b = 0 /\ c = 0
  OBVIOUS

LEMMA PairIsZero ==
  ASSUME NEW a \in Nat, NEW b \in Nat, NEW n, n = 0, n = a + b
  PROVE  a = 0 /\ b = 0
  OBVIOUS

-----------------------------------------------------------------------------
(* How often x occurs in a sequence.                                       *)

Places(x, s) == {i \in 1..Len(s) : s[i] = x}
Times(x, s)  == Cardinality(Places(x, s))

LEMMA TimesType ==
  ASSUME NEW S, NEW s \in Seq(S), NEW x
  PROVE  IsFiniteSet(Places(x, s)) /\ Times(x, s) \in Nat
<1>1. IsFiniteSet(1..Len(s))
  BY LenProperties, FS_Interval
<1> QED
  BY <1>1, FS_Subset, FS_CardinalityType DEF Places, Times

LEMMA TimesZero ==
  ASSUME NEW S, NEW s \in Seq(S), NEW x
  PROVE  Times(x, s) = 0 <=> \A i \in 1..Len(s) : s[i] # x
<1>1. Times(x, s) = 0 <=> Places(x, s) = {}
  BY TimesType, FS_EmptySet DEF Times
<1> QED
  BY <1>1 DEF Places

LEMMA TimesConcat ==
  ASSUME NEW S, NEW s \in Seq(S), NEW u \in Seq(S), NEW x
  PROVE  Times(x, s \o u) = Times(x, s) + Times(x, u)
<1> DEFINE A == Places(x, s)
           U == Places(x, u)
           B == {i \in 1..Len(s \o u) : i > Len(s) /\ (s \o u)[i] = x}
           f == [i \in U |-> i + Len(s)]
<1>1. /\ s \o u \in Seq(S) /\ Len(s) \in Nat /\ Len(u) \in Nat
      /\ Len(s \o u) = Len(s) + Len(u)
      /\ \A i \in 1..(Len(s) + Len(u)) :
           (s \o u)[i] = IF i <= Len(s) THEN s[i] ELSE u[i - Len(s)]
  BY ConcatProperties, LenProperties
<1>2. Places(x, s \o u) = A \cup B /\ A \cap B = {}
  BY <1>1 DEF Places
<1>3. f \in [U -> B] /\ \A i, j \in U : f[i] = f[j] => i = j
  BY <1>1 DEF Places
<1>4. ASSUME NEW j \in B PROVE \E i \in U : f[i] = j
  <2>1. j - Len(s) \in U /\ f[j - Len(s)] = j
    BY <1>1 DEF Places
  <2> QED
    BY <2>1
<1>5. IsFiniteSet(U) /\ IsFiniteSet(Places(x, s \o u))
  BY <1>1, TimesType
<1>6. Cardinality(B) = Cardinality(U)
  <2> HIDE DEF f, U, B
  <2> QED
    BY <1>3, <1>4, <1>5, SameCount
<1>7. Cardinality(Places(x, s \o u)) = Cardinality(A) + Cardinality(B)
  <2> HIDE DEF A, B
  <2> QED
    BY <1>2, <1>5, SplitCount
<1> QED
  BY <1>6, <1>7 DEF Times

LEMMA TimesTail ==
  ASSUME NEW S, NEW s \in Seq(S), s # <<>>, NEW x
  PROVE  /\ Tail(s) \in Seq(S) /\ Head(s) \in S
         /\ Times(x, s) = Times(x, Tail(s)) + (IF Head(s) = x THEN 1 ELSE 0)
<1> DEFINE A == Places(x, Tail(s))
           B == Places(x, s) \ {1}
           f == [i \in A |-> i + 1]
<1>1. /\ Tail(s) \in Seq(S) /\ Len(s) \in Nat /\ Len(s) >= 1
      /\ Len(Tail(s)) = Len(s) - 1
      /\ \A i \in 1..Len(Tail(s)) : Tail(s)[i] = s[i + 1]
      /\ Head(s) = s[1] /\ Head(s) \in S
  BY HeadTailProperties, LenProperties, EmptySeq
<1>2. f \in [A -> B] /\ \A i, j \in A : f[i] = f[j] => i = j
  BY <1>1 DEF Places
<1>3. ASSUME NEW j \in B PROVE \E i \in A : f[i] = j
  <2>1. j - 1 \in A /\ f[j - 1] = j
    BY <1>1 DEF Places
  <2> QED
    BY <2>1
<1>4. IsFiniteSet(A) /\ IsFiniteSet(Places(x, s)) /\ Cardinality(A) \in Nat
      /\ Cardinality(Places(x, s)) \in Nat
  BY <1>1, TimesType DEF Times
<1>5. Cardinality(B) = Cardinality(A)
  <2> HIDE DEF f, A, B
  <2> QED
    BY <1>2, <1>3, <1>4, SameCount
<1>6. Cardinality(B) = IF 1 \in Places(x, s) THEN Cardinality(Places(x, s)) - 1
                       ELSE Cardinality(Places(x, s))
  BY <1>4, FS_RemoveElement
<1>7. 1 \in Places(x, s) <=> Head(s) = x
  BY <1>1 DEF Places
<1> QED
  BY <1>1, <1>4, <1>5, <1>6, <1>7 DEF Times

Repeat(n, a) == [i \in 1..n |-> a]

LEMMA TimesConst ==
  ASSUME NEW n \in Nat, NEW a, NEW x
  PROVE  /\ Repeat(n, a) \in Seq({a})
         /\ Times(x, Repeat(n, a)) = IF x = a THEN n ELSE 0
<1> DEFINE s == Repeat(n, a)
<1>1. s \in Seq({a}) /\ Len(s) = n
  BY SeqDef, LenProperties DEF Repeat
<1>2. Places(x, s) = IF x = a THEN 1..n ELSE {}
  BY <1>1 DEF Places, Repeat
<1>3. Cardinality(1..n) = n /\ Cardinality({}) = 0
  BY FS_Interval, FS_EmptySet
<1> QED
  BY <1>1, <1>2, <1>3 DEF Times

-----------------------------------------------------------------------------
(* A sequence that lists a set.                                            *)

LEMMA Listing ==
  ASSUME NEW E, IsFiniteSet(E)
  PROVE  /\ Cardinality(E) \in Nat
         /\ SetToSeq(E) \in [1..Cardinality(E) -> E] /\ SetToSeq(E) \in Seq(E)
         /\ DOMAIN SetToSeq(E) = 1..Cardinality(E)
         /\ \A i, j \in 1..Cardinality(E) : SetToSeq(E)[i] = SetToSeq(E)[j] => i = j
         /\ \A e \in E : \E i \in 1..Cardinality(E) : SetToSeq(E)[i] = e
<1> DEFINE n == Cardinality(E)
           s == SetToSeq(E)
<1>1. n \in Nat /\ \E g : g \in Bijection(1..n, E)
  BY FS_CardinalityType DEF ExistsBijection
<1>2. s \in [1..n -> E] /\ IsInjective(s)
  <2>1. \E g : g \in [1..n -> E] /\ IsInjective(g)
    BY <1>1 DEF Bijection, Injection
  <2> QED
    BY <2>1 DEF SetToSeq
<1>3. s \in Surjection(1..n, E)
  <2>1. s \in Injection(1..n, E)
    BY <1>2 DEF Injection
  <2>2. IsFiniteSet(1..n) /\ Cardinality(1..n) = n
    BY <1>1, FS_Interval
  <2> QED
    BY <2>1, <2>2, FS_Injection
<1>4. s \in Seq(E)
  BY <1>1, <1>2, SeqDef
<1> HIDE DEF s, n
<1>5. \A i, j \in 1..n : s[i] = s[j] => i = j
  BY <1>2 DEF IsInjective
<1>6. \A e \in E : \E i \in 1..n : s[i] = e
  BY <1>3 DEF Surjection
<1> QED
  BY <1>1, <1>2, <1>4, <1>5, <1>6 DEF s, n

-----------------------------------------------------------------------------
(* What the entries of a sequence weigh together, if w gives each entry a  *)
(* weight of at most b.                                                    *)

LEMMA UpTo ==
  ASSUME NEW n \in Nat
  PROVE  IsFiniteSet(1..n) /\ Cardinality(1..n) = n
<1>1. 1 \in Int /\ n \in Int
  OBVIOUS
<1>2. IsFiniteSet(1..n) /\ Cardinality(1..n) = IF 1 > n THEN 0 ELSE n - 1 + 1
  BY <1>1, FS_Interval
<1> QED
  BY <1>2

Units(w, b, s)  == {x \in (1..Len(s)) \X (1..b) : x[2] <= w[s[x[1]]]}
Weight(w, b, s) == Cardinality(Units(w, b, s))

LEMMA WeightType ==
  ASSUME NEW S, NEW b \in Nat, NEW w \in [S -> 0..b], NEW s \in Seq(S)
  PROVE  IsFiniteSet(Units(w, b, s)) /\ Weight(w, b, s) \in Nat
<1>1. IsFiniteSet(1..Len(s)) /\ IsFiniteSet(1..b)
  BY LenProperties, FS_Interval
<1>2. IsFiniteSet((1..Len(s)) \X (1..b))
  BY <1>1, FS_Product
<1> QED
  BY <1>2, FS_Subset, FS_CardinalityType DEF Units, Weight

LEMMA WeightZero ==
  ASSUME NEW S, NEW b \in Nat, NEW w \in [S -> 0..b], NEW s \in Seq(S),
         \A i \in 1..Len(s) : w[s[i]] = 0
  PROVE  Weight(w, b, s) = 0
<1>1. Units(w, b, s) = {}
  BY DEF Units
<1> QED
  BY <1>1, FS_EmptySet DEF Weight

LEMMA WeightNone ==
  ASSUME NEW S, NEW b \in Nat, NEW w \in [S -> 0..b], NEW s \in Seq(S),
         Weight(w, b, s) = 0
  PROVE  \A i \in 1..Len(s) : w[s[i]] = 0
<1>1. Units(w, b, s) = {}
  BY WeightType, FS_EmptySet DEF Weight
<1> SUFFICES ASSUME NEW i \in 1..Len(s), w[s[i]] # 0 PROVE FALSE
  OBVIOUS
<1>2. s[i] \in S /\ w[s[i]] \in 1..b
  BY ElementOfSeq
<1>3. <<i, 1>> \in Units(w, b, s)
  BY <1>2 DEF Units
<1> QED
  BY <1>1, <1>3

(* One entry weighs something.                                             *)
Alone(w, s, j) == \A i \in 1..Len(s) : i # j => w[s[i]] = 0
LEMMA WeightSingle ==
  ASSUME NEW S, NEW b \in Nat, NEW w \in [S -> 0..b], NEW s \in Seq(S),
         NEW j \in 1..Len(s), Alone(w, s, j)
  PROVE  Weight(w, b, s) = w[s[j]]
<1> DEFINE k == w[s[j]]
           f == [i \in 1..k |-> <<j, i>>]
           U == Units(w, b, s)
<1>1. k \in 0..b
  BY ElementOfSeq
<1>2. f \in [1..k -> U]
  BY <1>1 DEF Units
<1>3. \A x, y \in 1..k : f[x] = f[y] => x = y
  OBVIOUS
<1>4. \A y \in U : \E x \in 1..k : f[x] = y
  <2> SUFFICES ASSUME NEW y \in U PROVE \E x \in 1..k : f[x] = y
    OBVIOUS
  <2>1. /\ y = <<y[1], y[2]>> /\ y[1] \in 1..Len(s) /\ y[2] \in 1..b
        /\ y[2] <= w[s[y[1]]]
    BY DEF Units
  <2>2. y[1] = j
    BY <2>1 DEF Alone
  <2>3. y[2] \in 1..k /\ f[y[2]] = y
    BY <1>1, <2>1, <2>2
  <2> QED
    BY <2>3
<1>5. IsFiniteSet(1..k) /\ Cardinality(1..k) = k
  <2>1. k \in Nat
    BY <1>1
  <2> QED
    BY <2>1, UpTo
<1> HIDE DEF f, U, k
<1>6. Cardinality(U) = k
  BY <1>2, <1>3, <1>4, <1>5, SameCount
<1> QED
  BY <1>6 DEF U, k, Weight

LEMMA WeightConcat ==
  ASSUME NEW S, NEW b \in Nat, NEW w \in [S -> 0..b],
         NEW s \in Seq(S), NEW u \in Seq(S)
  PROVE  Weight(w, b, s \o u) = Weight(w, b, s) + Weight(w, b, u)
<1> DEFINE A == Units(w, b, s)
           U == Units(w, b, u)
           B == {x \in Units(w, b, s \o u) : x[1] > Len(s)}
           f == [x \in U |-> <<x[1] + Len(s), x[2]>>]
<1>1. /\ s \o u \in Seq(S) /\ Len(s) \in Nat /\ Len(u) \in Nat
      /\ Len(s \o u) = Len(s) + Len(u)
      /\ \A i \in 1..(Len(s) + Len(u)) :
           (s \o u)[i] = IF i <= Len(s) THEN s[i] ELSE u[i - Len(s)]
  BY ConcatProperties, LenProperties
<1>2. Units(w, b, s \o u) = A \cup B /\ A \cap B = {}
  BY <1>1 DEF Units
<1>3. f \in [U -> B]
  BY <1>1 DEF Units
<1>4. \A x, y \in U : f[x] = f[y] => x = y
  <2> SUFFICES ASSUME NEW x \in U, NEW y \in U, f[x] = f[y] PROVE x = y
    OBVIOUS
  <2>1. /\ x = <<x[1], x[2]>> /\ y = <<y[1], y[2]>>
        /\ x[1] \in Nat /\ y[1] \in Nat
    BY <1>1 DEF Units
  <2>2. x[1] + Len(s) = y[1] + Len(s) /\ x[2] = y[2]
    OBVIOUS
  <2>3. x[1] = y[1]
    BY <1>1, <2>1, <2>2
  <2> QED
    BY <2>1, <2>2, <2>3
<1>5. \A y \in B : \E x \in U : f[x] = y
  <2> SUFFICES ASSUME NEW y \in B PROVE \E x \in U : f[x] = y
    OBVIOUS
  <2>1. /\ y = <<y[1], y[2]>> /\ y[1] \in 1..(Len(s) + Len(u)) /\ y[2] \in 1..b
        /\ y[1] > Len(s) /\ y[2] <= w[(s \o u)[y[1]]]
    BY <1>1 DEF Units
  <2>2. y[1] - Len(s) \in 1..Len(u) /\ (s \o u)[y[1]] = u[y[1] - Len(s)]
    <3>1. PICK n \in Nat, k \in Nat : n = Len(s) /\ k = Len(u)
      BY <1>1
    <3>2. PICK i \in 1..(n + k) : i = y[1] /\ i > n
      BY <2>1, <3>1
    <3>3. (s \o u)[i] = u[i - n]
      BY <1>1, <3>1, <3>2
    <3>4. i - n \in 1..k
      BY <3>1, <3>2
    <3> QED
      BY <3>1, <3>2, <3>3, <3>4
  <2>3. <<y[1] - Len(s), y[2]>> \in U
    BY <2>1, <2>2 DEF Units
  <2>4. f[<<y[1] - Len(s), y[2]>>] = y
    BY <1>1, <2>1, <2>3
  <2> QED
    BY <2>3, <2>4
<1>6. IsFiniteSet(U) /\ IsFiniteSet(Units(w, b, s \o u))
  BY <1>1, WeightType
<1>7. Cardinality(B) = Cardinality(U)
  <2> HIDE DEF f, U, B
  <2> QED
    BY <1>3, <1>4, <1>5, <1>6, SameCount
<1>8. Cardinality(Units(w, b, s \o u)) = Cardinality(A) + Cardinality(B)
  <2> HIDE DEF A, B
  <2> QED
    BY <1>2, <1>6, SplitCount
<1> QED
  BY <1>7, <1>8 DEF Weight

LEMMA WeightTail ==
  ASSUME NEW S, NEW b \in Nat, NEW w \in [S -> 0..b], NEW s \in Seq(S), s # <<>>
  PROVE  /\ Tail(s) \in Seq(S) /\ Head(s) \in S
         /\ Weight(w, b, s) = w[Head(s)] + Weight(w, b, Tail(s))
<1> DEFINE h == <<Head(s)>>
<1>1. Tail(s) \in Seq(S) /\ Head(s) \in S /\ s = h \o Tail(s)
  BY HeadTailProperties
<1>2. /\ h \in Seq(S) /\ h[1] = Head(s)
      /\ 1 \in 1..Len(h) /\ Alone(w, h, 1)
  BY <1>1 DEF Alone
<1> HIDE DEF h
<1>3. Weight(w, b, h) = w[h[1]]
  <2>1. ASSUME NEW u \in Seq(S), 1 \in 1..Len(u), Alone(w, u, 1)
        PROVE  Weight(w, b, u) = w[u[1]]
    BY <2>1, WeightSingle
  <2> QED
    BY <1>2, <2>1
<1>4. Weight(w, b, h \o Tail(s)) = Weight(w, b, h) + Weight(w, b, Tail(s))
  <2>1. PICK u : u = Tail(s)
    OBVIOUS
  <2>2. h \in Seq(S) /\ u \in Seq(S)
    BY <1>1, <1>2, <2>1
  <2>3. Weight(w, b, h \o u) = Weight(w, b, h) + Weight(w, b, u)
    BY <2>2, WeightConcat
  <2> QED
    BY <2>1, <2>3
<1> QED
  BY <1>1, <1>2, <1>3, <1>4

(* Entries that are all the same.                                          *)
LEMMA WeightRepeat ==
  ASSUME NEW S, NEW b \in Nat, NEW w \in [S -> 0..b], NEW a \in S,
         NEW n \in Nat, w[a] = 1
  PROVE  Weight(w, b, Repeat(n, a)) = n
<1> DEFINE s == Repeat(n, a)
           f == [i \in 1..n |-> <<i, 1>>]
           U == Units(w, b, s)
<1>1. s \in Seq(S) /\ Len(s) = n
  BY SeqDef, LenProperties DEF Repeat
<1>2. \A i \in 1..n : s[i] = a
  BY DEF Repeat
<1>3. U = (1..n) \X {1}
  <2> HIDE DEF s
  <2>1. 1 \in 1..b
    OBVIOUS
  <2>2. \A x \in (1..Len(s)) \X (1..b) : x[2] <= w[s[x[1]]] <=> x[2] = 1
    BY <1>1, <1>2, <2>1
  <2> QED
    BY <1>1, <2>1, <2>2 DEF Units
<1>4. /\ f \in [1..n -> U]
      /\ \A x, y \in 1..n : f[x] = f[y] => x = y
      /\ \A y \in U : \E x \in 1..n : f[x] = y
  BY <1>3
<1>5. IsFiniteSet(1..n) /\ Cardinality(1..n) = n
  BY UpTo
<1> HIDE DEF f, U, s
<1>6. Cardinality(U) = n
  BY <1>4, <1>5, SameCount
<1> QED
  BY <1>6 DEF U, s, Weight
-----------------------------------------------------------------------------
(* The sum of the values of w over a finite set, as MapThenSumSet computes *)
(* it: one function satisfies the recursion of the fold.  That there is no *)
(* other one follows from a set of least cardinality where they differ.    *)

SumStep(f, w, A) ==
  IF A = {} THEN 0 ELSE LET x == CHOOSE x \in A : TRUE IN w[x] + f[A \ {x}]

IsSetSum(f, w, S) == f = [A \in SUBSET S |-> SumStep(f, w, A)]

LEMMA SumUnique ==
  ASSUME NEW S, IsFiniteSet(S), NEW w, NEW f, NEW g,
         IsSetSum(f, w, S), IsSetSum(g, w, S)
  PROVE  f = g
<1> DEFINE Bad == {A \in SUBSET S : f[A] # g[A]}
           Sizes == {Cardinality(A) : A \in Bad}
<1>1. \A A \in SUBSET S : IsFiniteSet(A) /\ Cardinality(A) \in Nat
  BY FS_Subset, FS_CardinalityType
<1>2. ASSUME Bad # {} PROVE FALSE
  <2>1. Sizes \subseteq Nat /\ Sizes # {}
    BY <1>1, <1>2
  <2>2. PICK n \in Sizes : \A k \in Sizes : n <= k
    BY <2>1, LeastNatural
  <2>3. PICK A \in Bad : Cardinality(A) = n
    BY <2>2
  <2>4. A \in SUBSET S /\ f[A] = SumStep(f, w, A) /\ g[A] = SumStep(g, w, A)
    BY DEF IsSetSum
  <2>5. A # {}
    BY <2>4 DEF SumStep
  <2>6. PICK d : d = CHOOSE x \in A : TRUE
    OBVIOUS
  <2>7. d \in A /\ f[A] = w[d] + f[A \ {d}] /\ g[A] = w[d] + g[A \ {d}]
    BY <2>4, <2>5, <2>6 DEF SumStep
  <2>8. A \ {d} \in SUBSET S /\ f[A \ {d}] # g[A \ {d}]
    BY <2>3, <2>4, <2>7
  <2>9. Cardinality(A \ {d}) \in Sizes
    BY <2>8
  <2>10. Cardinality(A \ {d}) = Cardinality(A) - 1
    BY <1>1, <2>4, <2>7, FS_RemoveElement
  <2>11. n \in Nat
    BY <2>1
  <2>12. n <= n - 1
    BY <2>2, <2>3, <2>9, <2>10
  <2> QED
    BY <2>11, <2>12
<1>3. f = [A \in SUBSET S |-> f[A]] /\ g = [A \in SUBSET S |-> g[A]]
  BY DEF IsSetSum
<1> QED
  BY <1>2, <1>3

(* The members of a finite set, told apart by a function into S.           *)
LEMMA SortedSum ==
  ASSUME NEW S, IsFiniteSet(S), NEW E, IsFiniteSet(E), NEW h, NEW w,
         \A r \in S : w[r] = Cardinality({e \in E : h[e] = r})
  PROVE  IsSetSum([A \in SUBSET S |-> Cardinality({e \in E : h[e] \in A})], w, S)
<1> DEFINE Of(A) == {e \in E : h[e] \in A}
           f == [A \in SUBSET S |-> Cardinality(Of(A))]
<1>1. \A A : IsFiniteSet(Of(A)) /\ Cardinality(Of(A)) \in Nat
  BY FS_Subset, FS_CardinalityType
<1>2. ASSUME NEW A \in SUBSET S PROVE f[A] = SumStep(f, w, A)
  <2>1. CASE A = {}
    <3>1. Of(A) = {}
      BY <2>1
    <3>2. f[A] = 0
      BY <3>1, FS_EmptySet
    <3> QED
      BY <2>1, <3>2 DEF SumStep
  <2>2. CASE A # {}
    <3>1. PICK d : d = CHOOSE x \in A : TRUE
      OBVIOUS
    <3>2. d \in A /\ d \in S /\ A \ {d} \in SUBSET S
      BY <2>2, <3>1
    <3> DEFINE One == {e \in E : h[e] = d}
               Rest == Of(A \ {d})
    <3>3. Of(A) = One \cup Rest /\ One \cap Rest = {}
      BY <3>2
    <3>4. Cardinality(Of(A)) = Cardinality(One) + Cardinality(Rest)
      <4> HIDE DEF One, Rest, Of
      <4> QED
        BY <1>1, <3>3, SplitCount
    <3>5. w[d] = Cardinality(One) /\ f[A \ {d}] = Cardinality(Rest)
          /\ f[A] = Cardinality(Of(A))
      BY <3>2
    <3>6. SumStep(f, w, A) = w[d] + f[A \ {d}]
      BY <2>2, <3>1 DEF SumStep
    <3> HIDE DEF One, Rest, Of, f
    <3> QED
      BY <3>4, <3>5, <3>6
  <2> QED
    BY <2>1, <2>2
<1>3. f = [A \in SUBSET S |-> f[A]]
  OBVIOUS
<1> HIDE DEF f
<1>4. [A \in SUBSET S |-> f[A]] = [A \in SUBSET S |-> SumStep(f, w, A)]
  BY <1>2
<1>5. IsSetSum(f, w, S)
  BY <1>3, <1>4 DEF IsSetSum
<1> QED
  BY <1>5 DEF f
=============================================================================
