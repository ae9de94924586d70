--------------------------- MODULE Mapping_proofs ---------------------------
(***************************************************************************)
(* The cyclic mappings of the 1D code stay among the processes that take   *)
(* part, for any number of processes and of supernodes.                    *)
(***************************************************************************)
EXTENDS Mapping, FiniteSetTheorems, TLAPS

(* The names the options list for mappings without a tree.                 *)
Known == {"MODWRAP2D", "MODWRAP2DNS", "WRAP2D", "WRAP2DFORCED",
          "ROW2D", "COL2D", "FANOUT", "FANIN"}

(* Two factors in order have their squares in order.                       *)
LEMMA SquareMono ==
  ASSUME NEW a \in Nat, NEW b \in Nat, a <= b
  PROVE  a * a <= b * b
<1> DEFINE d == b - a
<1>1. d \in Nat /\ b = a + d BY DEF d
<1> HIDE DEF d
<1>2. b * b = a * a + (2 * a + d) * d BY <1>1
<1>3. (2 * a + d) * d \in Nat BY <1>1
<1>4. a * a \in Nat OBVIOUS
<1> QED BY <1>2, <1>3, <1>4

(* The numbers whose square is at most n are as many as their greatest plus *)
(* one, so the root exists.                                                *)
LEMMA RootIs ==
  ASSUME NEW n \in Nat
  PROVE  /\ Root(n) \in 0..n
         /\ Root(n) * Root(n) <= n /\ n < (Root(n) + 1) * (Root(n) + 1)
<1> DEFINE S == {k \in 0..n : k * k <= n}
           c == Cardinality(S)
<1>1. IsFiniteSet(S) /\ c \in Nat
  <2>1. IsFiniteSet(0..n) BY FS_Interval
  <2>2. IsFiniteSet(S) BY <2>1, FS_Subset
  <2> QED BY <2>2, FS_CardinalityType
<1>2. ASSUME NEW k \in S, NEW j \in 0..k PROVE j \in S
  <2>1. j * j <= k * k BY SquareMono
  <2>2. j * j \in Nat /\ k * k \in Nat OBVIOUS
  <2> QED BY <2>1, <2>2
<1>3. c \notin S
  <2> SUFFICES ASSUME c \in S PROVE FALSE OBVIOUS
  <2>1. 0..c \subseteq S BY <1>2
  <2>2. Cardinality(0..c) = c + 1 BY <1>1, FS_Interval
  <2>3. Cardinality(0..c) <= c BY <1>1, <2>1, FS_Subset
  <2> HIDE DEF S, c
  <2> QED BY <1>1, <2>2, <2>3
<1>4. c - 1 \in S
  <2>1. 0 \in S OBVIOUS
  <2> SUFFICES ASSUME c - 1 \notin S PROVE FALSE OBVIOUS
  <2>2. \A k \in S : k < c - 1
    <3> SUFFICES ASSUME NEW k \in S, k >= c - 1 PROVE FALSE
      BY <1>1
    <3>1. CASE c >= 1
      <4>1. c - 1 \in 0..k BY <1>1, <3>1
      <4> QED BY <4>1, <1>2
    <3>2. CASE c = 0
      <4>1. S = {} BY <1>1, <3>2, FS_EmptySet
      <4> QED BY <4>1
    <3> HIDE DEF S, c
    <3> QED BY <1>1, <3>1, <3>2
  <2>3. S \subseteq 0..(c - 2) BY <1>1, <2>2
  <2>4. c >= 2 BY <1>1, <2>1, <2>2
  <2>5. Cardinality(0..(c - 2)) = c - 1 /\ IsFiniteSet(0..(c - 2))
    <3> HIDE DEF S, c
    <3>1. c - 2 \in Int /\ c - 2 - 0 + 1 = c - 1 /\ ~(0 > c - 2)
      BY <1>1, <2>4
    <3> QED BY ONLY <3>1, FS_Interval
  <2>6. c <= Cardinality(0..(c - 2)) BY <2>3, <2>5, FS_Subset
  <2> HIDE DEF S, c
  <2> QED BY <1>1, <2>5, <2>6
<1>5. n < c * c
  <2>1. CASE c \in 0..n
    <3>1. c * c \in Nat BY <1>1
    <3> QED BY <1>3, <2>1, <3>1
  <2>2. CASE c > n
    <3> HIDE DEF c
    <3>1. (n + 1) * (n + 1) <= c * c BY <1>1, <2>2, SquareMono
    <3>2. (n + 1) * (n + 1) = n * n + 2 * n + 1 /\ n * n \in Nat OBVIOUS
    <3>3. c * c \in Nat BY <1>1
    <3> QED BY <3>1, <3>2, <3>3
  <2> QED BY <1>1, <2>1, <2>2
<1>6. \E k \in 0..n : k * k <= n /\ n < (k + 1) * (k + 1)
  <2>1. c - 1 \in 0..n /\ (c - 1) * (c - 1) <= n BY <1>4
  <2> HIDE DEF c
  <2>2. c - 1 + 1 = c BY <1>1
  <2> QED BY <1>5, <2>1, <2>2
<1> HIDE DEF S, c
<1> QED BY <1>6 DEF Root

(* The root is the only one.                                               *)
LEMMA RootUnique ==
  ASSUME NEW n \in Nat, NEW k \in Nat, k * k <= n, n < (k + 1) * (k + 1)
  PROVE  Root(n) = k
<1> DEFINE r == Root(n)
<1>1. r \in Nat /\ r * r <= n /\ n < (r + 1) * (r + 1) BY RootIs
<1> HIDE DEF r
<1>2. CASE r < k
  <2>1. (r + 1) * (r + 1) <= k * k BY <1>1, <1>2, SquareMono
  <2>2. (r + 1) * (r + 1) \in Nat /\ k * k \in Nat BY <1>1
  <2> QED BY <1>1, <2>1, <2>2
<1>3. CASE k < r
  <2>1. (k + 1) * (k + 1) <= r * r BY <1>1, <1>3, SquareMono
  <2>2. (k + 1) * (k + 1) \in Nat /\ r * r \in Nat BY <1>1
  <2> QED BY <1>1, <2>1, <2>2
<1>4. r = k BY <1>1, <1>2, <1>3
<1> QED BY <1>4 DEF r

LEMMA DivMod ==
  ASSUME NEW a \in Nat, NEW b \in Nat \ {0}
  PROVE  /\ a \div b \in Nat /\ a % b \in 0..(b - 1)
         /\ a = b * (a \div b) + (a % b)
OBVIOUS

(* A quotient by b is below c if the dividend is below b * c.              *)
LEMMA QuotientBelow ==
  ASSUME NEW b \in Nat \ {0}, NEW c \in Nat, NEW a \in Nat, a < b * c
  PROVE  a \div b \in 0..(c - 1)
<1> DEFINE q == a \div b
<1>1. q \in Nat /\ a % b \in Nat /\ a = b * q + (a % b) BY DivMod
<1> HIDE DEF q
<1>2. ~(c <= q)
  <2> SUFFICES ASSUME c <= q PROVE FALSE OBVIOUS
  <2> DEFINE d == q - c
  <2>1. d \in Nat /\ q = c + d BY <1>1 DEF d
  <2> HIDE DEF d
  <2>2. b * q = b * c + b * d BY <2>1
  <2>3. b * c \in Nat /\ b * d \in Nat BY <2>1
  <2> QED BY <1>1, <2>2, <2>3
<1> QED BY <1>1, <1>2 DEF q

(* Rounding n down to a grid of its root keeps the root.                   *)
LEMMA RoundedRoot ==
  ASSUME NEW n \in Nat \ {0}
  PROVE  /\ Root(n) \in Nat \ {0} /\ n \div Root(n) \in Nat
         /\ Root(n) <= n \div Root(n)
         /\ Root(n) * (n \div Root(n)) \in Nat \ {0}
         /\ Root(Root(n) * (n \div Root(n))) = Root(n)
<1> DEFINE r == Root(n)
           c == n \div r
<1>1. r \in Nat /\ r * r <= n /\ n < (r + 1) * (r + 1) BY RootIs
<1>2. r # 0
  <2> HIDE DEF r
  <2> QED BY <1>1
<1> HIDE DEF r
<1>3. c \in Nat /\ n % r \in 0..(r - 1) /\ n = r * c + (n % r)
  BY <1>1, <1>2, DivMod
<1> HIDE DEF c
<1>4. r <= c
  <2> SUFFICES ASSUME c < r PROVE FALSE BY <1>1, <1>3
  <2> DEFINE d == r - 1 - c
  <2>1. d \in Nat /\ c = r - 1 - d BY <1>1, <1>3 DEF d
  <2> HIDE DEF d
  <2>2. r * c = r * r - r - r * d BY <1>1, <2>1
  <2>3. r * r \in Nat /\ r * d \in Nat BY <1>1, <2>1
  <2> QED BY <1>1, <1>3, <2>2, <2>3
<1>5. r * c \in Nat /\ r * c <= n /\ r * r <= r * c
  <2> DEFINE d == c - r
  <2>1. d \in Nat /\ c = r + d BY <1>1, <1>3, <1>4 DEF d
  <2> HIDE DEF d
  <2>2. r * c = r * r + r * d BY <1>1, <2>1
  <2>3. r * r \in Nat /\ r * d \in Nat BY <1>1, <2>1
  <2> QED BY <1>3, <2>2, <2>3
<1>6. r * c < (r + 1) * (r + 1)
  <2>1. (r + 1) * (r + 1) \in Nat BY <1>1
  <2> QED BY <1>1, <1>5, <2>1
<1>7. Root(r * c) = r BY <1>1, <1>5, <1>6, RootUnique
<1>8. r * c # 0
  <2>1. r * r # 0 /\ r * r \in Nat BY <1>1, <1>2
  <2> QED BY <1>5, <2>1
<1> QED BY <1>1, <1>2, <1>3, <1>4, <1>5, <1>7, <1>8 DEF r, c

(* With a mapping of the grid kind, the processes are a rounded number.    *)
LEMMA GridOfProcesses ==
  ASSUME NEW type \in SqrtP, NEW p \in Nat \ {0}, NEW ns \in Nat \ {0}
  PROVE  LET np == Processes(type, p, ns) IN
           \E c \in Nat : /\ Root(np) \in Nat \ {0} /\ Root(np) <= c
                         /\ np = Root(np) * c /\ np \in Nat \ {0}
<1>1. PICK n \in {p, ns} :
        Processes(type, p, ns) = Root(n) * (n \div Root(n))
  BY DEF Processes, used_procs, Lesser
<1>2. n \in Nat \ {0} BY <1>1
<1>3. Root(Root(n) * (n \div Root(n))) = Root(n) BY <1>2, RoundedRoot
<1> QED BY <1>1, <1>2, <1>3, RoundedRoot

(* The two formulas over a grid of r rows and c columns.                   *)
LEMMA GridIndex ==
  ASSUME NEW r \in Nat \ {0}, NEW c \in Nat,
         NEW x \in 0..(r - 1), NEW y \in 0..(c - 1)
  PROVE  x + r * y \in 0..(r * c - 1)
<1> DEFINE d == c - 1 - y
<1>1. d \in Nat /\ c = y + 1 + d BY DEF d
<1> HIDE DEF d
<1>2. r * c = r * y + r + r * d BY <1>1
<1>3. r * y \in Nat /\ r * d \in Nat BY <1>1
<1> QED BY <1>2, <1>3

-----------------------------------------------------------------------------
(* The process a mapping gives for a block is one of those that take part, *)
(* for every known mapping, any number of processes and supernodes, and    *)
(* any block: Mapping_->Map(i, j) < np.                                    *)
THEOREM OwnerIsAProcess ==
  ASSUME NEW type \in Known, NEW p \in Nat \ {0}, NEW ns \in Nat \ {0},
         NEW i \in Nat, NEW j \in Nat
  PROVE  LET np == Processes(type, p, ns) IN
           MapOf(type, i, j, np) \in 0..(np - 1)
<1> DEFINE np == Processes(type, p, ns)
           r  == Root(np)
<1>1. CASE type \in SqrtP
  <2>1. PICK c \in Nat : /\ r \in Nat \ {0} /\ r <= c
                        /\ np = r * c /\ np \in Nat \ {0}
    BY <1>1, GridOfProcesses
  <2> HIDE DEF np, r
  <2>2. ASSUME NEW x \in Nat PROVE x % r \in 0..(r - 1) BY <2>1, DivMod
  <2>3. ASSUME NEW x \in Nat PROVE (x % np) \div r \in 0..(c - 1)
    <3>1. x % np \in Nat /\ x % np < np BY <2>1, DivMod
    <3> QED BY <2>1, <3>1, QuotientBelow
  <2>4. ASSUME NEW x \in Nat PROVE x % r \in 0..(c - 1)
    BY <2>1, <2>2
  <2>5. wrap2D(i, j, r) \in 0..(np - 1)
    BY <2>1, <2>2, <2>4, GridIndex DEF wrap2D
  <2>6. wrap2DForced(i, j, np, r) \in 0..(np - 1)
    <3>1. j % np \in 0..(np - 1) BY <2>1, DivMod
    <3> QED BY <2>5, <3>1 DEF wrap2DForced
  <2>7. modwrap2DNS(i, j, np, r) \in 0..(np - 1)
    BY <2>1, <2>2, <2>3, GridIndex DEF modwrap2DNS
  <2>8. modwrap2D(i, j, np, r) \in 0..(np - 1)
    <3>1. Lesser(i, j) \in Nat /\ Greater(i, j) \in Nat
      BY DEF Lesser, Greater
    <3> QED BY <2>1, <2>2, <2>3, <3>1, GridIndex DEF modwrap2D
  <2>9. \/ MapOf(type, i, j, np) = wrap2D(i, j, r)
        \/ MapOf(type, i, j, np) = wrap2DForced(i, j, np, r)
        \/ MapOf(type, i, j, np) = modwrap2DNS(i, j, np, r)
        \/ MapOf(type, i, j, np) = modwrap2D(i, j, np, r)
    BY <1>1 DEF MapOf, SqrtP, r
  <2> QED BY <2>5, <2>6, <2>7, <2>8, <2>9 DEF np
<1>2. CASE type \notin SqrtP
  <2>1. np \in Nat \ {0}
    BY <1>2 DEF Processes, used_procs, Lesser
  <2> HIDE DEF np, r
  <2>2. type \in {"ROW2D", "FANOUT", "COL2D", "FANIN"}
    BY <1>2 DEF Known, SqrtP
  <2>3. i % np \in 0..(np - 1) /\ j % np \in 0..(np - 1)
    BY <2>1, DivMod
  <2>4. MapOf(type, i, j, np) \in {i % np, j % np}
    BY <2>2 DEF MapOf, row2D, col2D
  <2> QED BY <2>3, <2>4 DEF np
<1> QED BY <1>1, <1>2
=============================================================================
