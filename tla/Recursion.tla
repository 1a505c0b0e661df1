----------------------------- MODULE Recursion -----------------------------
(***************************************************************************)
(* Induction over sets of numbers, the functions that a recursion over a   *)
(* finite rank defines, and the texts joined out of parts.  All is stated  *)
(* about sets and functions, so that the provers can instantiate it.       *)
(***************************************************************************)
EXTENDS Naturals, SequenceTheorems, WellFoundedInduction, TLAPS

\* A set of numbers that has 0, and with each number the next, has them all.
LEMMA SetInduction ==
    ASSUME NEW S \in SUBSET Nat, 0 \in S, \A n \in S : n + 1 \in S
    PROVE  S = Nat
<1> SUFFICES ASSUME Nat \ S # {} PROVE FALSE
  OBVIOUS
<1> DEFINE T == Nat \ S
           R == OpToRel(<, Nat)
<1>1. \A m, n \in Nat : <<m, n>> \in R <=> m < n
  BY DEF OpToRel
<1>2. IsWellFoundedOn(R, Nat)
  BY NatLessThanWellFounded
<1> HIDE DEF R
<1>3. PICK n \in T : \A m \in T : ~ (<<m, n>> \in R)
  <2> HIDE DEF T
  <2>1. T \subseteq Nat /\ T # {}
    BY DEF T
  <2> QED BY <1>2, <2>1, WFMin
<1>4. n \in Nat /\ n # 0 /\ n \notin S
  BY <1>3
<1>5. n - 1 \in Nat /\ n - 1 < n
  BY <1>4
<1>6. n - 1 \notin T
  BY <1>1, <1>3, <1>4, <1>5
<1>7. n - 1 \in S
  BY <1>5, <1>6
<1>8. (n - 1) + 1 \in S
  BY <1>7
<1> QED BY <1>4, <1>8

\* Step gives a value at each place, made of the values at places of lower rank.
MadeOfLower(Step, S, V, rank) ==
    \A x \in S : \A f, g \in [S -> V] :
        (\A y \in S : rank[y] < rank[x] => f[y] = g[y]) => Step[<<x, f>>] = Step[<<x, g>>]

Solves(f, Step, S) == \A x \in S : f[x] = Step[<<x, f>>]

\* Then there is a function with these values.
LEMMA RecursiveFunction ==
    ASSUME NEW S, NEW V, V # {}, NEW N \in Nat, NEW rank \in [S -> 0..N],
           NEW Step \in [S \X [S -> V] -> V], MadeOfLower(Step, S, V, rank)
    PROVE  \E f \in [S -> V] : Solves(f, Step, S)
<1> USE DEF MadeOfLower, Solves
<1> DEFINE Upto(n) == \E f \in [S -> V] : \A x \in S : rank[x] < n => f[x] = Step[<<x, f>>]
           T == {n \in Nat : Upto(n)}
<1>1. 0 \in T
  <2>1. PICK v \in V : TRUE
    OBVIOUS
  <2>2. [x \in S |-> v] \in [S -> V]
    OBVIOUS
  <2>3. \A x \in S : ~ (rank[x] < 0)
    OBVIOUS
  <2>4. Upto(0)
    BY <2>2, <2>3
  <2> QED BY <2>4
<1>2. ASSUME NEW n \in T
      PROVE  n + 1 \in T
  <2>1. PICK f \in [S -> V] : \A x \in S : rank[x] < n => f[x] = Step[<<x, f>>]
    BY <1>2
  <2>2. n \in Nat
    OBVIOUS
  <2> DEFINE g == [x \in S |-> IF rank[x] < n THEN f[x] ELSE Step[<<x, f>>]]
  <2>3. \A x \in S : Step[<<x, f>>] \in V
    OBVIOUS
  <2>4. g \in [S -> V]
    BY <2>3
  <2>5. ASSUME NEW x \in S, rank[x] < n + 1
        PROVE  g[x] = Step[<<x, g>>]
    <3>1. \A y \in S : rank[y] < rank[x] => f[y] = g[y]
      BY <2>2, <2>5
    <3>2. Step[<<x, f>>] = Step[<<x, g>>]
      <4> HIDE DEF g
      <4> QED BY <2>4, <3>1
    <3>3. g[x] = Step[<<x, f>>]
      BY <2>1
    <3> QED BY <3>2, <3>3
  <2>6. Upto(n + 1)
    <3> HIDE DEF g
    <3> QED BY <2>4, <2>5
  <2> QED BY <2>2, <2>6
<1>3. T = Nat
  <2> HIDE DEF Upto
  <2>1. T \in SUBSET Nat
    OBVIOUS
  <2> HIDE DEF T
  <2> QED BY <1>1, <1>2, <2>1, SetInduction
<1>4. Upto(N + 1)
  <2>1. N + 1 \in T
    <3> HIDE DEF T
    <3> QED BY <1>3
  <2> HIDE DEF Upto
  <2> QED BY <2>1
<1>5. \A x \in S : rank[x] < N + 1
  OBVIOUS
<1> QED BY <1>4, <1>5

-----------------------------------------------------------------------------
(***************************************************************************)
(* Texts that are joined out of parts, one part after another.             *)
(***************************************************************************)
JoinsParts(f, first, part, n) ==
    f = [k \in 0..n |-> IF k = 0 THEN first ELSE f[k - 1] \o part[k]]

\* There is such a function.
LEMMA JoinExists ==
    ASSUME NEW S, NEW n \in Nat, NEW first \in Seq(S), NEW part \in [1..n -> Seq(S)]
    PROVE  \E f : JoinsParts(f, first, part, n)
<1> DEFINE D == 0..n
           V == Seq(S)
           Body(f, k) == IF k = 0 THEN first ELSE f[k - 1] \o part[k]
           rank == [k \in D |-> k]
           Step == [z \in D \X [D -> V] |-> Body(z[2], z[1])]
<1>1. ASSUME NEW k \in D, NEW f \in [D -> V]
      PROVE  Body(f, k) \in V
  <2>1. CASE k = 0
    BY <2>1
  <2>2. CASE k # 0
    <3>1. k \in 1..n /\ k - 1 \in D
      BY <2>2
    <3>2. f[k - 1] \in V /\ part[k] \in V
      BY <3>1
    <3> QED BY <2>2, <3>2
  <2> QED BY <2>1, <2>2
<1>2. ASSUME NEW k \in D, NEW f \in [D -> V], NEW g \in [D -> V],
             \A y \in D : y < k => f[y] = g[y]
      PROVE  Body(f, k) = Body(g, k)
  BY <1>2
<1> HIDE DEF Body, V
<1>3. Step \in [D \X [D -> V] -> V]
  BY <1>1
<1>4. MadeOfLower(Step, D, V, rank)
  BY <1>2 DEF MadeOfLower
<1>5. rank \in [D -> 0..n]
  OBVIOUS
<1>6. V # {}
  BY DEF V
<1>7. PICK f \in [D -> V] : Solves(f, Step, D)
  <2> HIDE DEF D, rank, Step
  <2> QED BY <1>3, <1>4, <1>5, <1>6, RecursiveFunction, Zenon
<1>8. f = [k \in D |-> Body(f, k)]
  BY <1>7 DEF Solves
<1> QED BY <1>8 DEF JoinsParts, Body

IsJoined(f, S, first, part, n) ==
    /\ f \in [0..n -> Seq(S)] /\ f[0] = first
    /\ \A k \in 1..n : f[k] = f[k - 1] \o part[k]

\* Its values are texts, each the one before and a part.
LEMMA JoinType ==
    ASSUME NEW S, NEW n \in Nat, NEW first \in Seq(S), NEW part \in [1..n -> Seq(S)],
           NEW f, JoinsParts(f, first, part, n)
    PROVE  IsJoined(f, S, first, part, n)
<1>1. \A k \in 0..n : f[k] = IF k = 0 THEN first ELSE f[k - 1] \o part[k]
  BY DEF JoinsParts
<1>2. f[0] = first
  BY <1>1
<1>3. \A k \in 1..n : f[k] = f[k - 1] \o part[k]
  <2> TAKE k \in 1..n
  <2>1. k \in 0..n /\ k # 0
    OBVIOUS
  <2> QED BY <1>1, <2>1
<1> DEFINE T == {k \in Nat : k \in 0..n => f[k] \in Seq(S)}
<1>4. 0 \in T
  BY <1>2
<1>5. ASSUME NEW k \in T
      PROVE  k + 1 \in T
  <2>1. SUFFICES ASSUME k + 1 \in 0..n PROVE f[k + 1] \in Seq(S)
    OBVIOUS
  <2>2. k \in 0..n /\ k + 1 \in 1..n /\ (k + 1) - 1 = k
    BY <2>1
  <2>3. f[k] \in Seq(S) /\ part[k + 1] \in Seq(S)
    BY <2>2
  <2>4. f[k + 1] = f[k] \o part[k + 1]
    BY <1>3, <2>2
  <2>5. \A a, b \in Seq(S) : a \o b \in Seq(S)
    BY ConcatProperties
  <2> QED BY <2>3, <2>4, <2>5
<1>6. T = Nat
  <2>1. T \in SUBSET Nat
    OBVIOUS
  <2> HIDE DEF T
  <2> QED BY <1>4, <1>5, <2>1, SetInduction
<1>7. f \in [0..n -> Seq(S)]
  <2>1. \A k \in 0..n : k \in T
    <3> HIDE DEF T
    <3> QED BY <1>6
  <2>2. \A k \in 0..n : f[k] \in Seq(S)
    BY <2>1
  <2>3. f = [k \in 0..n |-> f[k]]
    BY DEF JoinsParts
  <2> QED BY <2>2, <2>3
<1> QED BY <1>2, <1>3, <1>7 DEF IsJoined

\* A text is the beginning of another.
IsBeginning(a, b) == Len(a) <= Len(b) /\ \A i \in 1..Len(a) : b[i] = a[i]

\* What has been joined stays where it is.
LEMMA JoinStays ==
    ASSUME NEW S, NEW n \in Nat, NEW first \in Seq(S), NEW part \in [1..n -> Seq(S)],
           NEW f, IsJoined(f, S, first, part, n), NEW k \in 0..n, NEW m \in k..n
    PROVE  IsBeginning(f[k], f[m])
<1> DEFINE T == {d \in Nat : k + d \in 0..n => IsBeginning(f[k], f[k + d])}
<1>1. \A i \in 0..n : f[i] \in Seq(S) /\ Len(f[i]) \in Nat
  BY LenProperties DEF IsJoined
<1>2. 0 \in T
  BY <1>1 DEF IsBeginning
<1>3. ASSUME NEW d \in T
      PROVE  d + 1 \in T
  <2>1. SUFFICES ASSUME k + (d + 1) \in 0..n PROVE IsBeginning(f[k], f[k + (d + 1)])
    OBVIOUS
  <2> DEFINE i == k + d
  <2>2. i \in 0..n /\ i + 1 \in 1..n /\ (i + 1) - 1 = i /\ k + (d + 1) = i + 1
    BY <2>1
  <2>3. IsBeginning(f[k], f[i])
    BY <2>2
  <2> HIDE DEF i
  <2>4. f[i] \in Seq(S) /\ part[i + 1] \in Seq(S) /\ f[i + 1] = f[i] \o part[i + 1]
    BY <2>2 DEF IsJoined
  <2>5. IsBeginning(f[i], f[i + 1])
    <3> DEFINE a == f[i]
               b == part[i + 1]
    <3> HIDE DEF a, b
    <3>1. a \in Seq(S) /\ b \in Seq(S)
      BY <2>4 DEF a, b
    <3>2. IsBeginning(a, a \o b)
      BY <3>1, ConcatProperties, LenProperties DEF IsBeginning
    <3> QED BY <2>4, <3>2 DEF a, b
  <2>6. IsBeginning(f[k], f[i + 1])
    <3>1. Len(f[k]) \in Nat /\ Len(f[i]) \in Nat /\ Len(f[i + 1]) \in Nat
      BY <1>1, <2>2
    <3> QED BY <2>3, <2>5, <3>1 DEF IsBeginning
  <2> QED BY <2>2, <2>6
<1>4. T = Nat
  <2>1. T \in SUBSET Nat
    OBVIOUS
  <2> HIDE DEF T
  <2> QED BY <1>2, <1>3, <2>1, SetInduction
<1>5. m - k \in T /\ k + (m - k) = m /\ m \in 0..n
  <2> HIDE DEF T
  <2> QED BY <1>4
<1> QED BY <1>5
=============================================================================
