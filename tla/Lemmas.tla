-------------------------------- MODULE Lemmas --------------------------------
(***************************************************************************)
(* What the theorems of this project rest on.  Induction and recursion:    *)
(* the provers cannot instantiate a rule that has an operator as a         *)
(* parameter, so induction is stated of sets and recursion of functions    *)
(* between them.  And what the packed number of a state tells about it.    *)
(***************************************************************************)
EXTENDS Packing, WellFoundedInduction, SequenceTheorems, TLAPS

\* A set of natural numbers has a least element.
LEMMA Least ==
    ASSUME NEW S \in SUBSET Nat, S # {}
    PROVE  \E m \in S : \A k \in S : m =< k
<1> DEFINE R == {ss \in Nat \X Nat : ss[1] < ss[2]}
<1>1. IsWellFoundedOn(R, Nat)
  BY NatLessThanWellFounded DEF OpToRel
<1>2. PICK m \in S : \A y \in S : ~(<<y, m>> \in R)
  BY <1>1, WFMin
<1>3. ASSUME NEW k \in S PROVE m =< k
  <2>1. <<k, m>> \in Nat \X Nat /\ <<k, m>> \notin R
    BY <1>2
  <2>2. ~(k < m)
    BY <2>1
  <2> QED
    BY <2>2
<1> QED
  BY <1>3

\* Induction up to a number.
LEMMA UpTo ==
    ASSUME NEW K \in Nat, NEW S, 0 \in S,
           \A k \in 1..K : k - 1 \in S => k \in S
    PROVE  0..K \subseteq S
<1> SUFFICES ASSUME NEW bad \in 0..K, bad \notin S PROVE FALSE
  OBVIOUS
<1> DEFINE B == {k \in 0..K : k \notin S}
<1>0. B \in SUBSET Nat /\ B # {}
  BY SMT
<1>1. PICK m \in B : \A k \in B : m =< k
  <2> HIDE DEF B
  <2> QED
    BY <1>0, Least
<1>2. m \in 1..K
  BY <1>1
<1>3. m - 1 \notin B /\ m - 1 \in 0..K
  BY <1>1, <1>2
<1> QED
  BY <1>1, <1>2, <1>3

\* What Body says of an element of G depends on elements of lower rank only.
LooksDown(G, V, N, Rank, Body) ==
    /\ Rank \in [G -> 0..N]
    /\ Body \in [[G -> V] -> [G -> V]]
    /\ \A f1, f2 \in [G -> V], g \in G :
          (\A h \in G : Rank[h] < Rank[g] => f1[h] = f2[h])
             => Body[f1][g] = Body[f2][g]

\* Then the equation of a recursive function has a solution.
LEMMA Recursion ==
    ASSUME NEW G, NEW V, V # {}, NEW N \in Nat, NEW Rank, NEW Body,
           LooksDown(G, V, N, Rank, Body)
    PROVE  \E f \in [G -> V] : f = Body[f]
<1> USE DEF LooksDown
<1> PICK v \in V : TRUE
  OBVIOUS
<1> DEFINE Solves(f, n) == \A g \in G : Rank[g] < n => f[g] = Body[f][g]
           S == {n \in 0..(N + 1) : \E f \in [G -> V] : Solves(f, n)}
<1>1. 0 \in S
  <2>1. [g \in G |-> v] \in [G -> V]
    OBVIOUS
  <2>2. \A f : Solves(f, 0)
    OBVIOUS
  <2>3. 0 \in 0..(N + 1)
    OBVIOUS
  <2> HIDE DEF Solves
  <2> QED
    BY <2>1, <2>2, <2>3
<1>2. ASSUME NEW n \in 1..(N + 1), n - 1 \in S PROVE n \in S
  <2>1. PICK f \in [G -> V] : Solves(f, n - 1)
    BY <1>2
  <2> DEFINE f2 == Body[f]
  <2>2. f2 \in [G -> V]
    OBVIOUS
  <2>3. ASSUME NEW g \in G, Rank[g] < n PROVE f2[g] = Body[f2][g]
    <3>1. ASSUME NEW h \in G, Rank[h] < Rank[g] PROVE f[h] = f2[h]
      <4>1. Rank[h] < n - 1
        BY <2>3, <3>1
      <4> QED
        BY <2>1, <4>1
    <3> QED
      BY <2>2, <3>1
  <2>4. Solves(f2, n)
    BY <2>3
  <2> HIDE DEF f2, Solves
  <2> QED
    BY <2>2, <2>4
<1>3. N + 1 \in S
  <2> HIDE DEF S
  <2>1. \A n \in 1..(N + 1) : n - 1 \in S => n \in S
    BY <1>2
  <2>2. N + 1 \in Nat /\ N + 1 \in 0..(N + 1)
    BY SMT
  <2>3. 0..(N + 1) \subseteq S
    BY <1>1, <2>1, <2>2, UpTo
  <2> QED
    BY <2>2, <2>3
<1>4. PICK f \in [G -> V] : Solves(f, N + 1)
  BY <1>3
<1>5. \A g \in G : f[g] = Body[f][g]
  BY <1>4
<1> QED
  BY <1>5
-----------------------------------------------------------------------------
(* Packing the task states into a number.                                  *)

\* The sums that Compress forms, one more state at a time.
LEMMA CompressUnfolds ==
    ASSUME NEW q \in Seq(Nat)
    PROVE  \E sum \in [0..Len(q) -> Nat] :
              /\ Compress(q) = sum[Len(q)]
              /\ sum[0] = 0
              /\ \A i \in 1..Len(q) : sum[i] = 16 * sum[i - 1] + q[i]
<1> DEFINE L == Len(q)
           D == 0..L
           Rank == [i \in D |-> i]
           Body == [f \in [D -> Nat] |->
                      [i \in D |-> IF i = 0 THEN 0 ELSE 16 * f[i - 1] + q[i]]]
           Eq(f) == f = [i \in D |-> IF i = 0 THEN 0 ELSE 16 * f[i - 1] + q[i]]
<1>1. L \in Nat /\ \A i \in 1..L : q[i] \in Nat
  OBVIOUS
<1>2. \A i \in D : i # 0 => i \in 1..L /\ i - 1 \in D
  BY <1>1
<1>3. ASSUME NEW f \in [D -> Nat]
      PROVE  Body[f] \in [D -> Nat]
  <2>1. ASSUME NEW i \in D
        PROVE  (IF i = 0 THEN 0 ELSE 16 * f[i - 1] + q[i]) \in Nat
    <3>1. CASE i = 0
      BY <3>1
    <3>2. CASE i # 0
      <4>1. f[i - 1] \in Nat /\ q[i] \in Nat
        BY <1>1, <1>2, <3>2
      <4>2. 16 * f[i - 1] + q[i] \in Nat
        BY <4>1, SMTT(30)
      <4> HIDE DEF D
      <4> QED
        BY <3>2, <4>2, Zenon
    <3> QED
      BY <3>1, <3>2
  <2> QED
    BY <2>1
<1>4. LooksDown(D, Nat, L, Rank, Body)
  <2>1. Rank \in [D -> 0..L]
    OBVIOUS
  <2>2. Body \in [[D -> Nat] -> [D -> Nat]]
    <3> HIDE DEF D
    <3> QED
      BY <1>3
  <2>3. ASSUME NEW f1 \in [D -> Nat], NEW f2 \in [D -> Nat], NEW i \in D,
               \A h \in D : Rank[h] < Rank[i] => f1[h] = f2[h]
        PROVE  Body[f1][i] = Body[f2][i]
    <3>1. i # 0 => f1[i - 1] = f2[i - 1]
      BY <1>1, <1>2, <2>3
    <3> QED
      BY <3>1
  <2> HIDE DEF Rank, Body, D
  <2> QED
    BY <2>1, <2>2, <2>3 DEF LooksDown
<1>5. \E f \in [D -> Nat] : f = Body[f]
  <2> DEFINE V == Nat
  <2>1. LooksDown(D, V, L, Rank, Body) /\ V # {} /\ L \in Nat
    BY <1>1, <1>4
  <2> HIDE DEF Rank, Body, D, V, L
  <2>2. \E f \in [D -> V] : f = Body[f]
    BY <2>1, Recursion
  <2> QED
    BY <2>2 DEF V
<1>6. \E f \in [D -> Nat] : Eq(f)
  BY <1>5
<1> DEFINE sum == CHOOSE f : Eq(f)
<1>7. Eq(sum)
  <2> HIDE DEF Eq
  <2> QED
    BY <1>6
<1>8. Compress(q) = sum[L]
  BY DEF Compress
<1> HIDE DEF sum
<1>9. sum[0] = 0 /\ \A i \in 1..L : sum[i] = 16 * sum[i - 1] + q[i]
  <2>1. \A i \in D : sum[i] = IF i = 0 THEN 0 ELSE 16 * sum[i - 1] + q[i]
    BY <1>7
  <2>2. 0 \in D /\ \A i \in 1..L : i \in D /\ i # 0
    BY <1>1
  <2> HIDE DEF D
  <2> QED
    BY <2>1, <2>2
<1> DEFINE N == {i \in D : sum[i] \in Nat}
<1>10. 0 \in N /\ \A i \in 1..L : i - 1 \in N => i \in N
  <2>1. 0 \in N
    BY <1>1, <1>9
  <2>2. ASSUME NEW i \in 1..L, i - 1 \in N PROVE i \in N
    <3>1. sum[i - 1] \in Nat /\ q[i] \in Nat /\ sum[i] = 16 * sum[i - 1] + q[i]
      BY <1>1, <1>9, <2>2
    <3>2. sum[i] \in Nat
      BY <3>1
    <3> QED
      BY <1>1, <3>2
  <2> QED
    BY <2>1, <2>2
<1>11. D \subseteq N
  <2> HIDE DEF N
  <2> QED
    BY <1>1, <1>10, UpTo
<1>12. sum \in [D -> Nat]
  BY <1>7, <1>11
<1> QED
  BY <1>8, <1>9, <1>12


\* A packed state is a natural number.
LEMMA CompressType == ASSUME NEW q \in Seq(Nat) PROVE Compress(q) \in Nat
<1>1. PICK sum \in [0..Len(q) -> Nat] : Compress(q) = sum[Len(q)]
  BY CompressUnfolds
<1>2. Len(q) \in 0..Len(q)
  BY LenProperties
<1> QED
  BY <1>1, <1>2

\* One more number.
LEMMA ShiftMonotone ==
    ASSUME NEW x \in Nat, NEW y \in Nat, NEW d \in Nat, NEW e \in Nat,
           x =< y, d =< e
    PROVE  16 * x + d =< 16 * y + e
OBVIOUS

\* Greater numbers have a greater sum.
LEMMA CompressMonotone ==
    ASSUME NEW q \in Seq(Nat), NEW r \in Seq(Nat), Len(q) = Len(r),
           \A i \in 1..Len(q) : q[i] =< r[i]
    PROVE  Compress(q) =< Compress(r)
<1> DEFINE L == Len(q)
<1>1. PICK a \in [0..L -> Nat] :
              /\ Compress(q) = a[L] /\ a[0] = 0
              /\ \A i \in 1..L : a[i] = 16 * a[i - 1] + q[i]
  BY CompressUnfolds
<1>2. PICK b \in [0..L -> Nat] :
              /\ Compress(r) = b[L] /\ b[0] = 0
              /\ \A i \in 1..L : b[i] = 16 * b[i - 1] + r[i]
  <2>1. \E b \in [0..Len(r) -> Nat] :
              /\ Compress(r) = b[Len(r)] /\ b[0] = 0
              /\ \A i \in 1..Len(r) : b[i] = 16 * b[i - 1] + r[i]
    BY CompressUnfolds
  <2>2. Len(r) = L
    OBVIOUS
  <2> HIDE DEF L
  <2> QED
    BY <2>1, <2>2
<1>3. L \in Nat /\ \A i \in 1..L : q[i] \in Nat /\ r[i] \in Nat
  OBVIOUS
<1> DEFINE S == {i \in 0..L : a[i] =< b[i]}
<1>4. 0 \in S
  BY <1>1, <1>2, <1>3
<1>5. ASSUME NEW i \in 1..L, i - 1 \in S PROVE i \in S
  <2>1. /\ a[i - 1] \in Nat /\ b[i - 1] \in Nat /\ a[i - 1] =< b[i - 1]
        /\ q[i] \in Nat /\ r[i] \in Nat /\ q[i] =< r[i]
    BY <1>3, <1>5
  <2>2. 16 * a[i - 1] + q[i] =< 16 * b[i - 1] + r[i]
    <3> HIDE DEF L, S
    <3> QED
      BY <2>1, ShiftMonotone
  <2>3. i \in 0..L /\ a[i] = 16 * a[i - 1] + q[i] /\ b[i] = 16 * b[i - 1] + r[i]
    BY <1>1, <1>2, <1>3
  <2> QED
    BY <2>2, <2>3
<1>6. L \in S
  <2> HIDE DEF S
  <2>1. 0..L \subseteq S
    BY <1>3, <1>4, <1>5, UpTo
  <2> QED
    BY <1>3, <2>1
<1> QED
  BY <1>1, <1>2, <1>6

\* States of four bits have a sum of their own.
LEMMA CompressInjective ==
    ASSUME NEW q \in Seq(0..15), NEW r \in Seq(0..15), Len(q) = Len(r),
           Compress(q) = Compress(r)
    PROVE  q = r
<1> DEFINE L == Len(q)
<1>0. q \in Seq(Nat) /\ r \in Seq(Nat)
  BY SMTT(30)
<1>1. PICK a \in [0..L -> Nat] :
              /\ Compress(q) = a[L] /\ a[0] = 0
              /\ \A i \in 1..L : a[i] = 16 * a[i - 1] + q[i]
  BY <1>0, CompressUnfolds
<1>2. PICK b \in [0..L -> Nat] :
              /\ Compress(r) = b[L] /\ b[0] = 0
              /\ \A i \in 1..L : b[i] = 16 * b[i - 1] + r[i]
  <2>1. \E b \in [0..Len(r) -> Nat] :
              /\ Compress(r) = b[Len(r)] /\ b[0] = 0
              /\ \A i \in 1..Len(r) : b[i] = 16 * b[i - 1] + r[i]
    BY <1>0, CompressUnfolds
  <2>2. Len(r) = L
    OBVIOUS
  <2> HIDE DEF L
  <2> QED
    BY <2>1, <2>2
<1>3. L \in Nat /\ \A i \in 1..L : q[i] \in 0..15 /\ r[i] \in 0..15
  OBVIOUS
<1>4. ASSUME NEW i \in 1..L, a[i] = b[i]
      PROVE  a[i - 1] = b[i - 1] /\ q[i] = r[i]
  <2>0. i - 1 \in 0..L
    BY <1>3
  <2>1. /\ a[i - 1] \in Nat /\ b[i - 1] \in Nat /\ q[i] \in 0..15 /\ r[i] \in 0..15
        /\ 16 * a[i - 1] + q[i] = 16 * b[i - 1] + r[i]
    <3>1. a[i - 1] \in Nat /\ b[i - 1] \in Nat
      BY <1>1, <1>2, <2>0
    <3>2. a[i] = 16 * a[i - 1] + q[i] /\ b[i] = 16 * b[i - 1] + r[i]
      BY <1>1, <1>2
    <3> QED
      BY <1>3, <1>4, <3>1, <3>2
  <2> DEFINE x == a[i - 1]  y == b[i - 1]  d == q[i]  e == r[i]
  <2>2. x \in Nat /\ y \in Nat /\ d \in 0..15 /\ e \in 0..15 /\ 16 * x + d = 16 * y + e
    BY <2>1, Zenon
  <2> HIDE DEF x, y, d, e
  <2>3. x = y /\ d = e
    BY <2>2
  <2> QED
    BY <2>3 DEF x, y, d, e
<1> DEFINE S == {j \in 0..L : a[L - j] = b[L - j]}
<1>5. 0 \in S
  <2>1. L - 0 = L /\ 0 \in 0..L
    BY <1>3
  <2>2. a[L] = b[L]
    BY <1>1, <1>2, Zenon
  <2> QED
    BY <2>1, <2>2
<1>6. ASSUME NEW j \in 1..L, j - 1 \in S PROVE j \in S
  <2>1. L - (j - 1) \in 1..L /\ L - (j - 1) - 1 = L - j /\ j \in 0..L
    BY <1>3
  <2>2. a[L - (j - 1)] = b[L - (j - 1)]
    BY <1>6
  <2>3. a[L - (j - 1) - 1] = b[L - (j - 1) - 1]
    BY <1>4, <2>1, <2>2
  <2> QED
    BY <2>1, <2>3
<1>7. 0..L \subseteq S
  <2> HIDE DEF S
  <2> QED
    BY <1>3, <1>5, <1>6, UpTo
<1>8. ASSUME NEW i \in 1..L PROVE q[i] = r[i]
  <2>1. L - i \in 0..L /\ L - (L - i) = i
    BY <1>3
  <2>2. L - i \in S
    BY <1>7, <2>1
  <2>3. a[i] = b[i]
    BY <2>1, <2>2
  <2> QED
    BY <1>4, <2>3
<1> QED
  BY <1>8, SeqEqual

\* Another number is added to what the sum is shifted to.
LEMMA CompressAppend ==
    ASSUME NEW q \in Seq(Nat), NEW d \in Nat
    PROVE  Compress(Append(q, d)) = 16 * Compress(q) + d
<1> DEFINE L == Len(q)  qd == Append(q, d)
<1>1. PICK a \in [0..L -> Nat] :
              /\ Compress(q) = a[L] /\ a[0] = 0
              /\ \A i \in 1..L : a[i] = 16 * a[i - 1] + q[i]
  BY CompressUnfolds
<1>2. /\ L \in Nat /\ qd \in Seq(Nat) /\ Len(qd) = L + 1
      /\ \A i \in 1..L : qd[i] = q[i]
      /\ qd[L + 1] = d
  BY AppendProperties, LenProperties
<1>3. PICK b \in [0..(L + 1) -> Nat] :
              /\ Compress(qd) = b[L + 1] /\ b[0] = 0
              /\ \A i \in 1..(L + 1) : b[i] = 16 * b[i - 1] + qd[i]
  <2> HIDE DEF qd, L
  <2>1. \E b \in [0..Len(qd) -> Nat] :
              /\ Compress(qd) = b[Len(qd)] /\ b[0] = 0
              /\ \A i \in 1..Len(qd) : b[i] = 16 * b[i - 1] + qd[i]
    BY <1>2, CompressUnfolds
  <2> QED
    BY <1>2, <2>1
<1> HIDE DEF qd, L
<1> DEFINE S == {i \in 0..L : a[i] = b[i]}
<1>4. 0 \in S
  BY <1>1, <1>2, <1>3
<1>5. ASSUME NEW i \in 1..L, i - 1 \in S PROVE i \in S
  <2>1. i \in 0..L /\ i \in 1..(L + 1)
    BY <1>2
  <2>2. a[i] = 16 * a[i - 1] + q[i] /\ b[i] = 16 * b[i - 1] + q[i]
    BY <1>1, <1>2, <1>3, <2>1
  <2> QED
    BY <1>5, <2>1, <2>2
<1>6. L \in S
  <2> HIDE DEF S
  <2>1. 0..L \subseteq S
    BY <1>2, <1>4, <1>5, UpTo
  <2> QED
    BY <1>2, <2>1
<1>7. b[L + 1] = 16 * b[L] + d
  <2>1. L + 1 \in 1..(L + 1) /\ L + 1 - 1 = L
    BY <1>2
  <2> QED
    BY <1>2, <1>3, <2>1
<1> QED
  BY <1>1, <1>3, <1>6, <1>7 DEF qd


\* What Summing lists are the lists of that length with that sum.
LEMMA SummingMeans ==
    ASSUME NEW numbers \in SUBSET Nat, NEW n \in Nat, NEW sum \in Nat
    PROVE  Summing(numbers, n, sum) =
              {q \in Seq(numbers) : Len(q) = n /\ Compress(q) = sum}
<1> DEFINE G == (0..n) \X (0..sum)
           V == SUBSET Seq(numbers)
           Last(p) == {d \in numbers : d =< p[2] /\ (p[2] - d) % 16 = 0}
           Before(p, d) == <<p[1] - 1, (p[2] - d) \div 16>>
           Body1(f, p) == IF p[1] = 0 THEN IF p[2] = 0 THEN {<< >>} ELSE {}
                          ELSE UNION {{Append(q, d) : q \in f[Before(p, d)]} : d \in Last(p)}
           Rank == [p \in G |-> p[1]]
           Body == [f \in [G -> V] |-> [p \in G |-> Body1(f, p)]]
           Eq(f) == f = [p \in G |-> Body1(f, p)]
<1>0. Seq(numbers) \subseteq Seq(Nat) /\ numbers \subseteq Nat
  BY SeqMonotonic
<1>1. ASSUME NEW p \in G, p[1] # 0, NEW d \in Last(p)
      PROVE  Before(p, d) \in G /\ Before(p, d)[1] < p[1]
  <2>1. p[1] \in 1..n /\ p[2] \in 0..sum /\ d \in Nat /\ d =< p[2]
    BY <1>1
  <2>2. (p[2] - d) \div 16 \in 0..sum
    BY <2>1
  <2> QED
    BY <2>1, <2>2
<1>2. ASSUME NEW f \in [G -> V], NEW p \in G PROVE Body1(f, p) \in V
  <2>1. CASE p[1] = 0
    BY <2>1
  <2>2. CASE p[1] # 0
    <3>1. ASSUME NEW d \in Last(p), NEW q \in f[Before(p, d)]
          PROVE  Append(q, d) \in Seq(numbers)
      <4>1. Before(p, d) \in G
        BY <1>1, <2>2
      <4>2. f[Before(p, d)] \in V
        <5> HIDE DEF Before, G, V
        <5> QED
          BY <4>1
      <4>3. q \in Seq(numbers) /\ d \in numbers
        BY <4>2
      <4> QED
        BY <4>3, AppendProperties
    <3> HIDE DEF Last, Before
    <3> QED
      BY <2>2, <3>1
  <2> QED
    BY <2>1, <2>2
<1>3. LooksDown(G, V, n, Rank, Body)
  <2>1. Rank \in [G -> 0..n]
    OBVIOUS
  <2>2. Body \in [[G -> V] -> [G -> V]]
    <3> HIDE DEF G, V, Body1
    <3> QED
      BY <1>2
  <2>3. ASSUME NEW f1 \in [G -> V], NEW f2 \in [G -> V], NEW p \in G,
               \A h \in G : Rank[h] < Rank[p] => f1[h] = f2[h]
        PROVE  Body[f1][p] = Body[f2][p]
    <3>1. CASE p[1] = 0
      <4>1. Body1(f1, p) = Body1(f2, p)
        BY <3>1
      <4> HIDE DEF Body1, G, V
      <4> QED
        BY <4>1
    <3>2. CASE p[1] # 0
      <4>1. ASSUME NEW d \in Last(p) PROVE f1[Before(p, d)] = f2[Before(p, d)]
        <5>1. Before(p, d) \in G /\ Before(p, d)[1] < p[1]
          BY <1>1, <3>2
        <5> HIDE DEF Before, G
        <5> QED
          BY <2>3, <5>1
      <4>2. Body1(f1, p) = Body1(f2, p)
        <5> HIDE DEF Last, Before
        <5> QED
          BY <3>2, <4>1
      <4> HIDE DEF Body1, G, V
      <4> QED
        BY <4>2
    <3> QED
      BY <3>1, <3>2
  <2> HIDE DEF Rank, Body, G, V
  <2> QED
    BY <2>1, <2>2, <2>3 DEF LooksDown
<1>4. \E f \in [G -> V] : f = Body[f]
  <2>1. V # {}
    OBVIOUS
  <2> HIDE DEF Rank, Body, G, V
  <2> QED
    BY <1>3, <2>1, Recursion
<1>5. \E f \in [G -> V] : Eq(f)
  <2> HIDE DEF G, V, Body1
  <2> QED
    BY <1>4
<1> DEFINE lists == CHOOSE f : Eq(f)
<1>6. Eq(lists)
  <2> HIDE DEF Eq
  <2> QED
    BY <1>5
<1>7. Summing(numbers, n, sum) = lists[<<n, sum>>]
  BY DEF Summing
<1> HIDE DEF lists
<1> DEFINE Means(k, s) == {q \in Seq(numbers) : Len(q) = k /\ Compress(q) = s}
           S == {k \in 0..n : \A s \in 0..sum : lists[<<k, s>>] = Means(k, s)}
<1>8. \A p \in G : lists[p] = Body1(lists, p)
  <2> HIDE DEF Body1, G
  <2> QED
    BY <1>6
<1>9. 0 \in S
  <2>1. ASSUME NEW s \in 0..sum PROVE lists[<<0, s>>] = Means(0, s)
    <3>1. <<0, s>> \in G
      OBVIOUS
    <3>2. lists[<<0, s>>] = IF s = 0 THEN {<< >>} ELSE {}
      BY <1>8, <3>1
    <3>3. \A q \in Seq(numbers) : Len(q) = 0 <=> q = << >>
      BY EmptySeq
    <3>4. << >> \in Seq(numbers) /\ Compress(<< >>) = 0
      <4>1. << >> \in Seq(Nat) /\ Len(<< >>) = 0
        OBVIOUS
      <4>2. \E a : Compress(<< >>) = a[Len(<< >>)] /\ a[0] = 0
        BY <4>1, CompressUnfolds
      <4> QED
        BY <4>1, <4>2
    <3> QED
      BY <3>2, <3>3, <3>4
  <2> QED
    BY <2>1
<1>10. ASSUME NEW k \in 1..n, k - 1 \in S PROVE k \in S
  <2>1. ASSUME NEW s \in 0..sum PROVE lists[<<k, s>>] = Means(k, s)
    <3> DEFINE p == <<k, s>>
    <3>1. p \in G /\ p[1] = k /\ p[2] = s /\ k # 0
      OBVIOUS
    <3>2. lists[p] = UNION {{Append(q, d) : q \in lists[Before(p, d)]} : d \in Last(p)}
      BY <1>8, <3>1
    <3>3. ASSUME NEW d \in Last(p)
          PROVE  /\ d \in numbers /\ d \in Nat /\ d =< s /\ (s - d) \div 16 \in Nat
                 /\ s = 16 * ((s - d) \div 16) + d
                 /\ lists[Before(p, d)] = Means(k - 1, (s - d) \div 16)
      <4>1. d \in numbers /\ d \in Nat /\ d =< s /\ (s - d) % 16 = 0 /\ s \in Nat
        OBVIOUS
      <4>2. (s - d) \div 16 \in 0..sum /\ s = 16 * ((s - d) \div 16) + d
        BY <4>1
      <4>3. Before(p, d) = <<k - 1, (s - d) \div 16>>
        OBVIOUS
      <4>4. lists[Before(p, d)] = Means(k - 1, (s - d) \div 16)
        <5> HIDE DEF Means, Before
        <5> QED
          BY <1>10, <4>2, <4>3
      <4> QED
        BY <4>1, <4>2, <4>4
    <3>4. ASSUME NEW r \in lists[p] PROVE r \in Means(k, s)
      <4>1. PICK d \in Last(p) : \E q \in lists[Before(p, d)] : r = Append(q, d)
        BY <3>2
      <4>0. PICK q \in lists[Before(p, d)] : r = Append(q, d)
        BY <4>1
      <4>2. /\ q \in Seq(numbers) /\ q \in Seq(Nat) /\ d \in numbers /\ d \in Nat
            /\ Len(q) = k - 1 /\ Compress(q) = (s - d) \div 16
        <5>1. q \in Means(k - 1, (s - d) \div 16)
          BY <3>3, <4>0, Zenon
        <5>2. q \in Seq(numbers) /\ Len(q) = k - 1 /\ Compress(q) = (s - d) \div 16
          BY <5>1, Zenon
        <5> QED
          BY <1>0, <5>2
      <4>3. r \in Seq(numbers) /\ Len(r) = k
        BY <4>0, <4>2, AppendProperties
      <4>4. Compress(r) = s
        BY <3>3, <4>0, <4>2, CompressAppend
      <4> QED
        BY <4>3, <4>4
    <3>5. ASSUME NEW r \in Means(k, s) PROVE r \in lists[p]
      <4>1. r \in Seq(numbers) /\ Len(r) = k /\ Compress(r) = s /\ r # << >>
        BY EmptySeq
      <4>2. PICK q \in Seq(numbers), d \in numbers : r = Append(q, d)
        BY <4>1, SequenceEmptyOrAppend
      <4>3. /\ q \in Seq(Nat) /\ d \in Nat /\ Len(q) \in Nat /\ Len(r) = Len(q) + 1
        <5>1. Len(r) = Len(q) + 1 /\ Len(q) \in Nat
          BY <4>2, AppendProperties, LenProperties
        <5> QED
          BY <1>0, <5>1
      <4>4. Compress(q) \in Nat /\ s = 16 * Compress(q) + d
        BY <4>1, <4>2, <4>3, CompressType, CompressAppend
      <4>5. d \in Last(p) /\ Compress(q) = (s - d) \div 16
        <5> DEFINE c == Compress(q)
        <5>1. c \in Nat /\ d \in Nat /\ s = 16 * c + d /\ s \in Nat
          BY <4>3, <4>4
        <5> HIDE DEF c
        <5>2. d =< s /\ (s - d) % 16 = 0 /\ (s - d) \div 16 = c
          BY <5>1
        <5> QED
          BY <5>2 DEF c
      <4>6. q \in lists[Before(p, d)]
        BY <3>3, <4>1, <4>3, <4>5
      <4> HIDE DEF Last, Before, p
      <4> QED
        BY <3>2, <4>2, <4>5, <4>6
    <3> HIDE DEF Means, Last, Before, p
    <3> QED
      BY <3>4, <3>5 DEF p
  <2> QED
    BY <2>1
<1>11. n \in S
  <2> HIDE DEF S
  <2>1. 0..n \subseteq S
    BY <1>9, <1>10, UpTo
  <2> QED
    BY <2>1
<1> QED
  BY <1>7, <1>11

LEMMA DivMod ==
    ASSUME NEW v \in Nat, NEW P \in Nat \ {0}
    PROVE  v % P \in Nat /\ v \div P \in Nat /\ v = (v % P) + (v \div P) * P
OBVIOUS

LEMMA DivLess ==
    ASSUME NEW v \in Nat, NEW P \in Nat \ {0}, v < P
    PROVE  v \div P = 0 /\ v % P = v
OBVIOUS

LEMMA DivMonotone ==
    ASSUME NEW v \in Nat, NEW M \in Nat, NEW P \in Nat \ {0}, v =< M
    PROVE  v \div P =< M \div P
<1> DEFINE a == v \div P
           b == M \div P
<1>1. a \in Nat /\ b \in Nat /\ v >= a * P /\ M < (b + 1) * P
  OBVIOUS
<1>2. SUFFICES ASSUME a >= b + 1 PROVE FALSE
  BY <1>1
<1> HIDE DEF a, b
<1>3. a * P >= (b + 1) * P
  BY <1>1, <1>2
<1> QED
  BY <1>1, <1>3

\* Numbers are among the lists that have their sum in a field of P elements.
LEMMA SumListed ==
    ASSUME NEW numbers \in SUBSET Nat, NEW n \in Nat,
           NEW q \in Seq(numbers), Len(q) = n,
           NEW P \in Nat \ {0}, NEW M \in Nat, Compress(q) =< M
    PROVE  \E k \in 0..(M \div P) : q \in Summing(numbers, n, (Compress(q) % P) + k * P)
<1> DEFINE v == Compress(q)
           k == v \div P
<1>1. q \in Seq(Nat)
  BY SeqMonotonic
<1>2. v \in Nat
  BY <1>1, CompressType
<1>3. q \in Summing(numbers, n, v)
  BY <1>2, SummingMeans
<1> HIDE DEF v
<1>4. v % P \in Nat /\ k \in Nat /\ v = (v % P) + k * P
  BY <1>2, DivMod
<1>5. k =< M \div P /\ M \div P \in Nat
  BY <1>2, DivMonotone, DivMod DEF v
<1> HIDE DEF k
<1>6. k \in 0..(M \div P)
  BY <1>4, <1>5
<1> QED
  BY <1>3, <1>4, <1>6 DEF v

\* Of states of four bits, which all have sums in the field, no others have the
\* sum.
LEMMA OnlySum ==
    ASSUME NEW n \in Nat, NEW r \in Seq(0..15), Len(r) = n,
           NEW P \in Nat \ {0}, NEW M \in Nat, M < P, Compress(r) =< M,
           NEW k \in 0..(M \div P),
           NEW q \in Summing(0..15, n, (Compress(r) % P) + k * P)
    PROVE  q = r
<1> DEFINE v == Compress(r)
<1>1. r \in Seq(Nat)
  BY SeqMonotonic
<1>2. v \in Nat /\ v < P
  BY <1>1, CompressType
<1>3. k = 0 /\ v % P = v
  <2>1. M \div P = 0
    BY DivLess
  <2>2. v % P = v
    <3> HIDE DEF v
    <3> QED
      BY <1>2, DivLess
  <2> QED
    BY <2>1, <2>2
<1>4. (v % P) + k * P = v
  BY <1>2, <1>3
<1>5. q \in Summing(0..15, n, v)
  BY <1>4
<1> HIDE DEF v
<1>6. 0..15 \in SUBSET Nat
  OBVIOUS
<1>7. q \in Seq(0..15) /\ Len(q) = n /\ Compress(q) = v
  BY <1>2, <1>5, <1>6, SummingMeans
<1> QED
  BY <1>7, CompressInjective DEF v
=============================================================================
