----------------------------- MODULE GraphProofs -----------------------------
(***************************************************************************)
(* Lemmas about the queries of ProcessGraph, for every well-formed graph:  *)
(* what traverse visits, how to recurse and to argue along the gateways in *)
(* and against the direction of the flow.                                  *)
(***************************************************************************)
EXTENDS ProcessGraph, Lemmas, FiniteSetTheorems, TLAPS

-----------------------------------------------------------------------------
(* What traverse of GetPreviousNodes visits.                               *)

LEMMA FiniteGateways ==
    ASSUME WellFormed
    PROVE  IsFiniteSet(Gateway) /\ Cardinality(Gateway) \in Nat
<1>1. Gateway \in SUBSET Node
  BY DEF Gateway
<1> QED
  BY <1>1, FS_Subset, FS_CardinalityType DEF WellFormed

\* One round of it: the gateways directly in front of S join S.
Back(S) == S \cup {g \in Gateway : \E f \in Outgoing(g) : f.dst \in S}

\* The recursion of Traversed: as many rounds as there are gateways.
LEMMA Rounds ==
    ASSUME WellFormed, NEW n
    PROVE  \E visited :
              /\ Traversed(n) = visited[Cardinality(Gateway)]
              /\ visited[0] = {n}
              /\ \A k \in 1..Cardinality(Gateway) : visited[k] = Back(visited[k - 1])
<1> DEFINE K == Cardinality(Gateway)
           V == SUBSET ({n} \cup Gateway)
           Body == [f \in [0..K -> V] |->
                      [k \in 0..K |-> IF k = 0 THEN {n} ELSE Back(f[k - 1])]]
           Rank == [k \in 0..K |-> k]
           Eq(f) == f = [k \in 0..K |->
                           IF k = 0 THEN {n}
                           ELSE f[k - 1] \cup
                                {g \in Gateway : \E e \in Outgoing(g) : e.dst \in f[k - 1]}]
           visited == CHOOSE f : Eq(f)
<1>1. K \in Nat
  BY FiniteGateways
<1>2. Body \in [[0..K -> V] -> [0..K -> V]]
  <2>1. ASSUME NEW f \in [0..K -> V], NEW k \in 0..K, k # 0 PROVE Back(f[k - 1]) \in V
    <3>1. k - 1 \in 0..K
      BY <1>1, <2>1
    <3> QED
      BY <3>1 DEF Back
  <2> QED
    BY <2>1
<1>3. \A f1, f2 \in [0..K -> V], k \in 0..K :
        (\A j \in 0..K : Rank[j] < Rank[k] => f1[j] = f2[j]) => Body[f1][k] = Body[f2][k]
  <2> SUFFICES ASSUME NEW f1 \in [0..K -> V], NEW f2 \in [0..K -> V], NEW k \in 0..K,
                      \A j \in 0..K : Rank[j] < Rank[k] => f1[j] = f2[j]
               PROVE  Body[f1][k] = Body[f2][k]
    OBVIOUS
  <2>1. CASE k = 0
    BY <2>1
  <2>2. CASE k # 0
    <3>1. k - 1 \in 0..K /\ k - 1 < k
      BY <1>1, <2>2
    <3> QED
      BY <2>2, <3>1
  <2> QED
    BY <2>1, <2>2
<1>4. Rank \in [0..K -> 0..K] /\ {n} \in V
  OBVIOUS
<1>5. \E f \in [0..K -> V] : f = Body[f]
  <2> DEFINE D == 0..K
  <2>1. V # {} /\ LooksDown(D, V, K, Rank, Body)
    BY <1>2, <1>3, <1>4 DEF LooksDown
  <2> HIDE DEF Body, Rank, V, D, K
  <2>2. \E f \in [D -> V] : f = Body[f]
    BY <1>1, <2>1, Recursion
  <2> QED
    BY <2>2 DEF D
<1>6. Eq(visited)
  <2>1. \E f : Eq(f)
    BY <1>5 DEF Back
  <2> QED
    BY <2>1
<1>7. Traversed(n) = visited[K]
  BY DEF Traversed
<1>8. visited[0] = {n} /\ \A k \in 1..K : visited[k] = Back(visited[k - 1])
  <2> HIDE DEF visited
  <2>1. 0 \in 0..K /\ \A k \in 1..K : k \in 0..K /\ k # 0
    BY <1>1
  <2> QED
    BY <1>6, <2>1 DEF Back
<1> QED
  BY <1>7, <1>8

\* Traversed(n) is the least set that has n and, with a node, the gateways
\* directly in front of it: as many rounds as there are gateways are enough.
LEMMA TraversedIsLeast ==
    ASSUME WellFormed, NEW n
    PROVE  /\ n \in Traversed(n)
           /\ Back(Traversed(n)) = Traversed(n)
           /\ \A C : n \in C /\ Back(C) = C => Traversed(n) \subseteq C
<1> DEFINE K == Cardinality(Gateway)
           X == {n} \cup Gateway
<1>1. K \in Nat /\ IsFiniteSet(X) /\ Cardinality(X) \in 0..(K + 1)
  <2>1. K \in Nat /\ IsFiniteSet(Gateway)
    BY FiniteGateways
  <2>2. /\ IsFiniteSet(Gateway \cup {n})
        /\ Cardinality(Gateway \cup {n}) = IF n \in Gateway THEN K ELSE K + 1
    BY <2>1, FS_AddElement
  <2>3. X = Gateway \cup {n}
    OBVIOUS
  <2> HIDE DEF X, K
  <2> QED
    BY <2>1, <2>2, <2>3
<1>2. PICK v : /\ Traversed(n) = v[K]
               /\ v[0] = {n}
               /\ \A k \in 1..K : v[k] = Back(v[k - 1])
  BY Rounds
<1>3. ASSUME NEW C, n \in C, Back(C) = C
      PROVE  \A k \in 0..K : v[k] \subseteq C
  <2> DEFINE S == {k \in 0..K : v[k] \subseteq C}
  <2>1. 0 \in S
    BY <1>1, <1>2, <1>3
  <2>2. ASSUME NEW k \in 1..K, k - 1 \in S PROVE k \in S
    BY <1>2, <1>3, <2>2 DEF Back
  <2>3. 0..K \subseteq S
    <3> HIDE DEF S
    <3> QED
      BY <1>1, <2>1, <2>2, UpTo
  <2> QED
    BY <2>3
<1>4. ASSUME NEW k \in 0..K PROVE n \in v[k] /\ v[k] \subseteq X
  <2>1. v[k] \subseteq X
    BY <1>3 DEF Back
  <2> DEFINE S == {j \in 0..K : n \in v[j]}
  <2>2. 0 \in S
    BY <1>1, <1>2
  <2>3. ASSUME NEW j \in 1..K, j - 1 \in S PROVE j \in S
    BY <1>2, <2>3 DEF Back
  <2>4. 0..K \subseteq S
    <3> HIDE DEF S
    <3> QED
      BY <1>1, <2>2, <2>3, UpTo
  <2> QED
    BY <2>1, <2>4
<1>5. \A k \in 0..K : IsFiniteSet(v[k]) /\ Cardinality(v[k]) \in Nat
  BY <1>1, <1>4, FS_Subset, FS_CardinalityType
<1>6. ASSUME NEW k \in 0..K PROVE Back(v[k]) = v[k] \/ Cardinality(v[k]) >= k + 1
  <2> DEFINE Grown(j) == Back(v[j]) = v[j] \/ Cardinality(v[j]) >= j + 1
             S == {j \in 0..K : Grown(j)}
  <2>1. 0 \in S
    <3>1. Cardinality(v[0]) = 1
      BY <1>2, FS_Singleton
    <3> QED
      BY <1>1, <3>1
  <2>2. ASSUME NEW j \in 1..K, j - 1 \in S PROVE j \in S
    <3>1. v[j] = Back(v[j - 1]) /\ j - 1 \in 0..K /\ Grown(j - 1)
      BY <1>2, <2>2
    <3>2. CASE Back(v[j - 1]) = v[j - 1]
      BY <3>1, <3>2
    <3>3. CASE Back(v[j - 1]) # v[j - 1]
      <4>1. v[j - 1] \in SUBSET v[j] /\ v[j - 1] # v[j]
        BY <3>1, <3>3 DEF Back
      <4>2. Cardinality(v[j - 1]) <= Cardinality(v[j])
            /\ Cardinality(v[j - 1]) # Cardinality(v[j])
        BY <1>5, <4>1, FS_Subset
      <4> QED
        BY <1>5, <3>1, <3>3, <4>2
    <3> QED
      BY <3>2, <3>3
  <2>3. 0..K \subseteq S
    <3> HIDE DEF S
    <3> QED
      BY <1>1, <2>1, <2>2, UpTo
  <2> QED
    BY <2>3
<1>7. K \in 0..K
  BY <1>1
<1>8. Back(v[K]) = v[K]
  <2>1. CASE Cardinality(v[K]) >= K + 1
    <3>1. v[K] \in SUBSET X
      BY <1>4, <1>7
    <3>2. Cardinality(v[K]) <= Cardinality(X)
          /\ (Cardinality(v[K]) = Cardinality(X) => v[K] = X)
      <4> HIDE DEF X
      <4> QED
        BY <1>1, <3>1, FS_Subset
    <3>3. v[K] = X
      BY <1>1, <1>5, <1>7, <2>1, <3>2
    <3> QED
      BY <3>3 DEF Back
  <2> QED
    BY <1>6, <1>7, <2>1
<1> QED
  BY <1>2, <1>3, <1>4, <1>7, <1>8

\* It stays among the gateways, and does not lead out of itself.
LEMMA TraversedFacts ==
    ASSUME WellFormed, NEW n
    PROVE  /\ n \in Traversed(n)
           /\ Traversed(n) \subseteq {n} \cup Gateway
           /\ \A g \in Gateway : \A f \in Outgoing(g) :
                 f.dst \in Traversed(n) => g \in Traversed(n)
           /\ \A m \in Traversed(n) : Traversed(m) \subseteq Traversed(n)
<1>1. n \in Traversed(n) /\ Back(Traversed(n)) = Traversed(n)
  BY TraversedIsLeast
<1>2. Traversed(n) \subseteq {n} \cup Gateway
  <2> DEFINE X == {n} \cup Gateway
  <2>1. n \in X /\ Back(X) = X
    BY DEF Back
  <2> QED
    BY <2>1, TraversedIsLeast
<1>3. \A m \in Traversed(n) : Traversed(m) \subseteq Traversed(n)
  BY <1>1, TraversedIsLeast
<1> QED
  BY <1>1, <1>2, <1>3 DEF Back

\* A node other than n is visited by way of a gateway directly in front of n.
LEMMA TraversedBy ==
    ASSUME WellFormed, NEW n, NEW x \in Traversed(n), x # n
    PROVE  \E g \in Gateway : (\E f \in Outgoing(g) : f.dst = n) /\ x \in Traversed(g)
<1> DEFINE Via(y) == \E g \in Gateway : (\E f \in Outgoing(g) : f.dst = n)
                                        /\ y \in Traversed(g)
           C == {n} \cup {y \in Traversed(n) : Via(y)}
<1>1. ASSUME NEW g \in Gateway, NEW f \in Outgoing(g), f.dst \in C
      PROVE  g \in C
  <2>1. g \in Traversed(n) /\ g \in Traversed(g)
    BY <1>1, TraversedFacts
  <2>2. CASE f.dst = n
    BY <2>1, <2>2
  <2>3. CASE Via(f.dst)
    <3>1. PICK h \in Gateway : (\E e \in Outgoing(h) : e.dst = n) /\ f.dst \in Traversed(h)
      BY <2>3
    <3>2. g \in Traversed(h)
      BY <3>1, TraversedFacts
    <3> QED
      BY <2>1, <3>1, <3>2
  <2> QED
    BY <1>1, <2>2, <2>3
<1>2. n \in C /\ Back(C) = C
  <2> HIDE DEF Via
  <2> QED
    BY <1>1 DEF Back
<1>3. x \in C
  <2> HIDE DEF C
  <2> QED
    BY <1>2, TraversedIsLeast
<1> QED
  BY <1>3

\* The further a gateway is from the start, the more is visited from it.
LEMMA TraversedGrows ==
    ASSUME WellFormed, NEW g \in Gateway
    PROVE  /\ Cardinality(Traversed(g)) \in 0..Cardinality(Gateway)
           /\ \A f \in Outgoing(g) : f.dst \in Gateway =>
                 Cardinality(Traversed(g)) < Cardinality(Traversed(f.dst))
<1>1. ASSUME NEW h \in Gateway
      PROVE  /\ IsFiniteSet(Traversed(h)) /\ Cardinality(Traversed(h)) \in Nat
             /\ Cardinality(Traversed(h)) <= Cardinality(Gateway)
  <2>1. Traversed(h) \in SUBSET Gateway
    BY TraversedFacts
  <2> QED
    BY <2>1, FiniteGateways, FS_Subset, FS_CardinalityType
<1>2. ASSUME NEW f \in Outgoing(g), f.dst \in Gateway
      PROVE  Cardinality(Traversed(g)) < Cardinality(Traversed(f.dst))
  <2>1. f.dst \notin Traversed(g)
    BY <1>2 DEF WellFormed, GatewaysAcyclic
  <2>2. f.dst \in Traversed(f.dst) /\ g \in Traversed(f.dst)
    BY TraversedFacts
  <2>3. Traversed(g) \in SUBSET Traversed(f.dst) /\ Traversed(g) # Traversed(f.dst)
    BY <2>1, <2>2, TraversedFacts
  <2>4. /\ Cardinality(Traversed(g)) <= Cardinality(Traversed(f.dst))
        /\ Cardinality(Traversed(g)) # Cardinality(Traversed(f.dst))
    BY <1>1, <1>2, <2>3, FS_Subset
  <2> QED
    BY <1>1, <1>2, <2>4
<1> QED
  BY <1>1, <1>2, FiniteGateways
-----------------------------------------------------------------------------
(* Along the gateways.                                                     *)

\* What holds of a gateway when it holds of the gateways directly in front of
\* it holds of all of them.
LEMMA InductionBehind ==
    ASSUME WellFormed, NEW S,
           \A g \in Gateway : (\A f \in Incoming(g) : f.src \in Gateway => f.src \in S)
                                 => g \in S
    PROVE  Gateway \subseteq S
<1> SUFFICES ASSUME NEW bad \in Gateway, bad \notin S PROVE FALSE
  OBVIOUS
<1> DEFINE Rank(g) == Cardinality(Traversed(g))
           B == {k \in Nat : \E g \in Gateway : g \notin S /\ Rank(g) = k}
<1>1. B \in SUBSET Nat /\ B # {}
  BY TraversedGrows
<1>2. PICK k \in B : \A j \in B : k =< j
  <2> HIDE DEF B
  <2> QED
    BY <1>1, Least
<1>3. PICK g \in Gateway : g \notin S /\ Rank(g) = k
  BY <1>2
<1>4. PICK f \in Incoming(g) : f.src \in Gateway /\ f.src \notin S
  BY <1>3
<1>5. f \in Outgoing(f.src) /\ f.dst = g
  BY <1>4 DEF Incoming, Outgoing
<1>6. Rank(f.src) \in Nat /\ Rank(f.src) < k
  BY <1>3, <1>4, <1>5, TraversedGrows
<1>7. Rank(f.src) \in B
  BY <1>4, <1>6
<1> QED
  BY <1>1, <1>2, <1>6, <1>7

\* The same with the gateways directly behind it.
LEMMA InductionAhead ==
    ASSUME WellFormed, NEW S,
           \A g \in Gateway : (\A f \in Outgoing(g) : f.dst \in Gateway => f.dst \in S)
                                 => g \in S
    PROVE  Gateway \subseteq S
<1> SUFFICES ASSUME NEW bad \in Gateway, bad \notin S PROVE FALSE
  OBVIOUS
<1> DEFINE K == Cardinality(Gateway)
           Rank(g) == K - Cardinality(Traversed(g))
           B == {k \in Nat : \E g \in Gateway : g \notin S /\ Rank(g) = k}
<1>0. K \in Nat /\ \A g \in Gateway : Rank(g) \in Nat
  BY TraversedGrows, FiniteGateways
<1>1. B \in SUBSET Nat /\ B # {}
  BY <1>0
<1>2. PICK k \in B : \A j \in B : k =< j
  <2> HIDE DEF B
  <2> QED
    BY <1>1, Least
<1>3. PICK g \in Gateway : g \notin S /\ Rank(g) = k
  BY <1>2
<1>4. PICK f \in Outgoing(g) : f.dst \in Gateway /\ f.dst \notin S
  BY <1>3
<1>5. Rank(f.dst) \in Nat /\ Rank(f.dst) < k
  BY <1>0, <1>3, <1>4, TraversedGrows
<1>6. Rank(f.dst) \in B
  BY <1>4, <1>5
<1> QED
  BY <1>1, <1>2, <1>5, <1>6

\* The recursions of the circuit over the gateways against the flow
\* (LooksBehind) and along it (LooksAhead) have a solution.
LooksBehind(Body) ==
    /\ Body \in [[Gateway -> BOOLEAN] -> [Gateway -> BOOLEAN]]
    /\ \A f1, f2 \in [Gateway -> BOOLEAN], g \in Gateway :
          (\A f \in Incoming(g) : f.src \in Gateway => f1[f.src] = f2[f.src])
             => Body[f1][g] = Body[f2][g]

LooksAhead(Body) ==
    /\ Body \in [[Gateway -> BOOLEAN] -> [Gateway -> BOOLEAN]]
    /\ \A f1, f2 \in [Gateway -> BOOLEAN], g \in Gateway :
          (\A f \in Outgoing(g) : f.dst \in Gateway => f1[f.dst] = f2[f.dst])
             => Body[f1][g] = Body[f2][g]

LEMMA RecursionBehind ==
    ASSUME WellFormed, NEW Body, LooksBehind(Body)
    PROVE  \E f \in [Gateway -> BOOLEAN] : f = Body[f]
<1> DEFINE N == Cardinality(Gateway)
           Rank == [g \in Gateway |-> Cardinality(Traversed(g))]
<1>1. N \in Nat /\ Rank \in [Gateway -> 0..N]
  BY FiniteGateways, TraversedGrows
<1>2. ASSUME NEW f1 \in [Gateway -> BOOLEAN], NEW f2 \in [Gateway -> BOOLEAN],
             NEW g \in Gateway,
             \A h \in Gateway : Rank[h] < Rank[g] => f1[h] = f2[h]
      PROVE  Body[f1][g] = Body[f2][g]
  <2>1. ASSUME NEW f \in Incoming(g), f.src \in Gateway PROVE f1[f.src] = f2[f.src]
    <3>1. f \in Outgoing(f.src) /\ f.dst = g
      BY <2>1 DEF Incoming, Outgoing
    <3>2. Rank[f.src] < Rank[g]
      BY <2>1, <3>1, TraversedGrows
    <3> QED
      BY <1>2, <2>1, <3>2
  <2> QED
    BY <2>1 DEF LooksBehind
<1>3. BOOLEAN # {} /\ LooksDown(Gateway, BOOLEAN, N, Rank, Body)
  <2> HIDE DEF Rank, N
  <2> QED
    BY <1>1, <1>2 DEF LooksDown, LooksBehind
<1> QED
  BY <1>1, <1>3, Recursion

LEMMA RecursionAhead ==
    ASSUME WellFormed, NEW Body, LooksAhead(Body)
    PROVE  \E f \in [Gateway -> BOOLEAN] : f = Body[f]
<1> DEFINE N == Cardinality(Gateway)
           Rank == [g \in Gateway |-> N - Cardinality(Traversed(g))]
<1>1. N \in Nat /\ Rank \in [Gateway -> 0..N]
  BY FiniteGateways, TraversedGrows
<1>2. ASSUME NEW f1 \in [Gateway -> BOOLEAN], NEW f2 \in [Gateway -> BOOLEAN],
             NEW g \in Gateway,
             \A h \in Gateway : Rank[h] < Rank[g] => f1[h] = f2[h]
      PROVE  Body[f1][g] = Body[f2][g]
  <2>1. ASSUME NEW f \in Outgoing(g), f.dst \in Gateway PROVE f1[f.dst] = f2[f.dst]
    <3>1. Rank[f.dst] < Rank[g]
      BY <1>1, <2>1, TraversedGrows
    <3> QED
      BY <1>2, <2>1, <3>1
  <2> QED
    BY <2>1 DEF LooksAhead
<1>3. BOOLEAN # {} /\ LooksDown(Gateway, BOOLEAN, N, Rank, Body)
  <2> HIDE DEF Rank, N
  <2> QED
    BY <1>1, <1>2 DEF LooksDown, LooksAhead
<1> QED
  BY <1>1, <1>3, Recursion
-----------------------------------------------------------------------------
(* The previous nodes of a gateway and of an executable.                   *)

LEMMA KindsOfNodes ==
    /\ \A t \in Executable : t \notin Gateway /\ Graph.type[t] # "EndEvent"
                             /\ Graph.type[t] # "StartEvent"
    /\ \A g \in Gateway : Graph.type[g] # "EndEvent" /\ Graph.type[g] # "StartEvent"
BY DEF Executable, Gateway, IsClusive

LEMMA PreviousOfGateway ==
    ASSUME WellFormed, NEW g \in Gateway
    PROVE  /\ \A f \in Incoming(g) : f.src \notin Gateway => f.src \in GetPreviousNodes(g)
           /\ \A f \in Incoming(g) : f.src \in Gateway =>
                 /\ Traversed(f.src) \subseteq Traversed(g)
                 /\ GetPreviousNodes(f.src) \subseteq GetPreviousNodes(g)
           /\ \A p \in GetPreviousNodes(g) :
                 \/ \E f \in Incoming(g) : f.src = p /\ f.src \notin Gateway
                 \/ \E f \in Incoming(g) : f.src \in Gateway /\ p \in GetPreviousNodes(f.src)
           /\ GetPreviousNodes(g) \subseteq Executable
<1>1. ASSUME NEW f \in Incoming(g)
      PROVE  /\ f \in Outgoing(f.src) /\ f.dst = g /\ f.src \in Executable \cup Gateway
             /\ g \in Traversed(g)
  BY TraversedFacts DEF Incoming, Outgoing, WellFormed
<1>2. ASSUME NEW f \in Incoming(g), f.src \notin Gateway
      PROVE  f.src \in GetPreviousNodes(g)
  BY <1>1, <1>2 DEF GetPreviousNodes
<1>3. ASSUME NEW f \in Incoming(g), f.src \in Gateway
      PROVE  /\ Traversed(f.src) \subseteq Traversed(g)
             /\ GetPreviousNodes(f.src) \subseteq GetPreviousNodes(g)
  <2>1. f.src \in Traversed(g)
    BY <1>1, <1>3, TraversedFacts
  <2>2. Traversed(f.src) \subseteq Traversed(g)
    BY <2>1, TraversedFacts
  <2> QED
    BY <2>2 DEF GetPreviousNodes
<1>4. ASSUME NEW p \in GetPreviousNodes(g)
      PROVE  /\ \/ \E f \in Incoming(g) : f.src = p /\ f.src \notin Gateway
                \/ \E f \in Incoming(g) : f.src \in Gateway /\ p \in GetPreviousNodes(f.src)
             /\ p \in Executable
  <2>1. PICK e \in Outgoing(p) : e.dst \in Traversed(g)
    BY DEF GetPreviousNodes
  <2>2. e.dst \in Gateway /\ e \in Incoming(e.dst) /\ e.src = p
    BY <2>1, TraversedFacts DEF Incoming, Outgoing
  <2>3. p \in Executable \cup {s \in Node : Graph.type[s] = "StartEvent"}
    BY DEF GetPreviousNodes, StartNodes
  <2>4. p \in Executable /\ p \notin Gateway
    BY <2>2, <2>3, KindsOfNodes DEF WellFormed
  <2>5. CASE e.dst = g
    BY <2>2, <2>4, <2>5
  <2>6. CASE e.dst # g
    <3>1. PICK h \in Gateway : (\E f \in Outgoing(h) : f.dst = g) /\ e.dst \in Traversed(h)
      BY <2>1, <2>6, TraversedBy
    <3>2. p \in GetPreviousNodes(h)
      BY <2>1, <2>3, <3>1 DEF GetPreviousNodes
    <3>3. PICK f \in Outgoing(h) : f.dst = g
      BY <3>1
    <3>4. f \in Incoming(g) /\ f.src = h
      BY <3>3 DEF Incoming, Outgoing
    <3> QED
      BY <2>4, <3>2, <3>4
  <2> QED
    BY <2>5, <2>6
<1> QED
  BY <1>2, <1>3, <1>4

\* An executable has one flow in and one out, which end at no other nodes.
LEMMA FlowsOfExecutable ==
    ASSUME WellFormed, NEW t \in Executable
    PROVE  /\ Incoming(t) # {} /\ \A f \in Incoming(t) : f.src = IncomingNode(t)
           /\ Outgoing(t) # {} /\ \A f \in Outgoing(t) : f.dst = OutNode(t)
<1>1. PICK f \in Flow : Incoming(t) = {f}
  BY DEF WellFormed
<1>2. PICK e \in Flow : Outgoing(t) = {e}
  BY DEF WellFormed
<1>3. IncomingNode(t) = f.src
  BY <1>1 DEF IncomingNode
<1>4. OutNode(t) = e.dst
  BY <1>2 DEF OutNode
<1> QED
  BY <1>1, <1>2, <1>3, <1>4

LEMMA PreviousOfExecutable ==
    ASSUME WellFormed, NEW t \in Executable
    PROVE  /\ IncomingNode(t) \in Executable =>
                 Traversed(t) = {t} /\ GetPreviousNodes(t) = {IncomingNode(t)}
           /\ IncomingNode(t) \in Gateway =>
                 /\ Traversed(t) = {t} \cup Traversed(IncomingNode(t))
                 /\ t \notin Traversed(IncomingNode(t))
                 /\ GetPreviousNodes(t) = GetPreviousNodes(IncomingNode(t))
<1> DEFINE in == IncomingNode(t)
<1>0. t \notin Gateway /\ t \in Traversed(t) /\ Traversed(t) \subseteq {t} \cup Gateway
  BY TraversedFacts, KindsOfNodes
<1>1. ASSUME NEW g, NEW f \in Outgoing(g), f.dst = t PROVE g = in
  <2>1. f \in Incoming(t) /\ f.src = g
    BY <1>1 DEF Incoming, Outgoing
  <2> QED
    BY <2>1, FlowsOfExecutable
<1>2. PICK e \in Outgoing(in) : e.dst = t
  BY FlowsOfExecutable DEF Incoming, Outgoing
<1>3. ASSUME in \in Executable
      PROVE  Traversed(t) = {t} /\ GetPreviousNodes(t) = {in}
  <2>1. Traversed(t) = {t}
    <3>1. ASSUME NEW x \in Traversed(t), x # t PROVE FALSE
      BY <1>1, <1>3, <3>1, TraversedBy, KindsOfNodes
    <3> QED
      BY <1>0, <3>1
  <2> QED
    BY <1>1, <1>2, <1>3, <2>1 DEF GetPreviousNodes
<1>4. ASSUME in \in Gateway
      PROVE  /\ Traversed(t) = {t} \cup Traversed(in)
             /\ t \notin Traversed(in)
             /\ GetPreviousNodes(t) = GetPreviousNodes(in)
  <2>1. in \in Traversed(t) /\ Traversed(in) \subseteq Traversed(t)
    BY <1>0, <1>2, <1>4, TraversedFacts
  <2>2. t \notin Traversed(in)
    BY <1>0, <1>4, TraversedFacts
  <2>3. ASSUME NEW x \in Traversed(t), x # t PROVE x \in Traversed(in)
    BY <1>1, <2>3, TraversedBy
  <2>4. Traversed(t) = {t} \cup Traversed(in)
    BY <1>0, <2>1, <2>3
  <2>5. ASSUME NEW p \in GetPreviousNodes(t) PROVE p \in GetPreviousNodes(in)
    <3>1. PICK f \in Outgoing(p) : f.dst \in Traversed(t)
      BY DEF GetPreviousNodes
    <3>2. p \notin Gateway
      BY KindsOfNodes DEF GetPreviousNodes, StartNodes
    <3>3. f.dst # t
      BY <1>1, <1>4, <3>2
    <3> QED
      BY <2>4, <3>1, <3>3 DEF GetPreviousNodes
  <2>6. GetPreviousNodes(in) \subseteq GetPreviousNodes(t)
    BY <2>1 DEF GetPreviousNodes
  <2> QED
    BY <2>2, <2>4, <2>5, <2>6
<1> QED
  BY <1>3, <1>4
=============================================================================
