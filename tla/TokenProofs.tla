----------------------------- MODULE TokenProofs -----------------------------
(***************************************************************************)
(* Theorems about the tokens of a Workflow: none is forged and none lost,  *)
(* whatever gateways the graph has between its tasks, as long as provers   *)
(* write four bits for each task.                                          *)
(***************************************************************************)
EXTENDS WorkflowProofs, GraphProofs, SequenceTheorems

\* What an incoming flow brings to a gateway.
Done(w, f) == IF f.src \in Gateway THEN PreviousCompleted(w, f.src)
              ELSE w.new.states[f.src] = COMPLETED

LEMMA PreviousCompletedUnfolds ==
    ASSUME NEW w, NEW gateway \in Gateway
    PROVE  PreviousCompleted(w, gateway) <=>
              IF IsClusive(gateway) THEN \E f \in Incoming(gateway) : Done(w, f)
                                    ELSE \A f \in Incoming(gateway) : Done(w, f)
<1> DEFINE D(c, f) == IF f.src \in Gateway THEN c[f.src]
                      ELSE w.new.states[f.src] = COMPLETED
           Value(c, g) == IF IsClusive(g) THEN \E f \in Incoming(g) : D(c, f)
                                          ELSE \A f \in Incoming(g) : D(c, f)
           Body == [c \in [Gateway -> BOOLEAN] |-> [g \in Gateway |-> Value(c, g)]]
           Eq(c) == c = [g \in Gateway |-> Value(c, g)]
           completed == CHOOSE c : Eq(c)
<1>1. LooksBehind(Body)
  <2>1. ASSUME NEW c1 \in [Gateway -> BOOLEAN], NEW c2 \in [Gateway -> BOOLEAN],
               NEW g \in Gateway,
               \A f \in Incoming(g) : f.src \in Gateway => c1[f.src] = c2[f.src]
        PROVE  Value(c1, g) = Value(c2, g)
    <3>1. \A f \in Incoming(g) : D(c1, f) = D(c2, f)
      BY <2>1
    <3> HIDE DEF D
    <3> QED
      BY <3>1
  <2>2. \A c, g : Value(c, g) \in BOOLEAN
    <3> HIDE DEF D
    <3> QED
      OBVIOUS
  <2> HIDE DEF Value
  <2> QED
    BY <2>1, <2>2 DEF LooksBehind
<1>2. \E c \in [Gateway -> BOOLEAN] : c = Body[c]
  <2> HIDE DEF Body
  <2> QED
    BY <1>1, GraphAssumption, RecursionBehind
<1>3. Eq(completed)
  <2>1. \E c : Eq(c)
    <3> HIDE DEF Value
    <3> QED
      BY <1>2
  <2> HIDE DEF Eq
  <2> QED
    BY <2>1
<1>4. \A g : PreviousCompleted(w, g) = completed[g]
  BY DEF PreviousCompleted
<1>5. \A f : D(completed, f) = Done(w, f)
  BY <1>4 DEF Done
<1>6. completed[gateway] = Value(completed, gateway)
  <2> HIDE DEF Value, completed
  <2> QED
    BY <1>3
<1> HIDE DEF D, completed
<1> QED
  BY <1>4, <1>5, <1>6

\* Where an outgoing flow of a gateway leads, in the step of w.
Reached(w, f) == IF f.dst \in Gateway THEN GatewayActivated(w, f.dst)
                 ELSE GotReady(w, f.dst)

LEMMA GatewayActivatedUnfolds ==
    ASSUME NEW w, NEW gateway \in Gateway
    PROVE  GatewayActivated(w, gateway) <=>
              LET taken == {f \in Outgoing(gateway) : ExpressionTrue(w, f) /\ Reached(w, f)}
              IN CASE Graph.type[gateway] = "ExclusiveGateway" -> IsSingleton(taken)
                   [] Graph.type[gateway] = "InclusiveGateway" -> taken # {}
                   [] OTHER -> \A f \in Outgoing(gateway) :
                                  Graph.type[f.dst] = "EndEvent" \/ Reached(w, f)
<1> DEFINE R(c, f) == IF f.dst \in Gateway THEN c[f.dst] ELSE GotReady(w, f.dst)
           Taken(c, g) == {f \in Outgoing(g) : ExpressionTrue(w, f) /\ R(c, f)}
           Value(c, g) == CASE Graph.type[g] = "ExclusiveGateway" -> IsSingleton(Taken(c, g))
                            [] Graph.type[g] = "InclusiveGateway" -> Taken(c, g) # {}
                            [] OTHER -> \A f \in Outgoing(g) :
                                           Graph.type[f.dst] = "EndEvent" \/ R(c, f)
           Body == [c \in [Gateway -> BOOLEAN] |-> [g \in Gateway |-> Value(c, g)]]
           Eq(c) == c = [g \in Gateway |-> Value(c, g)]
           activated == CHOOSE c : Eq(c)
<1>1. LooksAhead(Body)
  <2>1. ASSUME NEW c1 \in [Gateway -> BOOLEAN], NEW c2 \in [Gateway -> BOOLEAN],
               NEW g \in Gateway,
               \A f \in Outgoing(g) : f.dst \in Gateway => c1[f.dst] = c2[f.dst]
        PROVE  Value(c1, g) = Value(c2, g)
    <3>1. \A f \in Outgoing(g) : R(c1, f) = R(c2, f)
      BY <2>1
    <3> HIDE DEF R
    <3>2. Taken(c1, g) = Taken(c2, g)
      BY <3>1
    <3> HIDE DEF Taken
    <3> QED
      BY <3>1, <3>2
  <2>2. \A c, g : Value(c, g) \in BOOLEAN
    <3> HIDE DEF R, Taken
    <3> QED
      BY DEF IsSingleton
  <2> HIDE DEF Value
  <2> QED
    BY <2>1, <2>2 DEF LooksAhead
<1>2. \E c \in [Gateway -> BOOLEAN] : c = Body[c]
  <2> HIDE DEF Body
  <2> QED
    BY <1>1, GraphAssumption, RecursionAhead
<1>3. Eq(activated)
  <2>1. \E c : Eq(c)
    <3> HIDE DEF Value
    <3> QED
      BY <1>2
  <2> HIDE DEF Eq
  <2> QED
    BY <2>1
<1>4. \A g : GatewayActivated(w, g) = activated[g]
  BY DEF GatewayActivated
<1>5. \A f : R(activated, f) = Reached(w, f)
  BY <1>4 DEF Reached
<1>6. activated[gateway] = Value(activated, gateway)
  <2> HIDE DEF Value, activated
  <2> QED
    BY <1>3
<1> HIDE DEF R, activated
<1> QED
  BY <1>4, <1>5, <1>6

\* Where an outgoing flow of a gateway has led.
Arrived(f) == IF f.dst \in Gateway THEN PassedOn(f.dst)
              ELSE Graph.type[f.dst] = "EndEvent" \/ st(f.dst) # INACTIVE

PassedOnEquation ==
    \A gateway \in Gateway :
       PassedOn(gateway) <=>
          IF IsClusive(gateway) THEN \E f \in Outgoing(gateway) : Arrived(f)
                                ELSE \A f \in Outgoing(gateway) : Arrived(f)

LEMMA PassedOnUnfolds == PassedOnEquation
<1> SUFFICES ASSUME NEW gateway \in Gateway
             PROVE  PassedOn(gateway) <=>
                       IF IsClusive(gateway)
                       THEN \E f \in Outgoing(gateway) : Arrived(f)
                       ELSE \A f \in Outgoing(gateway) : Arrived(f)
  BY DEF PassedOnEquation
<1> DEFINE A(c, f) == IF f.dst \in Gateway THEN c[f.dst]
                      ELSE Graph.type[f.dst] = "EndEvent" \/ st(f.dst) # INACTIVE
           Value(c, g) == IF IsClusive(g) THEN \E f \in Outgoing(g) : A(c, f)
                                          ELSE \A f \in Outgoing(g) : A(c, f)
           Body == [c \in [Gateway -> BOOLEAN] |-> [g \in Gateway |-> Value(c, g)]]
           Eq(c) == c = [g \in Gateway |-> Value(c, g)]
           passed == CHOOSE c : Eq(c)
<1>1. LooksAhead(Body)
  <2>1. ASSUME NEW c1 \in [Gateway -> BOOLEAN], NEW c2 \in [Gateway -> BOOLEAN],
               NEW g \in Gateway,
               \A f \in Outgoing(g) : f.dst \in Gateway => c1[f.dst] = c2[f.dst]
        PROVE  Value(c1, g) = Value(c2, g)
    <3>1. \A f \in Outgoing(g) : A(c1, f) = A(c2, f)
      BY <2>1
    <3> HIDE DEF A
    <3> QED
      BY <3>1
  <2>2. \A c, g : Value(c, g) \in BOOLEAN
    <3> HIDE DEF A
    <3> QED
      OBVIOUS
  <2> HIDE DEF Value
  <2> QED
    BY <2>1, <2>2 DEF LooksAhead
<1>2. \E c \in [Gateway -> BOOLEAN] : c = Body[c]
  <2> HIDE DEF Body
  <2> QED
    BY <1>1, GraphAssumption, RecursionAhead
<1>3. Eq(passed)
  <2>1. \E c : Eq(c)
    <3> HIDE DEF Value
    <3> QED
      BY <1>2
  <2> HIDE DEF Eq
  <2> QED
    BY <2>1
<1>4. \A g : PassedOn(g) = passed[g]
  BY DEF PassedOn
<1>5. ASSUME NEW f PROVE A(passed, f) = Arrived(f)
  <2>1. CASE f.dst \in Gateway
    <3>1. A(passed, f) = passed[f.dst] /\ Arrived(f) = PassedOn(f.dst)
      BY <2>1 DEF Arrived
    <3> QED
      BY <1>4, <3>1
  <2>2. CASE f.dst \notin Gateway
    BY <2>2 DEF Arrived
  <2> QED
    BY <2>1, <2>2
<1>6. passed[gateway] = Value(passed, gateway)
  <2> HIDE DEF Value, passed
  <2> QED
    BY <1>3
<1> HIDE DEF A, passed
<1> QED
  BY <1>4, <1>5, <1>6

LEMMA PassedOnUnfoldsPrimed == PassedOnEquation'
BY PassedOnUnfolds, PTL
-----------------------------------------------------------------------------
(* No token is forged.                                                     *)

\* What the circuit's recursion against the flow establishes: one previous node
\* is completed, and all of them are where only parallel joins are in between.
LEMMA PreviousCompletedMeans ==
    ASSUME NEW w, NEW gateway \in Gateway, PreviousCompleted(w, gateway)
    PROVE  /\ \E p \in GetPreviousNodes(gateway) : w.new.states[p] = COMPLETED
           /\ (\A h \in Traversed(gateway) : ~IsClusive(h)) =>
                 \A p \in GetPreviousNodes(gateway) : w.new.states[p] = COMPLETED
<1> DEFINE One(g) == \E p \in GetPreviousNodes(g) : w.new.states[p] = COMPLETED
           All(g) == \A p \in GetPreviousNodes(g) : w.new.states[p] = COMPLETED
           Plain(g) == \A h \in Traversed(g) : ~IsClusive(h)
           S == {g \in Gateway : PreviousCompleted(w, g) => One(g) /\ (Plain(g) => All(g))}
<1>1. ASSUME NEW g \in Gateway,
             \A f \in Incoming(g) : f.src \in Gateway => f.src \in S,
             PreviousCompleted(w, g)
      PROVE  One(g) /\ (Plain(g) => All(g))
  <2>1. ASSUME NEW f \in Incoming(g), Done(w, f) PROVE One(g)
    <3>1. CASE f.src \in Gateway
      <4>1. One(f.src)
        BY <1>1, <2>1, <3>1 DEF Done
      <4> QED
        BY <3>1, <4>1, GraphAssumption, PreviousOfGateway
    <3>2. CASE f.src \notin Gateway
      BY <2>1, <3>2, GraphAssumption, PreviousOfGateway DEF Done
    <3> QED
      BY <3>1, <3>2
  <2>2. Incoming(g) # {}
    BY GraphAssumption DEF WellFormed
  <2>3. One(g)
    BY <1>1, <2>1, <2>2, PreviousCompletedUnfolds
  <2>4. ASSUME Plain(g), NEW p \in GetPreviousNodes(g)
        PROVE  w.new.states[p] = COMPLETED
    <3>1. \A f \in Incoming(g) : Done(w, f)
      <4>1. g \in Traversed(g)
        BY GraphAssumption, TraversedFacts
      <4> QED
        BY <1>1, <2>4, <4>1, PreviousCompletedUnfolds
    <3>2. CASE \E f \in Incoming(g) : f.src = p /\ f.src \notin Gateway
      BY <3>1, <3>2 DEF Done
    <3>3. CASE \E f \in Incoming(g) : f.src \in Gateway /\ p \in GetPreviousNodes(f.src)
      <4>1. PICK f \in Incoming(g) : f.src \in Gateway /\ p \in GetPreviousNodes(f.src)
        BY <3>3
      <4>2. PreviousCompleted(w, f.src) /\ Plain(f.src)
        BY <2>4, <3>1, <4>1, GraphAssumption, PreviousOfGateway DEF Done
      <4> QED
        BY <1>1, <4>1, <4>2
    <3> QED
      BY <3>2, <3>3, GraphAssumption, PreviousOfGateway
  <2> QED
    BY <2>3, <2>4
<1>2. Gateway \subseteq S
  <2>1. \A g \in Gateway : (\A f \in Incoming(g) : f.src \in Gateway => f.src \in S)
                              => g \in S
    BY <1>1
  <2> HIDE DEF S
  <2> QED
    BY <2>1, GraphAssumption, InductionBehind
<1> QED
  BY <1>2

\* A task that becomes READY in the right time has what caused it completed.
LEMMA RightTimeIsCaused ==
    ASSUME NEW w, NEW t \in Executable, Accepts(w), w.new = state',
           ReadyInTheRightTime(w, t)
    PROVE  Caused(t)'
<1> DEFINE in == IncomingNode(t)
<1>1. ~IsStartFed(t) /\ in \in Executable \cup Gateway
  BY GraphAssumption DEF ReadyInTheRightTime, WellFormed
<1>2. CASE in \in Executable
  <2>1. Traversed(t) = {t} /\ GetPreviousNodes(t) = {in}
    BY <1>2, GraphAssumption, PreviousOfExecutable
  <2>2. w.new.states[in] = COMPLETED
    BY <1>2, ReadyBehindExecutable
  <2> QED
    BY <2>1, <2>2 DEF Caused, st
<1>3. CASE in \in Gateway
  <2>1. Traversed(t) \ {t} = Traversed(in) /\ GetPreviousNodes(t) = GetPreviousNodes(in)
    BY <1>3, GraphAssumption, PreviousOfExecutable
  <2>2. PreviousCompleted(w, in)
    BY <1>3 DEF ReadyInTheRightTime
  <2> QED
    BY <1>3, <2>1, <2>2, PreviousCompletedMeans DEF Caused, st
<1> QED
  BY <1>1, <1>2, <1>3

\* A completed task stays so: nobody resets or compensates it.
StaysCompleted == \A t \in Executable : st(t) = COMPLETED => st(t)' = COMPLETED

\* While completed tasks stay completed and provers write four bits, no workflow
\* starts a task before its predecessors are completed, through gateways of any
\* kind and depth: all of them behind parallel joins, one behind a join that is
\* exclusive or inclusive.
THEOREM NoneForged ==
    ASSUME FourBits
    PROVE  Spec /\ [][StaysCompleted]_vars => []NoTokenForged
<1>1. ASSUME Init PROVE NoTokenForged
  BY <1>1 DEF Init, NoTokenForged, st
<1>2. ASSUME NoTokenForged, TypeOK, Step, StaysCompleted PROVE NoTokenForged'
  <2>1. PICK w \in Witnesses(state) : w.curr = state /\ w.new = state' /\ Accepts(w)
    BY <1>2, StepWitness
  <2>2. SUFFICES ASSUME NEW t \in Executable, st(t)' # INACTIVE, ~IsStartFed(t)
                 PROVE  Caused(t)'
    BY DEF NoTokenForged
  <2>3. CASE st(t) = INACTIVE
    <3>1. ReadyInTheRightTime(w, t)
      BY <2>1, <2>2, <2>3, ComesUnderWay DEF st
    <3> QED
      BY <2>1, <3>1, RightTimeIsCaused
  <2>4. CASE st(t) # INACTIVE
    <3>1. Caused(t)
      BY <1>2, <2>2, <2>4 DEF NoTokenForged
    <3>2. \A p \in GetPreviousNodes(t) : st(p) = COMPLETED => st(p)' = COMPLETED
      <4>1. GetPreviousNodes(t) \subseteq Executable
        <5>1. IncomingNode(t) \in Executable \cup Gateway
          BY <2>2, GraphAssumption DEF WellFormed
        <5> QED
          BY <5>1, GraphAssumption, PreviousOfExecutable, PreviousOfGateway
      <4> QED
        BY <1>2, <4>1 DEF StaysCompleted
    <3> QED
      BY <3>1, <3>2 DEF Caused
  <2> QED
    BY <2>3, <2>4
<1>3. ASSUME NoTokenForged, UNCHANGED vars PROVE NoTokenForged'
  BY <1>3 DEF NoTokenForged, Caused, st, vars
<1>4. NoTokenForged /\ TypeOK /\ [Next]_vars /\ [StaysCompleted]_vars => NoTokenForged'
  BY <1>2, <1>3 DEF Next
<1> QED
  BY <1>1, <1>4, TypeCorrect, PTL DEF Spec
-----------------------------------------------------------------------------
(* No token is lost.                                                       *)

\* A gateway that the step activates has passed its token on when it is over.
LEMMA ActivatedPassesOn ==
    ASSUME NEW w, w.new = state', NEW gateway \in Gateway, GatewayActivated(w, gateway)
    PROVE  PassedOn(gateway)'
<1> DEFINE S == {g \in Gateway : GatewayActivated(w, g) => PassedOn(g)'}
<1>1. ASSUME NEW g \in Gateway,
             \A f \in Outgoing(g) : f.dst \in Gateway => f.dst \in S,
             GatewayActivated(w, g)
      PROVE  PassedOn(g)'
  <2>1. ASSUME NEW f \in Outgoing(g), Reached(w, f) PROVE Arrived(f)'
    <3>1. CASE f.dst \in Gateway
      BY <1>1, <2>1, <3>1 DEF Reached, Arrived
    <3>2. CASE f.dst \notin Gateway
      BY <2>1, <3>2 DEF Reached, Arrived, GotReady, st, READY, INACTIVE
    <3> QED
      BY <3>1, <3>2
  <2>2. ASSUME NEW f \in Outgoing(g), Graph.type[f.dst] = "EndEvent" PROVE Arrived(f)'
    BY <2>2, KindsOfNodes DEF Arrived
  <2>3. PassedOn(g)' <=> IF IsClusive(g) THEN \E f \in Outgoing(g) : Arrived(f)'
                                         ELSE \A f \in Outgoing(g) : Arrived(f)'
    BY PassedOnUnfoldsPrimed DEF PassedOnEquation
  <2> DEFINE taken == {f \in Outgoing(g) : ExpressionTrue(w, f) /\ Reached(w, f)}
  <2>4. CASE IsClusive(g)
    <3>1. taken # {}
      BY <1>1, <2>4, GatewayActivatedUnfolds DEF IsClusive, IsSingleton
    <3> QED
      BY <2>1, <2>3, <2>4, <3>1
  <2>5. CASE ~IsClusive(g)
    <3>1. \A f \in Outgoing(g) : Graph.type[f.dst] = "EndEvent" \/ Reached(w, f)
      BY <1>1, <2>5, GatewayActivatedUnfolds DEF IsClusive
    <3> QED
      BY <2>1, <2>2, <2>3, <2>5, <3>1
  <2> QED
    BY <2>4, <2>5
<1>2. Gateway \subseteq S
  <2>1. \A g \in Gateway : (\A f \in Outgoing(g) : f.dst \in Gateway => f.dst \in S)
                              => g \in S
    BY <1>1
  <2> HIDE DEF S
  <2> QED
    BY <2>1, GraphAssumption, InductionAhead
<1> QED
  BY <1>2

\* A task that has started stays so: nobody resets it.
StaysStarted == \A t \in Executable : st(t) # INACTIVE => st(t)' # INACTIVE

\* Where a token has been passed on it has not come back.
LEMMA PassedOnStays ==
    ASSUME StaysStarted, NEW gateway \in Gateway, PassedOn(gateway)
    PROVE  PassedOn(gateway)'
<1> DEFINE S == {g \in Gateway : PassedOn(g) => PassedOn(g)'}
<1>1. ASSUME NEW g \in Gateway,
             \A f \in Outgoing(g) : f.dst \in Gateway => f.dst \in S,
             PassedOn(g)
      PROVE  PassedOn(g)'
  <2>1. ASSUME NEW f \in Outgoing(g), Arrived(f) PROVE Arrived(f)'
    <3>1. CASE f.dst \in Gateway
      BY <1>1, <2>1, <3>1 DEF Arrived
    <3>2. CASE f.dst \notin Gateway
      <4>1. f.dst \in Executable \/ Graph.type[f.dst] = "EndEvent"
        BY <3>2, GraphAssumption DEF WellFormed
      <4> QED
        BY <2>1, <3>2, <4>1 DEF Arrived, StaysStarted
    <3> QED
      BY <3>1, <3>2
  <2>2. PassedOn(g) <=> IF IsClusive(g) THEN \E f \in Outgoing(g) : Arrived(f)
                                        ELSE \A f \in Outgoing(g) : Arrived(f)
    BY PassedOnUnfolds DEF PassedOnEquation
  <2>3. PassedOn(g)' <=> IF IsClusive(g) THEN \E f \in Outgoing(g) : Arrived(f)'
                                         ELSE \A f \in Outgoing(g) : Arrived(f)'
    BY PassedOnUnfoldsPrimed DEF PassedOnEquation
  <2> QED
    BY <1>1, <2>1, <2>2, <2>3
<1>2. Gateway \subseteq S
  <2>1. \A g \in Gateway : (\A f \in Outgoing(g) : f.dst \in Gateway => f.dst \in S)
                              => g \in S
    BY <1>1
  <2> HIDE DEF S
  <2> QED
    BY <2>1, GraphAssumption, InductionAhead
<1> QED
  BY <1>2

\* Only merges stand between the tasks and a parallel join: an exclusive or
\* inclusive gateway there has one way out.
OnlyMergesBeforeJoins ==
    \A g \in Gateway : ~IsClusive(g) =>
        \A h \in Traversed(g) : IsClusive(h) => IsSingleton(Outgoing(h))

\* Then the join has passed its token on when a gateway in front of it has.
LEMMA PassedOnThrough ==
    ASSUME OnlyMergesBeforeJoins, NEW join \in Gateway, ~IsClusive(join),
           NEW gateway \in Traversed(join), PassedOn(gateway)'
    PROVE  PassedOn(join)'
<1> DEFINE C == {h \in Traversed(join) : PassedOn(h)' => PassedOn(join)'}
<1>1. ASSUME NEW h \in Gateway, NEW f \in Outgoing(h), f.dst \in C, PassedOn(h)'
      PROVE  h \in Traversed(join) /\ PassedOn(join)'
  <2>1. h \in Traversed(join) /\ f.dst \in Gateway
    BY <1>1, GraphAssumption, TraversedFacts
  <2>2. PassedOn(h)' <=> IF IsClusive(h) THEN \E e \in Outgoing(h) : Arrived(e)'
                                         ELSE \A e \in Outgoing(h) : Arrived(e)'
    BY PassedOnUnfoldsPrimed DEF PassedOnEquation
  <2>3. Arrived(f)'
    BY <1>1, <2>1, <2>2 DEF OnlyMergesBeforeJoins, IsSingleton
  <2> QED
    BY <1>1, <2>1, <2>3 DEF Arrived
<1>2. join \in C /\ Back(C) = C
  <2>1. join \in C
    BY GraphAssumption, TraversedFacts
  <2>2. \A h \in Gateway : \A f \in Outgoing(h) :
           f.dst \in C => h \in Traversed(join) /\ (PassedOn(h)' => PassedOn(join)')
    <3>1. ASSUME NEW h \in Gateway, NEW f \in Outgoing(h), f.dst \in C
          PROVE  h \in Traversed(join)
      BY <3>1, GraphAssumption, TraversedFacts
    <3> QED
      BY <1>1, <3>1
  <2> QED
    BY <2>1, <2>2 DEF Back
<1>3. Traversed(join) \subseteq C
  <2> HIDE DEF C
  <2> QED
    BY <1>2, GraphAssumption, TraversedIsLeast
<1> QED
  BY <1>3

\* What the circuit demands of a completion.
LEMMA CompletionForwards ==
    ASSUME NEW w, NEW t \in Executable, Accepts(w), Completed(w, t)
    PROVE  CompletedAndTokenForwarded(w, t)
<1>1. ~Same(w, t) /\ ~StateChanged(w, t) /\ ~ReadyInTheRightTime(w, t)
  BY DEF Completed, StateChanged, ReadyInTheRightTime, GotReady
<1>2. Stage2(w, t)
  BY DEF Accepts
<1> QED
  BY <1>1, <1>2, Zenon DEF Stage2, Xor

\* The gateway behind a completing task passes the token on, unless a task of
\* the pairs is still to complete.
LEMMA CompletionPassesOn ==
    ASSUME NEW w, NEW t \in Executable, Accepts(w), w.new = state', Completed(w, t),
           OutNode(t) \in Gateway
    PROVE  \/ PassedOn(OutNode(t))'
           \/ ~IsClusive(OutNode(t)) /\ \E p \in GetPairs(t) : st(p)' # COMPLETED
<1> DEFINE out == OutNode(t)
<1>1. CompletedAndTokenForwarded(w, t)
  BY CompletionForwards
<1>2. Graph.type[out] # "EndEvent" /\ out \notin Executable
  BY KindsOfNodes
<1>3. CASE GatewayActivated(w, out)
  BY <1>3, ActivatedPassesOn
<1>4. CASE ~GatewayActivated(w, out)
  <2>1. Graph.type[out] = "ParallelGateway" /\ ~PairsCompleted(w, t)
    BY <1>1, <1>2, <1>4 DEF CompletedAndTokenForwarded
  <2> QED
    BY <2>1 DEF PairsCompleted, IsClusive, st
<1> QED
  BY <1>3, <1>4

\* Unless somebody resets or compensates a task, or writes more than four bits
\* for one, no workflow drops a token: what follows a completed task has started,
\* directly or through gateways, or a parallel join behind the task waits for
\* another one.
THEOREM NoneLost ==
    ASSUME FourBits, OnlyMergesBeforeJoins
    PROVE  Spec /\ [][StaysCompleted /\ StaysStarted]_vars => []NoTokenLost
<1>1. ASSUME Init PROVE NoTokenLost
  BY <1>1 DEF Init, NoTokenLost, st, InFlight, INACTIVE, READY, ACTIVE, COMPLETING, COMPLETED
<1>2. ASSUME NoTokenLost, TypeOK, Step, StaysCompleted, StaysStarted PROVE NoTokenLost'
  <2>1. PICK w \in Witnesses(state) : w.curr = state /\ w.new = state' /\ Accepts(w)
    BY <1>2, StepWitness
  <2>2. SUFFICES ASSUME NEW t \in Executable, st(t)' = COMPLETED
                 PROVE  /\ OutNode(t) \in Executable => st(OutNode(t))' # INACTIVE
                        /\ OutNode(t) \in Gateway =>
                             \/ PassedOn(OutNode(t))'
                             \/ \E p \in GetPreviousNodes(OutNode(t)) :
                                   ~IsClusive(OutNode(t)) /\ st(p)' # COMPLETED
    BY DEF NoTokenLost
  <2> DEFINE out == OutNode(t)
  <2>3. CASE st(t) # COMPLETED
    <3>1. Completed(w, t)
      BY <2>1, <2>2, <2>3 DEF Completed, Same, st
    <3>2. ASSUME out \in Executable PROVE st(out)' # INACTIVE
      <4>1. GotReady(w, out)
        BY <2>1, <3>1, <3>2, CompletionForwards, KindsOfNodes
        DEF CompletedAndTokenForwarded, IsClusive, Executable
      <4> QED
        BY <2>1, <4>1 DEF GotReady, st, READY, INACTIVE
    <3>3. GetPairs(t) \subseteq GetPreviousNodes(out)
      BY DEF GetPairs
    <3> QED
      BY <2>1, <3>1, <3>2, <3>3, CompletionPassesOn
  <2>4. CASE st(t) = COMPLETED
    <3>1. ASSUME out \in Executable PROVE st(out)' # INACTIVE
      BY <1>2, <2>4, <3>1 DEF NoTokenLost, StaysStarted
    <3>2. ASSUME out \in Gateway,
                 ~IsClusive(out) => \A p \in GetPreviousNodes(out) : st(p)' = COMPLETED
          PROVE  PassedOn(out)'
      <4>1. CASE PassedOn(out)
        BY <1>2, <3>2, <4>1, PassedOnStays
      <4>2. CASE ~PassedOn(out)
        <5>1. PICK p \in GetPreviousNodes(out) : ~IsClusive(out) /\ st(p) # COMPLETED
          BY <1>2, <2>4, <3>2, <4>2 DEF NoTokenLost
        <5>2. p \in Executable /\ st(p)' = COMPLETED
          BY <3>2, <5>1, GraphAssumption, PreviousOfGateway
        <5>3. Completed(w, p)
          BY <2>1, <5>1, <5>2 DEF Completed, Same, st
        <5>4. OutNode(p) \in Traversed(out) /\ OutNode(p) \in Gateway
          <6>1. PICK f \in Outgoing(p) : f.dst \in Traversed(out)
            BY DEF GetPreviousNodes
          <6>2. f.dst = OutNode(p)
            BY <5>2, <6>1, GraphAssumption, FlowsOfExecutable
          <6> QED
            BY <3>2, <6>1, <6>2, GraphAssumption, TraversedFacts
        <5>5. \A q \in GetPairs(p) : st(q)' = COMPLETED
          <6>1. Traversed(OutNode(p)) \subseteq Traversed(out)
            BY <5>4, GraphAssumption, TraversedFacts
          <6>2. GetPairs(p) \subseteq GetPreviousNodes(out)
            BY <6>1 DEF GetPairs, GetPreviousNodes
          <6> QED
            BY <3>2, <5>1, <6>2
        <5>6. PassedOn(OutNode(p))'
          BY <2>1, <5>2, <5>3, <5>4, <5>5, CompletionPassesOn
        <5> QED
          BY <3>2, <5>1, <5>4, <5>6, PassedOnThrough
      <4> QED
        BY <4>1, <4>2
    <3> QED
      BY <3>1, <3>2
  <2> QED
    BY <2>3, <2>4
<1>3. ASSUME NoTokenLost, UNCHANGED vars PROVE NoTokenLost'
  BY <1>3 DEF NoTokenLost, PassedOn, st, vars
<1>4. NoTokenLost /\ TypeOK /\ [Next]_vars /\ [StaysCompleted /\ StaysStarted]_vars => NoTokenLost'
  BY <1>2, <1>3 DEF Next
<1> QED
  BY <1>1, <1>4, TypeCorrect, PTL DEF Spec

\* Proposers who try no move out of COMPLETED and none back to INACTIVE.
NoResets ==
    \A m \in Moves : /\ m[1] = COMPLETED => m[2] = COMPLETED
                     /\ m[1] # INACTIVE => m[2] # INACTIVE

\* In a first pass over the workflow, with or without failures, no token is
\* forged and none lost.
COROLLARY TokensOfFirstPass ==
    ASSUME FourBits, NoResets, OnlyMergesBeforeJoins
    PROVE  Spec => [](NoTokenForged /\ NoTokenLost)
<1>1. ASSUME TypeOK, Step PROVE StaysCompleted /\ StaysStarted
  <2>1. PICK w \in Witnesses(state) : w.curr = state /\ w.new = state'
    BY <1>1, StepWitness
  <2>2. w.new.states \in Proposals(state.states)
    BY <2>1 DEF Witnesses, TaskChanges
  <2>3. \A t \in Executable : st(t)' = st(t) \/ <<st(t), st(t)'>> \in Moves
    BY <2>1, <2>2, ProposedMoves DEF st
  <2> QED
    BY <2>3 DEF NoResets, StaysCompleted, StaysStarted
<1>2. Spec => [][StaysCompleted /\ StaysStarted]_vars
  <2>1. TypeOK /\ [Next]_vars => [StaysCompleted /\ StaysStarted]_vars
    BY <1>1 DEF Next
  <2> QED
    BY <2>1, TypeCorrect, PTL DEF Spec
<1>3. [StaysCompleted /\ StaysStarted]_vars => [StaysCompleted]_vars
  OBVIOUS
<1> QED
  BY <1>2, <1>3, NoneForged, NoneLost, PTL
-----------------------------------------------------------------------------
(* The token takes a branch whose condition holds.                         *)

\* Conditions that compare the first variable of the model with a number of the
\* field; the circuit reads every other variable from the first slot too.
FirstVariableConditions ==
    \A f \in Flow : f.name # << >> =>
        \E a, op, n :
           /\ f.name = <<[type |-> "VAR", value |-> a],
                         [type |-> "COMP", value |-> op],
                         [type |-> "NUM", value |-> n]>>
           /\ n \in Field
           /\ 1 \in Slot /\ \A i \in Slot : Graph.variables[i] = a <=> i = 1

LEMMA OneToken ==
    ASSUME NEW s, NEW i \in Int
    PROVE  SubSeq(s, i, i) = <<s[i]>>
<1> DEFINE S == {s[i]}
           sub == SubSeq(s, i, i)
<1>1. sub \in Seq(S)
  <2>1. s[i] \in S
    OBVIOUS
  <2> HIDE DEF S
  <2> QED
    BY <2>1, SubSeqProperties
<1>2. Len(sub) = 1 /\ sub[1] = s[i]
  OBVIOUS
<1>3. <<s[i]>> \in Seq(S) /\ Len(<<s[i]>>) = 1
  OBVIOUS
<1> HIDE DEF sub, S
<1>4. Len(sub) = Len(<<s[i]>>) /\ \A j \in 1..Len(sub) : sub[j] = <<s[i]>>[j]
  BY <1>2, <1>3
<1>5. sub = <<s[i]>>
  BY <1>1, <1>3, <1>4, SeqEqual
<1> QED
  BY <1>5 DEF sub

LEMMA EvaluatesAsRead ==
    ASSUME FirstVariableConditions, FieldPrime \in Nat \ {0}, NEW f \in Flow, NEW values,
           f.name # << >>
    PROVE  EvaluateExpression(f.name, values) <=> ConditionHolds(f, values)
<1>1. PICK a, op, n :
         /\ f.name = <<[type |-> "VAR", value |-> a],
                       [type |-> "COMP", value |-> op],
                       [type |-> "NUM", value |-> n]>>
         /\ n \in Field
         /\ 1 \in Slot /\ \A i \in Slot : Graph.variables[i] = a <=> i = 1
  BY DEF FirstVariableConditions
<1> DEFINE tokens == f.name
           comp == CHOOSE i \in 1..Len(tokens) :
                      /\ tokens[i].type = "COMP"
                      /\ \A j \in 1..(i - 1) : tokens[j].type # "COMP"
<1>2. /\ Len(tokens) = 3 /\ tokens[1].type = "VAR" /\ tokens[1].value = a
      /\ tokens[2].type = "COMP" /\ tokens[2].value = op
      /\ tokens[3].type = "NUM" /\ tokens[3].value = n
  BY <1>1
<1>3. comp = 2
  <2>1. 2 \in 1..Len(tokens) /\ \A j \in 1..(2 - 1) : tokens[j].type # "COMP"
    BY <1>2
  <2>2. \A i \in 1..Len(tokens) : tokens[i].type = "COMP" => i = 2
    BY <1>2
  <2> QED
    BY <1>2, <2>1, <2>2
<1>4. SubSeq(tokens, 1, 1) = <<tokens[1]>> /\ SubSeq(tokens, 3, 3) = <<tokens[3]>>
  BY OneToken
<1>5. VariableMapping[a] = 1
  BY <1>1 DEF VariableMapping
<1>6. CalculateValue(<<tokens[1]>>, values) = values[1]
  BY <1>2, <1>5 DEF CalculateValue, Operand
<1>7. CalculateValue(<<tokens[3]>>, values) = n
  <2>1. n % FieldPrime = n
    BY <1>1, SMT DEF Field
  <2> QED
    BY <1>2, <2>1 DEF CalculateValue, Operand
<1>8. EvaluateExpression(tokens, values) = Compare(op, values[1], n)
  <2>1. EvaluateExpression(tokens, values) =
           Compare(tokens[comp].value,
                   CalculateValue(SubSeq(tokens, 1, comp - 1), values),
                   CalculateValue(SubSeq(tokens, comp + 1, Len(tokens)), values))
    BY DEF EvaluateExpression
  <2> HIDE DEF comp, tokens
  <2>2. comp - 1 = 1 /\ comp + 1 = 3
    BY <1>3
  <2>3. EvaluateExpression(tokens, values) =
           Compare(op, CalculateValue(SubSeq(tokens, 1, 1), values),
                   CalculateValue(SubSeq(tokens, 3, 3), values))
    BY <1>2, <1>3, <2>1, <2>2
  <2> QED
    BY <1>4, <1>6, <1>7, <2>3
<1>9. (CHOOSE i \in Slot : Graph.variables[i] = tokens[1].value) = 1
  BY <1>1, <1>2
<1> QED
  BY <1>2, <1>8, <1>9 DEF ConditionHolds

\* Where conditions compare the first variable with a number, and provers write
\* four bits, a task in front of an exclusive gateway completes into one branch
\* whose condition holds of the new variables, and not into two of them.
THEOREM ChoosesTrueBranch ==
    ASSUME FourBits, FirstVariableConditions
    PROVE  Spec => OneTrueBranch
<1> DEFINE Begun(f) == /\ st(f.dst) # READY /\ st(f.dst)' = READY
                       /\ ConditionHolds(f, state.vars')
           Chooses ==
             \A t \in Executable :
                (/\ st(t) # COMPLETED /\ st(t)' = COMPLETED
                 /\ Graph.type[OutNode(t)] = "ExclusiveGateway"
                 /\ \A f \in Outgoing(OutNode(t)) : f.dst \in Executable) =>
                IsSingleton({f \in Outgoing(OutNode(t)) : Begun(f)})
<1>1. ASSUME TypeOK, Step PROVE Chooses
  <2>1. PICK w \in Witnesses(state) : w.curr = state /\ w.new = state' /\ Accepts(w)
    BY <1>1, StepWitness
  <2>2. SUFFICES ASSUME NEW t \in Executable,
                        st(t) # COMPLETED, st(t)' = COMPLETED,
                        Graph.type[OutNode(t)] = "ExclusiveGateway",
                        \A f \in Outgoing(OutNode(t)) : f.dst \in Executable
                 PROVE  IsSingleton({f \in Outgoing(OutNode(t)) : Begun(f)})
    OBVIOUS
  <2> DEFINE out == OutNode(t)
             taken == {f \in Outgoing(out) : ExpressionTrue(w, f) /\ Reached(w, f)}
  <2>3. Completed(w, t)
    BY <2>1, <2>2 DEF Completed, Same, st
  <2>4. out \in Gateway /\ out \notin Executable
    BY <2>2, GraphAssumption DEF WellFormed, Gateway, IsClusive, Executable
  <2>5. GatewayActivated(w, out)
    BY <2>1, <2>2, <2>3, <2>4, CompletionForwards DEF CompletedAndTokenForwarded
  <2>6. IsSingleton(taken)
    BY <2>2, <2>4, <2>5, GatewayActivatedUnfolds
  <2>7. ASSUME NEW f \in Outgoing(out)
        PROVE  ExpressionTrue(w, f) /\ Reached(w, f) <=> Begun(f)
    <3>1. f.dst \in Executable /\ f.dst \notin Gateway /\ f \in Flow
      BY <2>2, KindsOfNodes DEF Outgoing
    <3>2. Reached(w, f) <=> st(f.dst) # READY /\ st(f.dst)' = READY
      BY <2>1, <3>1 DEF Reached, GotReady, StateChanged, Completed, Same, st,
         READY, COMPLETED
    <3>3. ExpressionTrue(w, f) <=> ConditionHolds(f, w.new.vars)
      BY <3>1, NumbersAssumption, EvaluatesAsRead
      DEF ExpressionTrue, ConditionHolds, NumbersInField
    <3> QED
      BY <2>1, <3>2, <3>3
  <2>8. taken = {f \in Outgoing(out) : Begun(f)}
    <3> HIDE DEF Begun, out
    <3> QED
      BY <2>7
  <2> QED
    BY <2>6, <2>8
<1>2. TypeOK /\ [Next]_vars => [Chooses]_vars
  BY <1>1 DEF Next
<1> QED
  BY <1>2, TypeCorrect, PTL DEF Spec, OneTrueBranch
-----------------------------------------------------------------------------
(* No task is stuck where there are no gateways.                           *)

\* A model without gateways, all of it signed with one key, whose lanes are in
\* Upstream as a whole.
OneKeyLanes ==
    /\ Gateway = {}
    /\ ParticipantIndex \in Participant
    /\ \A t \in Executable :
          /\ OutNode(t) \in Executable => <<t, OutNode(t)>> \in Upstream
          /\ Graph.key[Graph.owner[t]] = Graph.key[ParticipantIndex]

\* Proposers who know how to go on: they try what a first pass takes, with
\* another salt and another message than the last, and pay nothing.
AbleProposers ==
    /\ {<<INACTIVE, READY>>, <<READY, ACTIVE>>, <<ACTIVE, COMPLETING>>,
        <<COMPLETING, COMPLETED>>} \subseteq Moves
    /\ MaxChanges \in Nat /\ MaxChanges >= 2
    /\ 0 \in Amounts
    /\ \A r \in Randomness : \E other \in Randomness : other # r
    /\ Message # {} => \A m \in MessageValues : \E other \in MessageValues : other # m

LEMMA OnwardMoves ==
    /\ Onward[READY] = ACTIVE /\ Onward[ACTIVE] = COMPLETING
    /\ Onward[COMPLETING] = COMPLETED
BY DEF Onward, InFlight, READY, ACTIVE, COMPLETING, COMPLETED

\* Two moves are a proposal.
LEMMA TwoMoves ==
    ASSUME NEW curr, NEW a \in Executable, NEW b \in Executable, NEW m, NEW n, NEW s,
           <<curr[a], m>> \in Moves, <<curr[b], n>> \in Moves, a = b => m = n,
           MaxChanges \in Nat, MaxChanges >= 2,
           s = [t \in Executable |-> IF t = a THEN m ELSE IF t = b THEN n ELSE curr[t]]
    PROVE  s \in Proposals(curr)
<1> DEFINE c == {a, b}
           f == [t \in c |-> IF t = a THEN m ELSE n]
           Choices(changed) ==
             {g \in [changed -> UNION {Targets(curr[t]) : t \in changed}] :
                \A t \in changed : <<curr[t], g[t]>> \in Moves}
           C == {d \in SUBSET {t \in Executable : Targets(curr[t]) # {}} :
                    Cardinality(d) <= MaxChanges}
<1>1. m \in Targets(curr[a]) /\ n \in Targets(curr[b])
  BY DEF Targets
<1>2. Cardinality(c) <= MaxChanges
  <2>0. IsFiniteSet({a}) /\ Cardinality({a}) = 1
    BY FS_Singleton
  <2>1. Cardinality({a} \cup {b}) = IF b \in {a} THEN 1 ELSE 1 + 1
    BY <2>0, FS_AddElement
  <2>2. c = {a} \cup {b}
    OBVIOUS
  <2> HIDE DEF c
  <2> QED
    BY <2>1, <2>2
<1>3. c \in C
  <2> HIDE DEF Choices
  <2>1. c \in SUBSET {t \in Executable : Targets(curr[t]) # {}}
    BY <1>1
  <2> QED
    BY <1>2, <2>1
<1>4. f \in Choices(c)
  <2>1. \A t \in c : f[t] \in UNION {Targets(curr[u]) : u \in c}
    BY <1>1
  <2>2. \A t \in c : <<curr[t], f[t]>> \in Moves
    OBVIOUS
  <2> QED
    BY <2>1, <2>2
<1>5. s = [t \in Executable |-> IF t \in DOMAIN f THEN f[t] ELSE curr[t]]
  OBVIOUS
<1>6. f \in UNION {Choices(d) : d \in C}
  <2> HIDE DEF f, c, C, Choices
  <2> QED
    BY <1>3, <1>4
<1>7. Proposals(curr) =
         {[t \in Executable |-> IF t \in DOMAIN g THEN g[t] ELSE curr[t]] :
             g \in UNION {Choices(d) : d \in C}}
  BY Zenon DEF Proposals
<1> HIDE DEF f, C, Choices
<1> QED
  BY <1>5, <1>6, <1>7

\* The witness that takes t one state on: the next task, if there is one, becomes
\* READY when t completes, and a throw event changes its message.
LEMMA GoesOn ==
    ASSUME OneKeyLanes, AbleProposers, TypeOK, LaneInv,
           NEW t \in Executable, st(t) \in InFlight
    PROVE  \E w \in Witnesses(state) : w.new.states[t] = Onward[st(t)] /\ Accepts(w)
<1> DEFINE n == Onward[st(t)]
           out == OutNode(t)
           forwards == n = COMPLETED /\ out \in Executable
           b == IF forwards THEN out ELSE t
           m == IF forwards THEN READY ELSE n
           s == [u \in Executable |-> IF u = t THEN n ELSE IF u = b THEN m ELSE st(u)]
<1>1. /\ \/ st(t) = READY /\ n = ACTIVE
         \/ st(t) = ACTIVE /\ n = COMPLETING
         \/ st(t) = COMPLETING /\ n = COMPLETED
      /\ LifecycleCheck(st(t), n)
      /\ <<st(t), n>> \in Moves
      /\ st(t) # n /\ n # READY
  BY OnwardMoves DEF InFlight, LifecycleCheck, AbleProposers, INACTIVE, READY, ACTIVE,
     COMPLETING, COMPLETED
<1> HIDE DEF n
<1>2. ASSUME forwards
      PROVE  /\ out \in Executable /\ out # t /\ st(out) = INACTIVE /\ n = COMPLETED
             /\ IncomingNode(out) = t
             /\ <<INACTIVE, READY>> \in Moves
  <2>1. <<t, out>> \in Upstream
    BY <1>2 DEF OneKeyLanes
  <2>2. st(out) = INACTIVE
    BY <2>1 DEF LaneInv
  <2>3. out # t
    BY <2>2 DEF InFlight, INACTIVE, READY, ACTIVE, COMPLETING
  <2>4. PICK f \in Outgoing(t) : f.dst = out
    BY GraphAssumption, FlowsOfExecutable
  <2>5. f \in Incoming(out) /\ f.src = t
    BY <2>4 DEF Incoming, Outgoing
  <2>6. IncomingNode(out) = t
    BY <1>2, <2>5, GraphAssumption, FlowsOfExecutable
  <2> QED
    BY <1>2, <2>2, <2>3, <2>6 DEF AbleProposers
<1>3. \/ forwards \/ n # COMPLETED
      \/ n = COMPLETED /\ Graph.type[out] = "EndEvent" /\ ~forwards
  BY GraphAssumption DEF WellFormed, OneKeyLanes
<1>4. s \in Proposals(state.states)
  <2>1. b \in Executable /\ <<st(b), m>> \in Moves /\ (t = b => n = m)
    BY <1>1, <1>2
  <2>2. <<state.states[t], n>> \in Moves /\ <<state.states[b], m>> \in Moves
    BY <1>1, <2>1 DEF st
  <2>3. MaxChanges \in Nat /\ MaxChanges >= 2
    BY DEF AbleProposers
  <2> HIDE DEF b, m
  <2>4. s = [u \in Executable |-> IF u = t THEN n ELSE IF u = b THEN m ELSE state.states[u]]
    BY DEF st
  <2> HIDE DEF s
  <2> QED
    BY <2>1, <2>2, <2>3, <2>4, TwoMoves
<1> DEFINE throws == Graph.type[t] = "IntermediateThrowEvent"
           slot == Graph.message[t]
<1>5. PICK msgs \in [Message -> MessageValues] :
         throws => msgs[slot] # state.msgs[slot]
  <2>1. CASE ~throws
    BY <2>1 DEF TypeOK
  <2>2. CASE throws
    <3>1. slot \in Message
      BY <2>2, GraphAssumption DEF WellFormed
    <3>2. state.msgs \in [Message -> MessageValues]
      BY DEF TypeOK
    <3>3. PICK other \in MessageValues : other # state.msgs[slot]
      BY <3>1, <3>2 DEF AbleProposers
    <3>4. [state.msgs EXCEPT ![slot] = other] \in [Message -> MessageValues]
      BY <3>1, <3>2, <3>3
    <3> QED
      BY <3>1, <3>2, <3>3, <3>4
  <2> QED
    BY <2>1, <2>2
<1>6. PICK r \in Randomness : r # state.rand
  BY DEF AbleProposers, TypeOK
<1> DEFINE new == [states |-> s, vars |-> state.vars, msgs |-> msgs,
                   bals |-> state.bals, rand |-> r]
           w == [curr |-> state, new |-> new, key |-> Graph.key[ParticipantIndex],
                 deposit |-> 0, withdrawal |-> 0]
<1>7. /\ w.curr = state /\ w.new = new /\ w.key = Graph.key[ParticipantIndex]
      /\ w.deposit = 0 /\ w.withdrawal = 0
      /\ new.states = s /\ new.msgs = msgs /\ new.bals = state.bals /\ new.rand = r
      /\ new.vars = state.vars
  OBVIOUS
<1>8. s[t] = n /\ (forwards => s[out] = READY)
      /\ \A u \in Executable : u # t /\ ~(forwards /\ u = out) => s[u] = st(u)
  BY <1>2
<1>9. /\ w.curr = state /\ w.new.states = s /\ w.new.msgs = msgs
      /\ w.new.bals = state.bals
  BY <1>7
<1>10. w \in Witnesses(state) \/ ~Stage1(w)
  <2>1. ASSUME Stage1(w) PROVE s \in TaskChanges(state)
    <3>1. Stage1([curr |-> state, new |-> [states |-> s]])
      BY <2>1, <1>9 DEF Stage1, Same, Completed
    <3> HIDE DEF s
    <3> QED
      BY <1>4, <3>1 DEF TaskChanges
  <2>2. /\ state.vars \in [Slot -> VariableValues]
        /\ state.bals \in [Participant -> BalanceValues]
    BY DEF TypeOK
  <2>3. 0 \in Amounts /\ Graph.key[ParticipantIndex] \in {Graph.key[p] : p \in Participant}
    BY DEF AbleProposers, OneKeyLanes
  <2> HIDE DEF s
  <2> QED
    BY <1>5, <1>6, <2>1, <2>2, <2>3 DEF Witnesses
<1> HIDE DEF s, w, new, throws
<1>11. /\ ~Same(w, t) /\ (Completed(w, t) <=> n = COMPLETED)
       /\ ~GotReady(w, t) /\ (StateChanged(w, t) <=> n # COMPLETED)
  BY <1>1, <1>8, <1>9 DEF Same, Completed, GotReady, StateChanged, st
<1>12. ASSUME forwards
       PROVE  /\ ~Same(w, out) /\ ~Completed(w, out) /\ GotReady(w, out)
              /\ StateChanged(w, out)
  BY <1>2, <1>8, <1>9, <1>12
  DEF Same, Completed, GotReady, StateChanged, st, INACTIVE, READY, COMPLETED
<1>13. ASSUME NEW u \in Executable, u # t, ~(forwards /\ u = out)
       PROVE  Same(w, u)
  BY <1>8, <1>9, <1>13 DEF Same, st
<1>14. Stage1(w)
  <2> DEFINE diff == {u \in Executable : ~Same(w, u)}
             comp == {u \in Executable : Completed(w, u)}
  <2>1. ASSUME NEW u \in diff PROVE LifecycleCheck(w.curr.states[u], w.new.states[u])
    <3>1. CASE u = t
      BY <1>1, <1>8, <1>9, <3>1 DEF st
    <3>2. CASE u # t
      <4>1. forwards /\ u = out
        BY <1>13, <3>2
      <4>2. w.curr.states[out] = INACTIVE /\ w.new.states[out] = READY
        BY <1>2, <1>8, <1>9, <4>1 DEF st
      <4> QED
        BY <4>1, <4>2 DEF LifecycleCheck
    <3> QED
      BY <3>1, <3>2
  <2>2. CASE n = COMPLETED
    <3>1. comp = {t}
      BY <1>11, <1>12, <1>13, <2>2 DEF Completed
    <3>2. IsSingleton(comp)
      BY <3>1 DEF IsSingleton
    <3> QED
      BY <2>1, <3>2 DEF Stage1
  <2>3. CASE n # COMPLETED
    <3>1. diff = {t}
      BY <1>11, <1>13, <2>3
    <3>2. IsSingleton(diff)
      BY <3>1 DEF IsSingleton
    <3> QED
      BY <2>1, <3>2 DEF Stage1
  <2> QED
    BY <2>2, <2>3
<1>15. \A u \in Executable : OwnerActs(w, u)
  BY <1>7 DEF OwnerActs, OneKeyLanes
<1>16. Stage2(w, t)
  <2>1. MessageSent(w, t)
    BY <1>5, <1>9 DEF MessageSent, throws
  <2>2. ~ReadyInTheRightTime(w, t)
    BY <1>11 DEF ReadyInTheRightTime
  <2>3. CompletedAndTokenForwarded(w, t) <=> n = COMPLETED
    BY <1>3, <1>11, <1>12 DEF CompletedAndTokenForwarded
  <2> QED
    BY <1>11, <1>15, <2>1, <2>2, <2>3, Zenon DEF Stage2, Xor
<1>17. ASSUME forwards PROVE Stage2(w, out)
  <2>1. ReadyInTheRightTime(w, out)
    <3>1. IncomingNode(out) = t /\ Completed(w, t) /\ t \notin Gateway
      BY <1>2, <1>11, <1>17, KindsOfNodes
    <3>2. ~IsStartFed(out)
      BY <3>1, KindsOfNodes DEF IsStartFed
    <3> QED
      BY <1>12, <1>17, <3>1, <3>2 DEF ReadyInTheRightTime
  <2>2. ~CompletedAndTokenForwarded(w, out) /\ MessageSent(w, out)
    BY <1>12, <1>17 DEF CompletedAndTokenForwarded, MessageSent
  <2>3. OwnerActs(w, out)
    BY <1>2, <1>15, <1>17
  <2> QED
    BY <1>12, <1>17, <2>1, <2>2, <2>3, Zenon DEF Stage2, Xor
<1>18. ASSUME NEW u \in Executable, u # t, ~(forwards /\ u = out)
       PROVE  Stage2(w, u)
  <2>1. Same(w, u) /\ OwnerActs(w, u)
    BY <1>13, <1>15, <1>18
  <2>2. ~StateChanged(w, u) /\ ~Completed(w, u) /\ ~GotReady(w, u)
    BY <2>1 DEF StateChanged, Completed, GotReady
  <2>3. /\ ~ReadyInTheRightTime(w, u) /\ ~CompletedAndTokenForwarded(w, u)
        /\ MessageSent(w, u)
    BY <2>2 DEF ReadyInTheRightTime, CompletedAndTokenForwarded, MessageSent
  <2> QED
    BY <2>1, <2>2, <2>3, Zenon DEF Stage2, Xor
<1>19. CheckPayments(w)
  BY <1>7, <1>9 DEF CheckPayments
<1>20. Accepts(w)
  <2>1. \A u \in Executable : Stage2(w, u)
    BY <1>16, <1>17, <1>18
  <2>2. w.curr.rand # w.new.rand /\ w.key = Graph.key[ParticipantIndex]
    BY <1>6, <1>7
  <2> QED
    BY <1>14, <1>19, <2>1, <2>2 DEF Accepts
<1> QED
  BY <1>8, <1>9, <1>10, <1>14, <1>20 DEF n

\* A model of one organisation whose lanes have no gateways never gets stuck, as
\* long as provers write four bits: in every reachable state each task under way
\* can be taken one state on.
THEOREM LanesNeverStuck ==
    ASSUME FourBits, OneKeyLanes, AbleProposers
    PROVE  Spec => []NoTaskStuck
<1>1. TypeOK /\ LaneInv => NoTaskStuck
  BY GoesOn, OneOpening DEF NoTaskStuck
<1> QED
  BY <1>1, TypeCorrect, LaneSafety, PTL
=============================================================================
