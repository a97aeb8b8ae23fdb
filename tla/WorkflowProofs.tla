--------------------------- MODULE WorkflowProofs ---------------------------
(***************************************************************************)
(* Theorems about Workflow, for every graph, every bound on the proposals  *)
(* and every number of tasks.  Those about its behaviours assume FourBits: *)
(* the hash has one opening.                                               *)
(***************************************************************************)
EXTENDS Workflow, Lemmas

-----------------------------------------------------------------------------
(* What the committed number tells of the task states.                     *)

\* An executable has its place in the list, and is found there.
LEMMA PlaceFacts ==
    ASSUME NEW t \in Executable
    PROVE  Place[t] \in 1..Len(GetExecutableNodes) /\ GetExecutableNodes[Place[t]] = t
<1>1. \E i \in 1..Len(GetExecutableNodes) : GetExecutableNodes[i] = t
  BY GraphAssumption DEF WellFormed, Listed
<1>2. Place[t] = CHOOSE i \in 1..Len(GetExecutableNodes) : GetExecutableNodes[i] = t
  BY DEF Place
<1> QED
  BY <1>1, <1>2

\* The numbers of a state, one for each executable at its place.
LEMMA StatesFacts ==
    ASSUME NEW N, NEW s, s.states \in [Executable -> N]
    PROVE  /\ States(s) \in Seq(N) /\ Len(States(s)) = Len(GetExecutableNodes)
           /\ \A t \in Executable : States(s)[Place[t]] = s.states[t]
<1>1. GetExecutableNodes \in Seq(Executable)
  BY GraphAssumption DEF WellFormed, Listed
<1> DEFINE L == Len(GetExecutableNodes)
<1>2. L \in Nat /\ DOMAIN GetExecutableNodes = 1..L
      /\ \A i \in 1..L : GetExecutableNodes[i] \in Executable
  BY <1>1
<1>3. States(s) = [i \in 1..L |-> s.states[GetExecutableNodes[i]]]
  BY <1>2 DEF States
<1>4. States(s) \in [1..L -> N]
  BY <1>2, <1>3
<1> HIDE DEF L
<1>5. States(s) \in Seq(N) /\ Len(States(s)) = L
  BY <1>2, <1>4
<1>6. ASSUME NEW t \in Executable PROVE States(s)[Place[t]] = s.states[t]
  BY <1>3, PlaceFacts DEF L
<1> QED
  BY <1>5, <1>6 DEF L

\* The task states of the new opening of a hash are numbers that add up to the
\* packed one, at their places.
LEMMA OpeningFacts ==
    ASSUME NEW s, NEW curr \in Openings(s)
    PROVE  \E k \in 0..(MaxSum \div FieldPrime) :
           \E q \in Summing(Numbers, Len(GetExecutableNodes),
                            CompressToFieldElement(States(s)) + k * FieldPrime) :
              curr = [states |-> [t \in Executable |-> q[Place[t]]],
                      vars |-> s.vars, msgs |-> s.msgs, bals |-> s.bals, rand |-> s.rand]
BY DEF Openings, Sums

LEMMA LargestOfFourBits ==
    ASSUME FourBits
    PROVE  MaxSum < FieldPrime /\ MaxSum = Compress([i \in DOMAIN GetExecutableNodes |-> 15])
<1>1. \A d \in 0..15 : d =< 15
  OBVIOUS
<1>2. \A m \in 0..15 : (\A d \in 0..15 : d =< m) => m = 15
  OBVIOUS
<1>3. Largest = 15
  BY <1>1, <1>2 DEF Largest, FourBits
<1> QED
  BY <1>3 DEF MaxSum, FourBits

\* The sum of a state of four bits is not larger than that of the largest.
LEMMA SumsOfFourBits ==
    ASSUME FourBits, NEW s, s.states \in [Executable -> 0..15]
    PROVE  /\ States(s) \in Seq(0..15) /\ Compress(States(s)) \in Nat
           /\ MaxSum \in Nat /\ Compress(States(s)) =< MaxSum
<1> DEFINE L == Len(GetExecutableNodes)
           most == [i \in DOMAIN GetExecutableNodes |-> 15]
<1>1. L \in Nat /\ DOMAIN GetExecutableNodes = 1..L
  BY GraphAssumption DEF WellFormed, Listed
<1>2. most \in Seq(Nat) /\ Len(most) = L /\ \A i \in 1..L : most[i] = 15
  <2>1. most \in [1..L -> Nat]
    BY <1>1
  <2> QED
    BY <1>1, <2>1
<1>3. States(s) \in Seq(0..15) /\ Len(States(s)) = L
  BY StatesFacts
<1>4. States(s) \in Seq(Nat)
  BY <1>3, SeqMonotonic
<1>5. \A i \in 1..L : States(s)[i] =< 15
  BY <1>1, <1>3
<1> HIDE DEF most, L
<1>6. Compress(States(s)) =< Compress(most)
  BY <1>2, <1>3, <1>4, <1>5, CompressMonotone
<1>7. Compress(most) \in Nat /\ Compress(States(s)) \in Nat
  BY <1>2, <1>4, CompressType
<1> QED
  BY <1>3, <1>6, <1>7, LargestOfFourBits DEF most

\* With four bits for each task, the hash tells the state.
LEMMA OneOpening ==
    ASSUME FourBits, TypeOK
    PROVE  Openings(state) = {state}
<1> DEFINE L == Len(GetExecutableNodes)
           r == States(state)
<1>1. state.states \in [Executable -> 0..15]
  <2>1. TaskState \subseteq 0..15
    BY DEF TaskState
  <2>2. state.states \in [Executable -> TaskState]
    BY DEF TypeOK
  <2> QED
    BY <2>1, <2>2
<1>2. /\ r \in Seq(0..15) /\ Compress(r) \in Nat /\ MaxSum \in Nat
      /\ Compress(r) =< MaxSum /\ MaxSum < FieldPrime
      /\ Len(r) = L /\ L \in Nat /\ Numbers = 0..15 /\ FieldPrime \in Nat \ {0}
  <2>1. L \in Nat
    BY GraphAssumption DEF WellFormed, Listed
  <2>2. FieldPrime \in Nat \ {0}
    BY NumbersAssumption DEF NumbersInField
  <2> QED
    BY <1>1, <2>1, <2>2, SumsOfFourBits, LargestOfFourBits, StatesFacts DEF FourBits
<1>3. \A t \in Executable : r[Place[t]] = state.states[t]
  BY <1>1, StatesFacts
<1>4. CompressToFieldElement(r) = Compress(r) % FieldPrime
  BY DEF CompressToFieldElement
<1> DEFINE Opened(q) == [states |-> [t \in Executable |-> q[Place[t]]],
                         vars |-> state.vars, msgs |-> state.msgs,
                         bals |-> state.bals, rand |-> state.rand]
<1>5. state = Opened(r)
  <2>1. state.states = [t \in Executable |-> r[Place[t]]]
    BY <1>1, <1>3
  <2> HIDE DEF r
  <2> QED
    BY <2>1 DEF TypeOK
<1> HIDE DEF r, L
<1>6. ASSUME NEW curr \in Openings(state) PROVE curr = state
  <2>1. PICK k \in 0..(MaxSum \div FieldPrime) :
          \E q \in Summing(Numbers, L, (Compress(r) % FieldPrime) + k * FieldPrime) :
             curr = Opened(q)
    BY <1>4, OpeningFacts DEF L, r
  <2>2. PICK q \in Summing(0..15, L, (Compress(r) % FieldPrime) + k * FieldPrime) :
             curr = Opened(q)
    BY <1>2, <2>1
  <2>3. q = r
    BY <1>2, OnlySum
  <2> QED
    BY <1>5, <2>2, <2>3
<1>7. state \in Openings(state)
  <2>1. PICK k \in 0..(MaxSum \div FieldPrime) :
          r \in Summing(Numbers, L, (Compress(r) % FieldPrime) + k * FieldPrime)
    <3>1. Numbers \in SUBSET Nat
      BY <1>2
    <3> QED
      BY <1>2, <3>1, SumListed
  <2> QED
    BY <1>4, <1>5, <2>1 DEF Openings, Sums, L, r
<1> QED
  BY <1>6, <1>7
-----------------------------------------------------------------------------
(* What the circuit accepts.                                               *)

\* What the circuit demands of one task: changes follow the lifecycle, and a
\* task becomes READY only in the right time.
LEMMA CheckOfTask ==
    ASSUME NEW w, NEW t \in Executable, Accepts(w)
    PROVE  /\ ~Same(w, t) => LifecycleCheck(w.curr.states[t], w.new.states[t])
           /\ GotReady(w, t) => ReadyInTheRightTime(w, t)
<1>1. ~Same(w, t) => LifecycleCheck(w.curr.states[t], w.new.states[t])
  BY DEF Accepts, Stage1
<1>2. ASSUME GotReady(w, t) PROVE ReadyInTheRightTime(w, t)
  <2>1. ~Same(w, t) /\ ~CompletedAndTokenForwarded(w, t)
    BY <1>2 DEF GotReady, StateChanged, CompletedAndTokenForwarded
  <2>2. Stage2(w, t)
    BY DEF Accepts
  <2>3. QED
    BY <1>2, <2>1, <2>2, Zenon DEF Stage2, Xor
<1>3. QED
  BY <1>1, <1>2

\* Of all tasks, at most one completes.
LEMMA OneCompletes ==
    ASSUME NEW w, Accepts(w),
           NEW x \in Executable, NEW y \in Executable,
           Completed(w, x), Completed(w, y)
    PROVE  x = y
<1>1. ~Same(w, x) /\ ~Same(w, y)
  BY DEF Completed
<1>2. QED
  BY <1>1 DEF Accepts, Stage1, IsSingleton

\* The circuit's comment over the last check of a task, "One and only one of the
\* following conditions must be 1 (true)": although the check is a parity, and
\* three true conditions would pass it as one does, an accepted step makes
\* exactly one of the four true for each task.
THEOREM OneAndOnlyOne ==
    ASSUME NEW w, NEW t \in Executable, Accepts(w)
    PROVE  LET ready == ReadyInTheRightTime(w, t)
               moved == StateChanged(w, t) /\ ~GotReady(w, t)
               done  == CompletedAndTokenForwarded(w, t)
               same  == Same(w, t)
           IN \/ ready /\ ~moved /\ ~done /\ ~same
              \/ ~ready /\ moved /\ ~done /\ ~same
              \/ ~ready /\ ~moved /\ done /\ ~same
              \/ ~ready /\ ~moved /\ ~done /\ same
<1>1. ReadyInTheRightTime(w, t) => GotReady(w, t)
  BY DEF ReadyInTheRightTime
<1>2. CompletedAndTokenForwarded(w, t) => Completed(w, t)
  BY DEF CompletedAndTokenForwarded
<1>3. Stage2(w, t)
  BY DEF Accepts
<1>4. QED
  BY <1>1, <1>2, <1>3, Zenon DEF Stage2, Xor, GotReady, StateChanged, Completed

\* A step of the workflow is a witness the circuit accepts, from the state that the
\* last one left.
LEMMA StepWitness ==
    ASSUME FourBits, TypeOK, Step
    PROVE  \E w \in Witnesses(state) :
              w.curr = state /\ w.new = state' /\ Accepts(w)
BY OneOpening DEF Step, Witnesses
-----------------------------------------------------------------------------
\* A proposal is a state for each executable, and makes Moves only.
LEMMA ProposedMoves ==
    ASSUME NEW curr, NEW s \in Proposals(curr)
    PROVE  /\ s = [t \in Executable |-> s[t]]
           /\ \A t \in Executable : s[t] = curr[t] \/ <<curr[t], s[t]>> \in Moves
<1> DEFINE Choices(changed) ==
      {f \in [changed -> UNION {Targets(curr[t]) : t \in changed}] :
          \A t \in changed : <<curr[t], f[t]>> \in Moves}
<1>1. PICK f \in UNION {Choices(c) :
                   c \in {c \in SUBSET {t \in Executable : Targets(curr[t]) # {}} :
                            Cardinality(c) <= MaxChanges}} :
         s = [t \in Executable |-> IF t \in DOMAIN f THEN f[t] ELSE curr[t]]
  BY Zenon DEF Proposals
<1>2. \A t \in DOMAIN f : <<curr[t], f[t]>> \in Moves
  OBVIOUS
<1> QED
  BY <1>1, <1>2

\* The fields of a witness's new state are the values a proposer may write; that
\* its task states are lifecycle codes is the doing of the circuit.
LEMMA WitnessType ==
    ASSUME TypeOK, NEW w \in Witnesses(state), Accepts(w)
    PROVE  w.new \in [states : [Executable -> TaskState],
                      vars   : [Slot -> VariableValues],
                      msgs   : [Message -> MessageValues],
                      bals   : [Participant -> BalanceValues],
                      rand   : Randomness]
<1>1. /\ w.curr = state
      /\ w.new \in [states : TaskChanges(state),
                    vars   : [Slot -> VariableValues],
                    msgs   : [Message -> MessageValues],
                    bals   : [Participant -> BalanceValues],
                    rand   : Randomness]
  BY DEF Witnesses
<1>2. PICK f : w.new.states = [t \in Executable |-> f[t]]
  BY <1>1, ProposedMoves DEF TaskChanges
<1>3. ASSUME NEW t \in Executable PROVE f[t] \in TaskState
  <2>1. w.curr.states[t] \in TaskState /\ w.new.states[t] = f[t]
    BY <1>1, <1>2 DEF TypeOK
  <2>2. Same(w, t) \/ LifecycleCheck(w.curr.states[t], w.new.states[t])
    BY CheckOfTask
  <2>3. QED
    BY <2>1, <2>2 DEF Same, LifecycleCheck, TaskState, INACTIVE, READY, ACTIVE,
       COMPLETING, FAILING, TERMINATING, COMPENSATING, TERMINATED, COMPENSATED,
       FAILED, COMPLETED
<1>4. QED
  BY <1>1, <1>2, <1>3

\* As long as provers write four bits, every reachable state has a lifecycle code
\* for each executable and proposed values in its other slots: of the sixteen
\* numbers no accepted step leaves the eleven codes.
THEOREM TypeCorrect ==
    ASSUME FourBits
    PROVE  Spec => []TypeOK
<1>1. Init => TypeOK
  BY ValueAssumption DEF Init, TypeOK, InFlight, TaskState, INACTIVE, READY,
     ACTIVE, COMPLETING
<1>2. TypeOK /\ [Next]_vars => TypeOK'
  <2>1. ASSUME TypeOK, Step PROVE TypeOK'
    BY <2>1, StepWitness, WitnessType DEF TypeOK
  <2>2. ASSUME TypeOK, UNCHANGED vars PROVE TypeOK'
    BY <2>2 DEF TypeOK, vars
  <2>3. QED
    BY <2>1, <2>2 DEF Next
<1>3. QED
  BY <1>1, <1>2, PTL DEF Spec
-----------------------------------------------------------------------------
\* How the lifecycle leads under way and to completion.
LEMMA LifecycleFacts ==
    ASSUME NEW curr, NEW new, LifecycleCheck(curr, new)
    PROVE  /\ new \in InFlight => curr \in InFlight \/ (curr = INACTIVE /\ new = READY)
           /\ curr = INACTIVE => new = READY
           /\ new = COMPLETED => curr = COMPLETING
BY DEF LifecycleCheck, InFlight, INACTIVE, READY, ACTIVE, COMPLETING, FAILING,
   TERMINATING, COMPENSATING, TERMINATED, COMPENSATED, FAILED, COMPLETED

\* A task that comes under way was INACTIVE, and becomes READY in the right time.
LEMMA ComesUnderWay ==
    ASSUME NEW w, NEW t \in Executable, Accepts(w),
           \/ w.curr.states[t] \notin InFlight /\ w.new.states[t] \in InFlight
           \/ w.curr.states[t] = INACTIVE /\ w.new.states[t] # INACTIVE
    PROVE  /\ w.curr.states[t] = INACTIVE /\ w.new.states[t] = READY
           /\ ReadyInTheRightTime(w, t)
<1>1. LifecycleCheck(w.curr.states[t], w.new.states[t])
  BY CheckOfTask DEF Same
<1>2. w.curr.states[t] = INACTIVE /\ w.new.states[t] = READY
  BY <1>1, LifecycleFacts
<1>3. GotReady(w, t)
  BY <1>2 DEF GotReady, StateChanged, Completed, Same, INACTIVE, READY, COMPLETED
<1>4. QED
  BY <1>2, <1>3, CheckOfTask

\* An executable is no gateway.
LEMMA NoGateway == ASSUME NEW t \in Executable PROVE t \notin Gateway
BY DEF Executable, Gateway, IsClusive

\* Behind an executable, the right time is the completion of that executable,
\* which was COMPLETING.
LEMMA ReadyBehindExecutable ==
    ASSUME NEW w, NEW t \in Executable, Accepts(w), ReadyInTheRightTime(w, t),
           IncomingNode(t) \in Executable
    PROVE  /\ Completed(w, IncomingNode(t))
           /\ w.curr.states[IncomingNode(t)] = COMPLETING
           /\ w.new.states[IncomingNode(t)] = COMPLETED
<1>1. Completed(w, IncomingNode(t))
  BY NoGateway DEF ReadyInTheRightTime
<1>2. LifecycleCheck(w.curr.states[IncomingNode(t)], COMPLETED)
  BY <1>1, CheckOfTask DEF Completed
<1>3. QED
  BY <1>1, <1>2, LifecycleFacts DEF Completed

\* The lane invariant is inductive: a task comes under way only when the one
\* before it completes, and only one completes.
LEMMA LaneStep ==
    ASSUME LaneInv, NEW w, w.curr = state, w.new = state', Accepts(w)
    PROVE  LaneInv'
<1>1. SUFFICES ASSUME NEW u \in Upstream, st(u[1])' \in InFlight,
                      st(u[2])' # INACTIVE
               PROVE  FALSE
  BY DEF LaneInv
<1> DEFINE a == u[1]
<1> DEFINE b == u[2]
<1>2. /\ a \in Executable /\ b \in Executable /\ u = <<a, b>>
      /\ w.new.states[a] \in InFlight /\ w.new.states[b] # INACTIVE
  BY <1>1, LaneAssumption DEF UpstreamAssumption, st
<1>3. /\ IncomingNode(b) \in Executable
      /\ IncomingNode(b) = a \/ <<a, IncomingNode(b)>> \in Upstream
      /\ \/ IsStartFed(a)
         \/ /\ IncomingNode(a) \in Executable
            /\ <<IncomingNode(a), b>> \in Upstream
  BY LaneAssumption DEF UpstreamAssumption
<1>4. \A x, y \in Executable : <<x, y>> \in Upstream /\ w.curr.states[x] \in InFlight
                                  => w.curr.states[y] = INACTIVE
  BY DEF LaneInv, st
<1>5. COMPLETING \in InFlight /\ COMPLETING # INACTIVE /\ COMPLETED \notin InFlight
  BY DEF InFlight, READY, ACTIVE, COMPLETING, COMPLETED, INACTIVE
<1>6. CASE w.curr.states[a] \in InFlight
  <2>1. w.curr.states[b] = INACTIVE
    BY <1>2, <1>4, <1>6
  <2>2. ReadyInTheRightTime(w, b)
    BY <1>2, <2>1, ComesUnderWay
  <2>3. /\ w.curr.states[IncomingNode(b)] = COMPLETING
        /\ w.new.states[IncomingNode(b)] = COMPLETED
    BY <1>2, <1>3, <2>2, ReadyBehindExecutable
  <2>4. <<a, IncomingNode(b)>> \in Upstream
    BY <1>2, <1>3, <1>5, <2>3
  <2>5. QED
    BY <1>2, <1>3, <1>4, <1>5, <1>6, <2>3, <2>4
<1>7. CASE w.curr.states[a] \notin InFlight
  <2>1. ReadyInTheRightTime(w, a)
    BY <1>2, <1>7, ComesUnderWay
  <2>2. IncomingNode(a) \in Executable /\ <<IncomingNode(a), b>> \in Upstream
    BY <1>3, <2>1 DEF ReadyInTheRightTime
  <2>3. Completed(w, IncomingNode(a)) /\ w.curr.states[IncomingNode(a)] = COMPLETING
        /\ w.new.states[IncomingNode(a)] = COMPLETED
    BY <1>2, <2>1, <2>2, ReadyBehindExecutable
  <2>4. w.curr.states[b] = INACTIVE
    BY <1>2, <1>4, <1>5, <2>2, <2>3
  <2>5. ReadyInTheRightTime(w, b)
    BY <1>2, <2>4, ComesUnderWay
  <2>6. Completed(w, IncomingNode(b)) /\ w.new.states[IncomingNode(b)] = COMPLETED
    BY <1>2, <1>3, <2>5, ReadyBehindExecutable
  <2>7. IncomingNode(b) = IncomingNode(a)
    BY <1>3, <2>2, <2>3, <2>6, OneCompletes
  <2>8. <<a, IncomingNode(a)>> \in Upstream
    BY <1>2, <1>3, <1>5, <2>3, <2>7
  <2>9. <<IncomingNode(a), IncomingNode(a)>> \in Upstream
    BY <2>1, <2>8, LaneAssumption DEF UpstreamAssumption, ReadyInTheRightTime
  <2>10. QED
    BY <1>4, <1>5, <2>2, <2>3, <2>9
<1>8. QED
  BY <1>6, <1>7

\* On a lane without gateways, in every model, nothing after a task under way
\* has started, as long as provers write four bits.
THEOREM LaneSafety ==
    ASSUME FourBits
    PROVE  Spec => []LaneInv
<1>1. ASSUME Init PROVE LaneInv
  <2>1. \A t \in Executable : ~IsStartFed(t) => st(t) = INACTIVE
    BY <1>1 DEF Init, st
  <2>2. \A u \in Upstream : u[2] \in Executable /\ ~IsStartFed(u[2])
    BY LaneAssumption DEF UpstreamAssumption
  <2>3. QED
    BY <2>1, <2>2 DEF LaneInv
<1>2. LaneInv /\ TypeOK /\ [Next]_vars => LaneInv'
  <2>1. ASSUME LaneInv, TypeOK, Step PROVE LaneInv'
    BY <2>1, StepWitness, LaneStep
  <2>2. ASSUME LaneInv, UNCHANGED vars PROVE LaneInv'
    BY <2>2 DEF LaneInv, st, vars
  <2>3. QED
    BY <2>1, <2>2 DEF Next
<1>3. QED
  BY <1>1, <1>2, TypeCorrect, PTL DEF Spec

\* Where no gateway stands in front of a task, and provers write four bits, a
\* workflow whose tasks have all stopped is over.
THEOREM StoppedIsOver ==
    ASSUME FourBits,
           \A t \in Executable : IsStartFed(t) \/ IncomingNode(t) \in Executable
    PROVE  Spec => StoppedForGood
<1>1. ASSUME Stopped, TypeOK, Step PROVE Stopped'
  <2>1. PICK w \in Witnesses(state) : w.curr = state /\ w.new = state' /\ Accepts(w)
    BY <1>1, StepWitness
  <2>2. SUFFICES ASSUME NEW t \in Executable, w.new.states[t] \in InFlight
                 PROVE  FALSE
    BY <2>1 DEF Stopped, st
  <2>3. w.curr.states[t] \notin InFlight
    BY <1>1, <2>1 DEF Stopped, st
  <2>4. ReadyInTheRightTime(w, t)
    BY <2>1, <2>2, <2>3, ComesUnderWay
  <2>5. IncomingNode(t) \in Executable
    BY <2>4 DEF ReadyInTheRightTime
  <2>6. w.curr.states[IncomingNode(t)] = COMPLETING
    BY <2>1, <2>4, <2>5, ReadyBehindExecutable
  <2>7. QED
    BY <1>1, <2>1, <2>5, <2>6 DEF Stopped, st, InFlight
<1>2. TypeOK /\ [Next]_vars => [StaysStopped]_vars
  BY <1>1 DEF Next, StaysStopped
<1>3. QED
  BY <1>2, TypeCorrect, PTL DEF Spec, StoppedForGood

\* What a step changes is a task of the participant for whom the circuit was
\* compiled, or of another one with the same key.
FirstActs ==
    \A t \in Executable : st(t)' # st(t) =>
        Graph.key[Graph.owner[t]] = Graph.key[ParticipantIndex]

\* ParticipantIndex is not set when the circuit is compiled: in a model with keys
\* of several participants, as models/t5.bpmn is, the tasks of all but the first
\* never move, whoever proves and however long.
THEOREM OnlyTheFirstActs ==
    ASSUME FourBits
    PROVE  Spec => [][FirstActs]_vars
<1>1. ASSUME TypeOK, Step PROVE FirstActs
  <2>1. PICK w \in Witnesses(state) : w.curr = state /\ w.new = state' /\ Accepts(w)
    BY <1>1, StepWitness
  <2>2. ASSUME NEW t \in Executable, st(t)' # st(t)
        PROVE  Graph.key[Graph.owner[t]] = Graph.key[ParticipantIndex]
    <3>1. ~Same(w, t)
      BY <2>1, <2>2 DEF Same, st
    <3>2. OwnerActs(w, t) /\ w.key = Graph.key[ParticipantIndex]
      BY <2>1 DEF Accepts, Stage2
    <3> QED
      BY <3>1, <3>2 DEF OwnerActs
  <2> QED
    BY <2>2 DEF FirstActs
<1>2. TypeOK /\ [Next]_vars => [FirstActs]_vars
  BY <1>1 DEF Next
<1> QED
  BY <1>2, TypeCorrect, PTL DEF Spec
=============================================================================
