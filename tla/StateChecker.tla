---------------------------- MODULE StateChecker ----------------------------
(***************************************************************************)
(* The circuit of pkg/circuits/statechecker as a predicate on a witness w: *)
(*   curr, new   the states of the workflow before and after the step:     *)
(*               states, vars, msgs, bals, rand                            *)
(*   key         the public key whose owner makes and signs the step       *)
(*   deposit, withdrawal   the public amounts                              *)
(* Its public hashes are HashCurr(w) and HashNew(w): Define asserts that   *)
(* they are the hashes of what compressedState makes of curr and new.  The *)
(* hash is ideal, so it stands for that list; the list has one number for  *)
(* all task states.  The signature is by w.key over HashNew(w), and the    *)
(* ciphertext is that of the same list.                                    *)
(***************************************************************************)
EXTENDS TaskLifecycle, Expressions

Xor(a, b) == ~(a <=> b)
IsSingleton(S) == \E x \in S : S = {x}

\* circuit.ParticipantIndex is 0 when NewZkWFProgram's circuit is compiled.
ParticipantIndex == 1

Same(w, t)      == w.curr.states[t] = w.new.states[t]
Completed(w, t) == ~Same(w, t) /\ w.new.states[t] = COMPLETED
StateChanged(w, t) == ~Same(w, t) /\ ~Completed(w, t)
GotReady(w, t)  == w.new.states[t] = READY /\ StateChanged(w, t)

\* The check when a completion does not excuse the changes that go with it.
Stage1OneChange(w) ==
    LET diff == {t \in Executable : ~Same(w, t)}
    IN /\ \A t \in diff : LifecycleCheck(w.curr.states[t], w.new.states[t])
       /\ diff = {} \/ IsSingleton(diff)

\* One task completes, whatever else moves with it, or one task moves alone,
\* or nothing does: noChange, isActivated and justOne.
Stage1(w) ==
    LET diff == {t \in Executable : ~Same(w, t)}
        comp == {t \in Executable : Completed(w, t)}
    IN /\ \A t \in diff : LifecycleCheck(w.curr.states[t], w.new.states[t])
       /\ diff = {} \/ IsSingleton(comp) \/ IsSingleton(diff)

\* The check when one predecessor is enough for every kind of gateway.
AnyPreviousCompleted(w, gateway) ==
    \E p \in GetPreviousNodes(gateway) : w.new.states[p] = COMPLETED

\* allPreviousNodesCompleted and atLeastOnePreviousNodeCompleted
PreviousCompleted(w, gateway) ==
    LET completed[g \in Gateway] ==
          LET Done(f) == IF f.src \in Gateway THEN completed[f.src]
                         ELSE w.new.states[f.src] = COMPLETED
          IN IF IsClusive(g) THEN \E f \in Incoming(g) : Done(f)
                             ELSE \A f \in Incoming(g) : Done(f)
    IN completed[gateway]

\* The condition when it is read from the state before the step.
ExpressionTrueBefore(w, f) ==
    f.name # << >> => EvaluateExpression(f.name, w.curr.vars)

ExpressionTrue(w, f) == f.name # << >> => EvaluateExpression(f.name, w.new.vars)

\* parallelGatewayActivated, exclusiveGatewayActivated, inclusiveGatewayActivated
GatewayActivated(w, gateway) ==
    LET activated[g \in Gateway] ==
          LET Reached(f) == IF f.dst \in Gateway THEN activated[f.dst]
                            ELSE GotReady(w, f.dst)
              taken == {f \in Outgoing(g) : ExpressionTrue(w, f) /\ Reached(f)}
          IN CASE Graph.type[g] = "ExclusiveGateway" -> IsSingleton(taken)
               [] Graph.type[g] = "InclusiveGateway" -> taken # {}
               [] OTHER -> \A f \in Outgoing(g) :
                              Graph.type[f.dst] = "EndEvent" \/ Reached(f)
    IN activated[gateway]

\* The check without the predecessors, and the one that lets a task behind a
\* start event become READY again.
ReadyAnytime(w, t) == ~IsStartFed(t) /\ GotReady(w, t)

ReadyAfterStart(w, t) ==
    /\ GotReady(w, t)
    /\ \/ IsStartFed(t)
       \/ IncomingNode(t) \in Executable /\ Completed(w, IncomingNode(t))

ReadyInTheRightTime(w, t) ==
    /\ ~IsStartFed(t)
    /\ GotReady(w, t)
    /\ IF IncomingNode(t) \in Gateway THEN PreviousCompleted(w, IncomingNode(t))
       ELSE Completed(w, IncomingNode(t))

PairsCompleted(w, t) == \A p \in GetPairs(t) : w.new.states[p] = COMPLETED

\* The check when a completed task need not activate what follows, and the one
\* that only forbids to activate it too early.
CompletedAnyway(w, t) == Completed(w, t)

CompletedNotEarly(w, t) ==
    /\ Completed(w, t)
    /\ Graph.type[OutNode(t)] = "ParallelGateway" =>
          (GatewayActivated(w, OutNode(t)) => PairsCompleted(w, t))

\* In front of a parallel gateway the last task of the pairs to complete has to
\* activate what follows, and the others must not; without pairs, t is the last.
CompletedAndTokenForwarded(w, t) ==
    /\ Completed(w, t)
    /\ \/ Graph.type[OutNode(t)] = "EndEvent"
       \/ /\ Graph.type[OutNode(t)] = "ParallelGateway"
          /\ PairsCompleted(w, t) <=> GatewayActivated(w, OutNode(t))
       \/ IsClusive(OutNode(t)) /\ GatewayActivated(w, OutNode(t))
       \/ OutNode(t) \in Executable /\ GotReady(w, OutNode(t))

OwnerActs(w, t) == ~Same(w, t) => w.key = Graph.key[Graph.owner[t]]

MessageSent(w, t) ==
    Graph.type[t] = "IntermediateThrowEvent" /\ Completed(w, t)
        => w.curr.msgs[Graph.message[t]] # w.new.msgs[Graph.message[t]]

\* The payment branch of the code needs an executable PaymentTask: there is none.
Stage2(w, t) ==
    /\ OwnerActs(w, t)
    /\ MessageSent(w, t)
    /\ Xor(Xor(ReadyInTheRightTime(w, t), StateChanged(w, t) /\ ~GotReady(w, t)),
           Xor(CompletedAndTokenForwarded(w, t), Same(w, t)))

CheckPayments(w) ==
    LET me == ParticipantIndex
    IN /\ w.deposit # 0 =>
             w.new.bals[me] = (w.curr.bals[me] + w.deposit) % FieldPrime
       /\ w.withdrawal # 0 =>
             w.new.bals[me] = (w.curr.bals[me] - w.withdrawal) % FieldPrime
       /\ \A p \in Participant :
             \/ p = me /\ (w.deposit # 0 \/ w.withdrawal # 0)
             \/ w.curr.bals[p] = w.new.bals[p]

\* State.States: the tasks' numbers, in the order of the executables.
States(s) == [i \in DOMAIN GetExecutableNodes |-> s.states[GetExecutableNodes[i]]]

\* The sum is one of field elements. No constraint says that a number has only
\* four bits.
CompressToFieldElement(states) == Compress(states) % FieldPrime

\* compressedState; its hash is modelled by what is hashed.
Commit(s) == [packed |-> CompressToFieldElement(States(s)),
              rand |-> s.rand, vars |-> s.vars, msgs |-> s.msgs, bals |-> s.bals]

HashCurr(w) == Commit(w.curr)
HashNew(w)  == Commit(w.new)

\* Circuit.Define
Accepts(w) ==
    /\ w.key = Graph.key[ParticipantIndex]
    /\ w.curr.rand # w.new.rand
    /\ Stage1(w)
    /\ \A t \in Executable : Stage2(w, t)
    /\ CheckPayments(w)
=============================================================================
