------------------------------ MODULE Workflow ------------------------------
(***************************************************************************)
(* A workflow instance as the sequence of steps the circuit accepts,       *)
(* whoever proposes them.  The contract stores a hash; state is how the    *)
(* last prover read it, and any opening of the same hash can be the        *)
(* current state of the next step.  What a proposer may write into the new *)
(* state is bounded by constants.                                          *)
(***************************************************************************)
EXTENDS StateChecker

CONSTANTS
    Numbers,         \* what an input file has for the state of a task
    Moves,           \* pairs <<old, new>> of task states that proposers try,
    MaxChanges,      \*   in at most so many tasks at once
    VariableValues,  \* what they write into a variable,
    MessageValues,   \*   a message slot
    BalanceValues,   \*   or a balance,
    Amounts,         \* the deposits and withdrawals they ask for,
    Randomness,      \* and the salts they draw
    Upstream         \* pairs <<a, b>>: a is before b on a lane without gateways

\* From the start event to b there are only executables, and each of those
\* in front of b is upstream of it.
UpstreamAssumption ==
    /\ Upstream \subseteq Executable \X Executable
    /\ \A u \in Upstream :
          LET a == u[1]
              b == u[2]
          IN /\ ~IsStartFed(b)
             /\ IncomingNode(b) \in Executable
             /\ IncomingNode(b) = a \/ <<a, IncomingNode(b)>> \in Upstream
             /\ \/ IsStartFed(a)
                \/ /\ IncomingNode(a) \in Executable
                   /\ <<IncomingNode(a), b>> \in Upstream

\* An input file has field elements, and there is a largest that is tried.
NumbersInField ==
    /\ FieldPrime \in Nat \ {0}
    /\ Numbers \subseteq Field
    /\ \E m \in Numbers : \A d \in Numbers : d =< m

ASSUME GraphAssumption == WellFormed
ASSUME NumbersAssumption == NumbersInField
ASSUME LaneAssumption == UpstreamAssumption
ASSUME ValueAssumption == 0 \in MessageValues \cap BalanceValues

VARIABLE state

vars == <<state>>

(***************************************************************************)
(* The circuit gives a task behind a start event no way to become READY:   *)
(* the deployed state, like those in models/*.json, has it under way.      *)
(***************************************************************************)
Init ==
    /\ \E started \in [{t \in Executable : IsStartFed(t)} -> InFlight],
          values \in [Slot -> VariableValues], r \in Randomness :
          state = [states |-> [t \in Executable |->
                                  IF IsStartFed(t) THEN started[t] ELSE INACTIVE],
                   vars   |-> values,
                   msgs   |-> [m \in Message |-> 0],
                   bals   |-> [p \in Participant |-> 0],
                   rand   |-> r]

Largest == CHOOSE m \in Numbers : \A d \in Numbers : d =< m
MaxSum == Compress([i \in DOMAIN GetExecutableNodes |-> Largest])

\* Every sum of numbers that is the packed number in the field.
Sums(packed) == {packed + k * FieldPrime : k \in 0..(MaxSum \div FieldPrime)}

\* The states with the hash of s: the packed number has been read as any numbers
\* that add up to it.
Openings(s) ==
    {[states |-> [t \in Executable |-> q[Place[t]]],
      vars |-> s.vars, msgs |-> s.msgs, bals |-> s.bals, rand |-> s.rand] :
        q \in UNION {Summing(Numbers, Len(GetExecutableNodes), sum) :
                        sum \in Sums(CompressToFieldElement(States(s)))}}

Targets(s) == {m[2] : m \in {m \in Moves : m[1] = s}}

\* Every way of making Moves in at most MaxChanges tasks.
Proposals(curr) ==
    LET Choices(changed) ==
          {f \in [changed -> UNION {Targets(curr[t]) : t \in changed}] :
              \A t \in changed : <<curr[t], f[t]>> \in Moves}
    IN {[t \in Executable |-> IF t \in DOMAIN f THEN f[t] ELSE curr[t]] :
           f \in UNION {Choices(c) :
                    c \in {c \in SUBSET {t \in Executable : Targets(curr[t]) # {}} :
                             Cardinality(c) <= MaxChanges}}}

\* Task states that the circuit does not reject at once.
TaskChanges(curr) ==
    {s \in Proposals(curr.states) :
        Stage1([curr |-> curr, new |-> [states |-> s]])}

\* The witnesses that a participant's input file can be filled in to.
Witnesses(curr) ==
    [curr : {curr},
     new  : [states : TaskChanges(curr),
             vars   : [Slot -> VariableValues],
             msgs   : [Message -> MessageValues],
             bals   : [Participant -> BalanceValues],
             rand   : Randomness],
     key  : {Graph.key[p] : p \in Participant},
     deposit : Amounts, withdrawal : Amounts]

Step ==
    \E curr \in Openings(state) : \E w \in Witnesses(curr) :
        Accepts(w) /\ state' = w.new

Next == Step

Spec == Init /\ [][Next]_vars
-----------------------------------------------------------------------------
\* Provers write four bits for a task's state, and four bits for each task fit
\* into a field element: then a hash has one opening. The circuit asks for
\* neither.
FourBits ==
    /\ Numbers = 0..15
    /\ Compress([i \in DOMAIN GetExecutableNodes |-> 15]) < FieldPrime

\* What the circuit keeps of a state: one lifecycle code per executable, and
\* values of the proposers in the other slots.
TypeOK ==
    state \in [states : [Executable -> TaskState],
               vars   : [Slot -> VariableValues],
               msgs   : [Message -> MessageValues],
               bals   : [Participant -> BalanceValues],
               rand   : Randomness]

st(t) == state.states[t]

\* On a lane without gateways the token is in one place: while a task is under
\* way (READY to COMPLETING), nothing after it has started, failures, resets
\* and compensations of finished tasks notwithstanding.
LaneInv == \A u \in Upstream : st(u[1]) \in InFlight => st(u[2]) = INACTIVE

\* A workflow whose lanes have no gateways and whose tasks all stopped (failed,
\* terminated, reset or completed) never moves a task back under way: the
\* lifecycle's way back to INACTIVE is not a way to try again.
Stopped == \A t \in Executable : st(t) \notin InFlight
StaysStopped == Stopped => Stopped'
StoppedForGood == [][StaysStopped]_vars

\* The executables that meet at the gateways in front of t, all of them behind
\* parallel joins, or one of them behind a join that is exclusive or inclusive.
Caused(t) ==
    LET before == GetPreviousNodes(t)
        joins == Traversed(t) \ {t}
    IN IF \E g \in joins : IsClusive(g)
       THEN \E p \in before : st(p) = COMPLETED
       ELSE \A p \in before : st(p) = COMPLETED

\* Nobody starts a task out of turn: while completed tasks are not reset, a task
\* that has started has its predecessors completed behind it.
NoTokenForged ==
    \A t \in Executable : st(t) # INACTIVE => IsStartFed(t) \/ Caused(t)

\* The gateway has passed its token on, through gateways if need be.
PassedOn(gateway) ==
    LET passed[g \in Gateway] ==
          LET Arrived(f) == IF f.dst \in Gateway THEN passed[f.dst]
                            ELSE Graph.type[f.dst] = "EndEvent" \/ st(f.dst) # INACTIVE
          IN IF IsClusive(g) THEN \E f \in Outgoing(g) : Arrived(f)
                             ELSE \A f \in Outgoing(g) : Arrived(f)
    IN passed[gateway]

\* No token is dropped: what follows a completed task has started, or waits at
\* a parallel join for another task.
NoTokenLost ==
    \A t \in Executable : st(t) = COMPLETED =>
        LET out == OutNode(t)
        IN /\ out \in Executable => st(out) # INACTIVE
           /\ out \in Gateway =>
                \/ PassedOn(out)
                \/ \E p \in GetPreviousNodes(out) :
                      ~IsClusive(out) /\ st(p) # COMPLETED

\* The next state of a task that goes on as planned.
Onward == [s \in InFlight |-> CASE s = READY      -> ACTIVE
                                [] s = ACTIVE     -> COMPLETING
                                [] s = COMPLETING -> COMPLETED]

\* No task under way is stuck: some proposal that takes it one state on is
\* accepted by the circuit, with values that its owner is free to choose.
NoTaskStuck ==
    \A t \in Executable : st(t) \in InFlight =>
        \E curr \in Openings(state) : \E w \in Witnesses(curr) :
            w.new.states[t] = Onward[st(t)] /\ Accepts(w)

\* The condition on a flow as its author reads it: variables by their names.
ConditionHolds(f, values) ==
    f.name = << >> \/
    Compare(f.name[2].value,
            values[CHOOSE i \in Slot : Graph.variables[i] = f.name[1].value],
            f.name[3].value)

\* When a task in front of an exclusive gateway between tasks completes, the step
\* starts one branch whose condition holds in the new state, and not two of
\* them; nothing keeps it from starting others whose condition is false.
OneTrueBranch ==
    [][\A t \in Executable :
         (/\ st(t) # COMPLETED /\ st(t)' = COMPLETED
          /\ Graph.type[OutNode(t)] = "ExclusiveGateway"
          /\ \A f \in Outgoing(OutNode(t)) : f.dst \in Executable) =>
         IsSingleton({f \in Outgoing(OutNode(t)) :
                        /\ st(f.dst) # READY /\ st(f.dst)' = READY
                        /\ ConditionHolds(f, state.vars')})]_vars

\* The digits of the committed number are states of tasks, as its readers take
\* them: numbers from 0 to 10.
DigitsAreStates ==
    LET digits == Decompress(Commit(state).packed)
    IN \A i \in DOMAIN digits : digits[i] \in TaskState
=============================================================================
