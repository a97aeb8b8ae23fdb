--------------------------- MODULE ContractProofs ---------------------------
(***************************************************************************)
(* Theorems about ModelContract, for every workflow and any number of      *)
(* clients: the contract refines Workflow, and its money is accounted for. *)
(***************************************************************************)
EXTENDS ModelContract, Lemmas

-----------------------------------------------------------------------------
(* What the contract's hash tells of the state that was proved.            *)

\* A state as an input file has it: numbers for the tasks, and the other parts.
Opened(s) ==
    /\ s = [states |-> [t \in W!Executable |-> s.states[t]],
            vars |-> s.vars, msgs |-> s.msgs, bals |-> s.bals, rand |-> s.rand]
    /\ \A t \in W!Executable : s.states[t] \in Numbers

LEMMA NumbersFacts ==
    /\ FieldPrime \in Nat \ {0} /\ Numbers \in SUBSET Nat
    /\ W!Largest \in Numbers /\ \A d \in Numbers : d =< W!Largest
<1>1. FieldPrime \in Nat \ {0} /\ Numbers \subseteq W!Field
      /\ \E m \in Numbers : \A d \in Numbers : d =< m
  BY ModelAssumption DEF W!NumbersInField
<1>2. W!Largest \in Numbers /\ \A d \in Numbers : d =< W!Largest
  BY <1>1 DEF W!Largest
<1>3. W!Field \subseteq Nat
  BY <1>1 DEF W!Field
<1> QED
  BY <1>1, <1>2, <1>3

\* The numbers of a state in the order of the executables.
LEMMA StatesFacts ==
    ASSUME NEW N, NEW s, s.states \in [W!Executable -> N]
    PROVE  /\ W!States(s) \in Seq(N) /\ Len(W!States(s)) = Len(W!GetExecutableNodes)
           /\ \A t \in W!Executable : W!States(s)[W!Place[t]] = s.states[t]
           /\ Len(W!GetExecutableNodes) \in Nat
           /\ DOMAIN W!GetExecutableNodes = 1..Len(W!GetExecutableNodes)
<1>1. W!GetExecutableNodes \in Seq(W!Executable)
  BY ModelAssumption DEF W!WellFormed, W!Listed
<1> DEFINE L == Len(W!GetExecutableNodes)
<1>2. L \in Nat /\ DOMAIN W!GetExecutableNodes = 1..L
      /\ \A i \in 1..L : W!GetExecutableNodes[i] \in W!Executable
  BY <1>1
<1>3. W!States(s) = [i \in 1..L |-> s.states[W!GetExecutableNodes[i]]]
  BY <1>2 DEF W!States
<1>4. W!States(s) \in [1..L -> N]
  BY <1>2, <1>3
<1>5. ASSUME NEW t \in W!Executable PROVE W!States(s)[W!Place[t]] = s.states[t]
  <2>1. \E i \in 1..L : W!GetExecutableNodes[i] = t
    BY <1>2, ModelAssumption DEF W!WellFormed, W!Listed
  <2>2. W!Place[t] \in 1..L /\ W!GetExecutableNodes[W!Place[t]] = t
    BY <2>1 DEF W!Place
  <2> QED
    BY <1>3, <2>2
<1> HIDE DEF L
<1>6. W!States(s) \in Seq(N) /\ Len(W!States(s)) = L
  BY <1>2, <1>4
<1> QED
  BY <1>2, <1>5, <1>6 DEF L

\* W's packing is that of the lemmas.
LEMMA SamePacking ==
    /\ \A q : W!Compress(q) = Compress(q)
    /\ \A N, n, v : W!Summing(N, n, v) = Summing(N, n, v)
BY DEF W!Compress, Compress, W!Summing, Summing

\* No opening has a greater sum than the largest.
LEMMA MaxSumFacts ==
    ASSUME NEW s, s.states \in [W!Executable -> Numbers]
    PROVE  /\ Compress(W!States(s)) \in Nat /\ W!MaxSum \in Nat
           /\ Compress(W!States(s)) =< W!MaxSum
<1> DEFINE L == Len(W!GetExecutableNodes)
           most == [i \in DOMAIN W!GetExecutableNodes |-> W!Largest]
<1>1. /\ W!States(s) \in Seq(Numbers) /\ Len(W!States(s)) = L
      /\ L \in Nat /\ DOMAIN W!GetExecutableNodes = 1..L
  BY StatesFacts
<1>2. most \in Seq(Nat) /\ Len(most) = L /\ \A i \in 1..L : most[i] = W!Largest
  <2>1. most \in [1..L -> Nat]
    BY <1>1, NumbersFacts
  <2> QED
    BY <1>1, <2>1
<1>3. W!States(s) \in Seq(Nat)
  BY <1>1, NumbersFacts, SeqMonotonic
<1>4. ASSUME NEW i \in 1..L PROVE W!States(s)[i] =< W!Largest
  <2>1. W!States(s)[i] \in Numbers
    BY <1>1
  <2> QED
    BY <2>1, NumbersFacts
<1> HIDE DEF most, L
<1>5. Compress(W!States(s)) =< Compress(most)
  BY <1>1, <1>2, <1>3, <1>4, CompressMonotone
<1>6. Compress(most) \in Nat /\ Compress(W!States(s)) \in Nat
  BY <1>2, <1>3, CompressType
<1> QED
  BY <1>5, <1>6, SamePacking DEF W!MaxSum, most

\* Task states are numbers, small or large.
Numbered(s) == s.states \in [W!Executable -> Nat]

\* Opening a hash gives a state as an input file has it.
LEMMA OpeningIsOpened ==
    ASSUME NEW s, Numbered(s), NEW curr \in W!Openings(s)
    PROVE  Opened(curr) /\ Numbered(curr)
<1> DEFINE L == Len(W!GetExecutableNodes)
<1>1. PICK sum \in W!Sums(W!CompressToFieldElement(W!States(s))) :
        \E q \in Summing(Numbers, L, sum) :
           curr = [states |-> [t \in W!Executable |-> q[W!Place[t]]],
                   vars |-> s.vars, msgs |-> s.msgs, bals |-> s.bals, rand |-> s.rand]
  BY SamePacking DEF W!Openings
<1>2. PICK q \in Summing(Numbers, L, sum) :
           curr = [states |-> [t \in W!Executable |-> q[W!Place[t]]],
                   vars |-> s.vars, msgs |-> s.msgs, bals |-> s.bals, rand |-> s.rand]
  BY <1>1
<1>3. W!States(s) \in Seq(Nat) /\ L \in Nat
  BY StatesFacts DEF Numbered
<1>4. Compress(W!States(s)) \in Nat
  BY <1>3, CompressType
<1>5. sum \in Nat
  <2>1. PICK k \in 0..(W!MaxSum \div FieldPrime) :
           sum = (Compress(W!States(s)) % FieldPrime) + k * FieldPrime
    BY <1>1, SamePacking DEF W!Sums, W!CompressToFieldElement
  <2>2. Compress(W!States(s)) % FieldPrime \in Nat
    BY <1>4, NumbersFacts, DivMod
  <2>3. k * FieldPrime \in Nat
    BY NumbersFacts
  <2> QED
    BY <2>1, <2>2, <2>3
<1>6. q \in Seq(Numbers) /\ Len(q) = L
  BY <1>3, <1>5, NumbersFacts, SummingMeans
<1>7. ASSUME NEW t \in W!Executable PROVE q[W!Place[t]] \in Numbers
  <2>1. \E i \in 1..L : W!GetExecutableNodes[i] = t
    BY ModelAssumption DEF W!WellFormed, W!Listed
  <2>2. W!Place[t] \in 1..L
    BY <2>1 DEF W!Place
  <2> QED
    BY <1>6, <2>2
<1>8. Opened(curr)
  BY <1>2, <1>7 DEF Opened
<1> QED
  BY <1>8, NumbersFacts DEF Opened, Numbered

\* A state that has the contract's hash is an opening of it.
LEMMA SameHashOpens ==
    ASSUME NEW curr, Opened(curr), W!Commit(curr) = W!Commit(committed)
    PROVE  curr \in W!Openings(committed)
<1> DEFINE q == W!States(curr)
           L == Len(W!GetExecutableNodes)
<1>1. curr.states \in [W!Executable -> Numbers]
  BY DEF Opened
<1>2. /\ q \in Seq(Numbers) /\ Len(q) = L /\ L \in Nat
      /\ \A t \in W!Executable : q[W!Place[t]] = curr.states[t]
  BY <1>1, StatesFacts
<1>3. Compress(q) =< W!MaxSum /\ W!MaxSum \in Nat
  BY <1>1, MaxSumFacts
<1>4. W!CompressToFieldElement(W!States(committed)) = Compress(q) % FieldPrime
  BY SamePacking DEF W!Commit, W!CompressToFieldElement
<1> HIDE DEF q, L
<1>5. PICK k \in 0..(W!MaxSum \div FieldPrime) :
         q \in Summing(Numbers, L, (Compress(q) % FieldPrime) + k * FieldPrime)
  BY <1>2, <1>3, NumbersFacts, SumListed
<1>6. curr = [states |-> [t \in W!Executable |-> q[W!Place[t]]],
              vars |-> committed.vars, msgs |-> committed.msgs,
              bals |-> committed.bals, rand |-> committed.rand]
  <2>1. curr.states = [t \in W!Executable |-> q[W!Place[t]]]
    BY <1>1, <1>2
  <2>2. /\ curr.vars = committed.vars /\ curr.msgs = committed.msgs
        /\ curr.bals = committed.bals /\ curr.rand = committed.rand
    BY DEF W!Commit
  <2> QED
    BY <2>1, <2>2 DEF Opened
<1> QED
  BY <1>4, <1>5, <1>6, SamePacking DEF W!Openings, W!Sums, L

\* With four bits for each task, it is the committed state.
LEMMA OneOpening ==
    ASSUME W!FourBits, W!TypeOK, NEW curr, Opened(curr),
           W!Commit(curr) = W!Commit(committed)
    PROVE  curr = committed
<1> DEFINE q == W!States(curr)
           r == W!States(committed)
           most == [i \in DOMAIN W!GetExecutableNodes |-> 15]
<1>1. Numbers = 0..15 /\ W!Compress(most) < FieldPrime
  BY DEF W!FourBits
<1>2. W!MaxSum < FieldPrime
  <2>1. \A m \in 0..15 : (\A d \in 0..15 : d =< m) => m = 15
    OBVIOUS
  <2>2. W!Largest = 15
    BY <1>1, <2>1, NumbersFacts
  <2> QED
    BY <1>1, <2>2 DEF W!MaxSum
<1>3. curr.states \in [W!Executable -> Numbers]
  BY DEF Opened
<1>4. committed.states \in [W!Executable -> Numbers]
  <2>1. W!TaskState \subseteq Numbers
    BY <1>1 DEF W!TaskState
  <2>2. committed.states \in [W!Executable -> W!TaskState]
    BY DEF W!TypeOK
  <2> QED
    BY <2>1, <2>2
<1>5. /\ q \in Seq(0..15) /\ r \in Seq(0..15) /\ Len(q) = Len(r)
      /\ \A t \in W!Executable : q[W!Place[t]] = curr.states[t]
      /\ \A t \in W!Executable : r[W!Place[t]] = committed.states[t]
  <2>1. /\ q \in Seq(Numbers) /\ Len(q) = Len(W!GetExecutableNodes)
        /\ \A t \in W!Executable : q[W!Place[t]] = curr.states[t]
    BY <1>3, StatesFacts
  <2>2. /\ r \in Seq(Numbers) /\ Len(r) = Len(W!GetExecutableNodes)
        /\ \A t \in W!Executable : r[W!Place[t]] = committed.states[t]
    BY <1>4, StatesFacts
  <2> HIDE DEF q, r
  <2> QED
    BY <1>1, <2>1, <2>2
<1>6. Compress(q) % FieldPrime = Compress(r) % FieldPrime
  BY SamePacking DEF W!Commit, W!CompressToFieldElement
<1>7. /\ Compress(q) \in Nat /\ Compress(q) < FieldPrime
      /\ Compress(r) \in Nat /\ Compress(r) < FieldPrime
  BY <1>2, <1>3, <1>4, MaxSumFacts, NumbersFacts
<1> HIDE DEF q, r
<1>8. Compress(q) = Compress(r)
  BY <1>6, <1>7, NumbersFacts, DivLess
<1>9. q = r
  BY <1>5, <1>8, CompressInjective
<1>10. curr.states = committed.states
  BY <1>3, <1>4, <1>5, <1>9
<1> QED
  BY <1>10 DEF Opened, W!TypeOK, W!Commit
-----------------------------------------------------------------------------
(* What is on its way to the contract.                                     *)

\* Whatever is on its way was accepted by the circuit, as a step from the state
\* it names as current.
PendingInv ==
    \A c \in Client : pending[c] # NoTx =>
        LET w == pending[c].witness
        IN /\ Opened(w.curr) /\ Numbered(w.new)
           /\ w \in W!Witnesses(w.curr)
           /\ W!Accepts(w)
           /\ pending[c].value \in TxValues

\* The states that clients start from are made of numbers.
NumberedInv == Numbered(committed) /\ \A c \in Client : Numbered(view[c])

\* Every client has a slot for a transaction.
Pendings == pending \in [Client -> {pending[c] : c \in Client}]

\* The circuit's lifecycle codes are numbers, and a task that does not move keeps
\* the number it was opened with.
LEMMA AcceptedIsNumbered ==
    ASSUME NEW w, w \in W!Witnesses(w.curr), Opened(w.curr), W!Accepts(w)
    PROVE  Numbered(w.new)
<1>1. w.new.states \in W!Proposals(w.curr.states)
  BY DEF W!Witnesses, W!TaskChanges
<1>2. PICK g : w.new.states = [t \in W!Executable |->
                                 IF t \in DOMAIN g THEN g[t] ELSE w.curr.states[t]]
  BY <1>1 DEF W!Proposals
<1>3. w.new.states = [t \in W!Executable |-> w.new.states[t]]
  BY <1>2
<1>4. ASSUME NEW t \in W!Executable PROVE w.new.states[t] \in Nat
  <2>1. \/ w.curr.states[t] = w.new.states[t]
        \/ W!LifecycleCheck(w.curr.states[t], w.new.states[t])
    BY DEF W!Accepts, W!Stage1, W!Same
  <2>2. w.curr.states[t] \in Nat
    BY NumbersFacts DEF Opened
  <2> QED
    BY <2>1, <2>2 DEF W!LifecycleCheck, W!INACTIVE, W!READY,
       W!ACTIVE, W!COMPLETING, W!FAILING, W!TERMINATING, W!COMPENSATING,
       W!TERMINATED, W!COMPENSATED, W!FAILED, W!COMPLETED
<1> QED
  BY <1>3, <1>4 DEF Numbered

FlightInv == PendingInv /\ Pendings /\ NumberedInv

\* Sending puts an accepted witness on its way; everything else only removes one.
LEMMA FlightStep == FlightInv /\ [Next]_vars => FlightInv'
<1> USE DEF FlightInv
<1>1. ASSUME FlightInv, NEW c \in Client, Send(c) PROVE FlightInv'
  <2>1. PICK curr \in W!Openings(view[c]) : \E w \in W!Witnesses(curr), v \in TxValues :
          /\ W!Accepts(w)
          /\ pending' = [pending EXCEPT ![c] = [witness |-> w, value |-> v]]
          /\ view' = [view EXCEPT ![c] = w.new]
    BY <1>1 DEF Send
  <2>2. PICK w \in W!Witnesses(curr), v \in TxValues :
          /\ W!Accepts(w)
          /\ pending' = [pending EXCEPT ![c] = [witness |-> w, value |-> v]]
          /\ view' = [view EXCEPT ![c] = w.new]
    BY <2>1
  <2>3. w.curr = curr
    BY DEF W!Witnesses
  <2>4. Opened(curr)
    BY <1>1, OpeningIsOpened DEF NumberedInv
  <2>5. Numbered(w.new)
    BY <2>2, <2>3, <2>4, AcceptedIsNumbered
  <2>6. UNCHANGED committed
    BY <1>1 DEF Send
  <2>7. PendingInv'
    BY <1>1, <2>2, <2>3, <2>4, <2>5 DEF PendingInv, Pendings, Opened, Numbered
  <2>8. Pendings'
    BY <1>1, <2>2 DEF Pendings
  <2>9. NumberedInv'
    BY <1>1, <2>2, <2>5, <2>6 DEF NumberedInv, Numbered
  <2> QED
    BY <2>7, <2>8, <2>9
<1>2. ASSUME FlightInv, NEW c \in Client, Update(c) PROVE FlightInv'
  <2>1. /\ committed' = pending[c].witness.new /\ pending[c] # NoTx
        /\ pending' = [pending EXCEPT ![c] = NoTx] /\ UNCHANGED view
    BY <1>2 DEF Update
  <2>2. PendingInv' /\ Pendings'
    BY <1>2, <2>1 DEF PendingInv, Pendings, Opened, Numbered
  <2>3. Numbered(pending[c].witness.new)
    BY <1>2, <2>1 DEF PendingInv
  <2> QED
    BY <1>2, <2>1, <2>2, <2>3 DEF NumberedInv, Numbered
<1>3. ASSUME FlightInv, NEW c \in Client, Revert(c) PROVE FlightInv'
  <2>1. pending' = [pending EXCEPT ![c] = NoTx] /\ UNCHANGED <<committed, view>>
    BY <1>3 DEF Revert
  <2> QED
    BY <1>3, <2>1 DEF PendingInv, Pendings, NumberedInv, Opened, Numbered
<1>4. ASSUME FlightInv, NEW c \in Client, GetState(c) PROVE FlightInv'
  <2>1. view' = [view EXCEPT ![c] = committed] /\ UNCHANGED <<committed, pending>>
    BY <1>4 DEF GetState
  <2> QED
    BY <1>4, <2>1 DEF PendingInv, Pendings, NumberedInv, Opened, Numbered
<1>5. ASSUME FlightInv, UNCHANGED vars PROVE FlightInv'
  BY <1>5 DEF vars, PendingInv, Pendings, NumberedInv, Opened, Numbered
<1> QED
  BY <1>1, <1>2, <1>3, <1>4, <1>5 DEF Next

\* All of this is invariant.
LEMMA FlightCorrect == Spec => []FlightInv
<1>1. Init => FlightInv
  <2>1. ASSUME Init PROVE Numbered(committed)
    <3>0. W!Init
      BY <2>1 DEF Init
    <3>1. PICK started \in [{t \in W!Executable : W!IsStartFed(t)} -> W!InFlight],
               values \in [W!Slot -> VariableValues], r \in Randomness :
             committed = [states |-> [t \in W!Executable |->
                                        IF W!IsStartFed(t) THEN started[t]
                                                           ELSE W!INACTIVE],
                          vars   |-> values,
                          msgs   |-> [m \in W!Message |-> 0],
                          bals   |-> [p \in W!Participant |-> 0],
                          rand   |-> r]
      BY <3>0, Zenon DEF W!Init
    <3>2. W!InFlight \subseteq Nat /\ W!INACTIVE \in Nat
      BY DEF W!InFlight, W!INACTIVE, W!READY, W!ACTIVE, W!COMPLETING
    <3>3. committed.states = [t \in W!Executable |->
                                IF W!IsStartFed(t) THEN started[t] ELSE W!INACTIVE]
      BY <3>1
    <3>4. ASSUME NEW t \in W!Executable
          PROVE  (IF W!IsStartFed(t) THEN started[t] ELSE W!INACTIVE) \in Nat
      BY <3>2
    <3> QED
      BY <3>3, <3>4 DEF Numbered
  <2> QED
    BY <2>1 DEF Init, FlightInv, PendingInv, Pendings, NumberedInv, Numbered
<1> QED
  BY <1>1, FlightStep, PTL DEF Spec

\* What an update takes is a witness for the committed hash: another opening of
\* it, if not the state itself.
LEMMA UpdateTakes ==
    ASSUME PendingInv, NEW c \in Client, Update(c)
    PROVE  LET w == pending[c].witness
           IN /\ w.curr \in W!Openings(committed) /\ Opened(w.curr)
              /\ w \in W!Witnesses(w.curr) /\ W!Accepts(w)
              /\ W!Commit(w.curr) = W!Commit(committed)
              /\ w.curr.bals = committed.bals /\ committed' = w.new
<1> DEFINE w == pending[c].witness
<1>1. /\ Opened(w.curr) /\ w \in W!Witnesses(w.curr) /\ W!Accepts(w)
  BY DEF PendingInv, Update
<1>2. W!Commit(w.curr) = W!Commit(committed) /\ committed' = w.new
  BY DEF Update, UpdateSucceeds, W!HashCurr
<1>3. w.curr.bals = committed.bals
  BY <1>2 DEF W!Commit
<1> HIDE DEF w
<1>4. w.curr \in W!Openings(committed)
  BY <1>1, <1>2, SameHashOpens
<1> QED
  BY <1>1, <1>2, <1>3, <1>4 DEF w

\* An update is a step of the workflow; nothing else touches the contract's state.
LEMMA UpdateIsStep ==
    ASSUME PendingInv, NEW c \in Client, Update(c)
    PROVE  W!Next
BY UpdateTakes DEF W!Next, W!Step

\* For every workflow, any number of clients, whatever stale or speculative states
\* they prove from and however they open a hash: the contract implements the
\* workflow.
THEOREM ContractImplementsWorkflow == Spec => OneExecution
<1>1. Init => W!Init
  BY DEF Init
<1>2. FlightInv /\ [Next]_vars => [W!Next]_(W!vars)
  <2>1. ASSUME PendingInv, NEW c \in Client, Update(c) PROVE W!Next
    BY <2>1, UpdateIsStep
  <2>2. QED
    BY <2>1 DEF FlightInv, Next, Send, Revert, GetState, vars, W!vars
<1>3. QED
  BY <1>1, <1>2, FlightCorrect, PTL DEF Spec, OneExecution, W!Spec
-----------------------------------------------------------------------------
\* What the circuit lets a committed state become has its shape: the values are
\* the proposers', and the lifecycle keeps the task states in its codes.
LEMMA UpdateType ==
    ASSUME W!FourBits, W!TypeOK, PendingInv, NEW c \in Client, Update(c)
    PROVE  W!TypeOK'
<1> DEFINE w == pending[c].witness
<1>0. w.curr = committed
  <2>1. Opened(w.curr) /\ W!Commit(w.curr) = W!Commit(committed)
    BY UpdateTakes
  <2> HIDE DEF w
  <2> QED
    BY <2>1, OneOpening
<1>1. /\ w \in W!Witnesses(committed) /\ W!Stage1(w) /\ committed' = w.new
  BY <1>0, UpdateTakes DEF W!Accepts
<1>2. /\ w.curr = committed
      /\ w.new \in [states : W!TaskChanges(committed),
                    vars   : [W!Slot -> VariableValues],
                    msgs   : [W!Message -> MessageValues],
                    bals   : [W!Participant -> BalanceValues],
                    rand   : Randomness]
  BY <1>1 DEF W!Witnesses
<1>3. PICK f : w.new.states = [t \in W!Executable |-> f[t]]
  <2>1. w.new.states \in W!Proposals(committed.states)
    BY <1>2 DEF W!TaskChanges
  <2>2. PICK g : w.new.states = [t \in W!Executable |->
                                   IF t \in DOMAIN g THEN g[t] ELSE committed.states[t]]
    BY <2>1 DEF W!Proposals
  <2>3. w.new.states = [t \in W!Executable |-> w.new.states[t]]
    BY <2>2
  <2> QED
    BY <2>3
<1>4. ASSUME NEW t \in W!Executable PROVE f[t] \in W!TaskState
  <2>1. committed.states[t] \in W!TaskState /\ w.new.states[t] = f[t]
    BY <1>3 DEF W!TypeOK
  <2>2. \/ w.curr.states[t] = w.new.states[t]
        \/ W!LifecycleCheck(w.curr.states[t], w.new.states[t])
    BY <1>1 DEF W!Stage1, W!Same
  <2>3. QED
    BY <1>2, <2>1, <2>2 DEF W!LifecycleCheck, W!TaskState, W!INACTIVE, W!READY,
       W!ACTIVE, W!COMPLETING, W!FAILING, W!TERMINATING, W!COMPENSATING,
       W!TERMINATED, W!COMPENSATED, W!FAILED, W!COMPLETED
<1>5. w.new.states \in [W!Executable -> W!TaskState]
  BY <1>3, <1>4
<1>6. QED
  BY <1>1, <1>2, <1>5 DEF W!TypeOK

-----------------------------------------------------------------------------
\* The remainder of a number less than one modulus away from the field.
LEMMA ModFacts ==
    ASSUME NEW x \in Int
    PROVE  /\ 0 =< x /\ x < FieldPrime => x % FieldPrime = x
           /\ 0 - FieldPrime =< x /\ x < 0 => x % FieldPrime = x + FieldPrime
BY EtherAssumption

\* One new balance cannot be both that of a deposit and that of a withdrawal.
LEMMA NotBoth ==
    ASSUME NEW f \in Nat, NEW d \in Nat \ {0}, NEW x \in Nat \ {0},
           f + d < FieldPrime, d + x < FieldPrime, x =< f + d
    PROVE  (f + d) % FieldPrime # (f - x) % FieldPrime
<1>1. FieldPrime \in Nat
  BY EtherAssumption
<1>2. (f + d) % FieldPrime = f + d
  BY <1>1, ModFacts
<1>3. CASE f - x >= 0
  <2>1. (f - x) % FieldPrime = f - x
    BY <1>1, <1>3, ModFacts
  <2>2. QED
    BY <1>2, <2>1
<1>4. CASE f - x < 0
  <2>1. f - x \in Int /\ 0 - FieldPrime =< f - x
    BY <1>1
  <2>2. (f - x) % FieldPrime = (f - x) + FieldPrime
    BY <1>4, <2>1, ModFacts
  <2>3. QED
    BY <1>1, <1>2, <2>2
<1>5. QED
  BY <1>3, <1>4

\* The accounts match and the contract's money is part of all the money.
AccountsInv == AccountsMatch /\ funds \in 0..Ether

\* An update moves the prover's balance and the contract's money by the same
\* amounts, in spite of the field's arithmetic, and touches no other balance.
LEMMA AccountsUpdate ==
    ASSUME AccountsInv, PendingInv, NEW c \in Client, Update(c)
    PROVE  AccountsInv'
<1> DEFINE me == W!ParticipantIndex
<1>1. PICK w :
      /\ w \in W!Witnesses(w.curr) /\ W!CheckPayments(w)
      /\ committed' = w.new /\ w.curr.bals = committed.bals
      /\ w.deposit = pending[c].value /\ pending[c].value \in TxValues
      /\ funds + w.deposit =< Ether /\ w.withdrawal =< funds + w.deposit
      /\ funds' = funds + w.deposit - w.withdrawal
  BY UpdateTakes DEF PendingInv, Update, UpdateSucceeds, W!Accepts
<1>2. /\ w.deposit \in Amounts /\ w.withdrawal \in Amounts
      /\ w.new.bals = [p \in W!Participant |-> w.new.bals[p]]
  BY <1>1 DEF W!Witnesses
<1>3. /\ funds \in Int /\ w.deposit \in Nat /\ w.withdrawal \in Nat
      /\ Ether \in Nat /\ FieldPrime \in Nat /\ Ether < FieldPrime
      /\ w.deposit + w.withdrawal < FieldPrime /\ 0 =< funds /\ funds =< Ether
  <2>1. funds \in Nat /\ funds =< Ether
    BY EtherAssumption DEF AccountsInv
  <2>2. w.deposit \in Nat /\ w.withdrawal \in Nat
    <3>1. w.deposit \in Amounts /\ w.withdrawal \in Amounts
      BY <1>2
    <3>2. \A d \in Amounts : d \in Nat
      BY EtherAssumption
    <3>3. QED
      BY <3>1, <3>2
  <2>3. w.deposit + w.withdrawal < FieldPrime
    BY <1>2, EtherAssumption
  <2>4. QED
    BY <2>1, <2>2, <2>3, EtherAssumption
<1>4. funds' \in 0..Ether
  BY <1>1, <1>3
<1>5. ASSUME NEW p \in W!Participant, p # me PROVE w.new.bals[p] = 0
  BY <1>1, <1>5 DEF AccountsInv, AccountsMatch, W!CheckPayments
<1>6. ASSUME me \in W!Participant PROVE w.new.bals[me] = funds'
  <2>1. w.curr.bals[me] = funds
    BY <1>1, <1>6 DEF AccountsInv, AccountsMatch
  <2>2. CASE w.deposit = 0 /\ w.withdrawal = 0
    BY <1>1, <1>3, <1>6, <2>1, <2>2 DEF W!CheckPayments
  <2>3. CASE w.deposit # 0 /\ w.withdrawal = 0
    BY <1>1, <1>3, <2>1, <2>3, ModFacts DEF W!CheckPayments
  <2>4. CASE w.deposit = 0 /\ w.withdrawal # 0
    BY <1>1, <1>3, <2>1, <2>4, ModFacts DEF W!CheckPayments
  <2>5. CASE w.deposit # 0 /\ w.withdrawal # 0
    <3>1. (funds + w.deposit) % FieldPrime = (funds - w.withdrawal) % FieldPrime
      BY <1>1, <2>1, <2>5 DEF W!CheckPayments
    <3>2. /\ funds \in Nat /\ w.deposit \in Nat \ {0} /\ w.withdrawal \in Nat \ {0}
          /\ funds + w.deposit < FieldPrime /\ w.withdrawal =< funds + w.deposit
          /\ w.deposit + w.withdrawal < FieldPrime
      BY <1>1, <1>3, <2>5
    <3>3. QED
      BY <3>1, <3>2, NotBoth
  <2>6. QED
    BY <2>2, <2>3, <2>4, <2>5
<1>7. QED
  BY <1>1, <1>2, <1>4, <1>5, <1>6 DEF AccountsInv, AccountsMatch

\* In every state the balances of the committed state are the contract's money.
THEOREM AccountsCorrect == Spec => []AccountsMatch
<1>1. Init => AccountsInv
  BY EtherAssumption DEF Init, W!Init, AccountsInv, AccountsMatch
<1>2. AccountsInv /\ PendingInv /\ [Next]_vars => AccountsInv'
  <2>1. ASSUME AccountsInv, UNCHANGED <<committed, funds>> PROVE AccountsInv'
    BY <2>1 DEF AccountsInv, AccountsMatch
  <2>2. QED
    BY <2>1, AccountsUpdate DEF Next, Send, Revert, GetState, vars
<1>3. AccountsInv => AccountsMatch
  BY DEF AccountsInv
<1>4. QED
  BY <1>1, <1>2, <1>3, FlightCorrect, PTL DEF Spec, FlightInv

\* Whatever the clients send and in whichever order it is mined, as long as they
\* write four bits for each task: the committed state keeps the circuit's shape,
\* the contract's account is never overdrawn, and a transaction carries a witness
\* of a step.
THEOREM TypeCorrect ==
    ASSUME W!FourBits, 0 \in MessageValues, 0 \in BalanceValues
    PROVE  Spec => []TypeOK
<1> DEFINE Inv == W!TypeOK /\ AccountsInv
<1>1. Init => Inv
  <2>1. Init => W!TypeOK
    BY DEF Init, W!Init, W!TypeOK, W!InFlight, W!TaskState, W!INACTIVE, W!READY,
       W!ACTIVE, W!COMPLETING
  <2>2. Init => AccountsInv
    BY EtherAssumption DEF Init, W!Init, AccountsInv, AccountsMatch
  <2>3. QED
    BY <2>1, <2>2
<1>2. Inv /\ PendingInv /\ [Next]_vars => Inv'
  <2>1. ASSUME Inv, PendingInv, NEW c \in Client, Update(c) PROVE Inv'
    BY <2>1, UpdateType, AccountsUpdate
  <2>2. ASSUME Inv, UNCHANGED <<committed, funds>> PROVE Inv'
    BY <2>2 DEF AccountsInv, AccountsMatch, W!TypeOK
  <2>3. QED
    BY <2>1, <2>2 DEF Next, Send, Revert, GetState, vars
<1>3. Inv /\ PendingInv => TypeOK
  BY DEF AccountsInv, PendingInv, TypeOK
<1>4. QED
  BY <1>1, <1>2, <1>3, FlightCorrect, PTL DEF Spec, FlightInv

\* The contract has no money.
Empty == funds = 0

\* Without a value sent along, the account stays empty: what is withdrawn has to
\* have been paid in.
LEMMA NoFundsUpdate ==
    ASSUME TxValues = {0}, Empty, PendingInv, NEW c \in Client, Update(c)
    PROVE  Empty'
<1> DEFINE w == pending[c].witness
<1>1. /\ w \in W!Witnesses(w.curr) /\ pending[c].value = 0
      /\ w.withdrawal =< funds + pending[c].value
      /\ funds' = funds + pending[c].value - w.withdrawal
  BY DEF PendingInv, Update, UpdateSucceeds
<1>2. w.withdrawal \in Amounts
  BY <1>1 DEF W!Witnesses
<1>3. w.withdrawal \in 0..Ether
  BY <1>2, EtherAssumption
<1>4. w.withdrawal \in Nat
  BY <1>3, EtherAssumption
<1>5. QED
  BY <1>1, <1>4 DEF Empty

\* As long as clients send what CreateAuth of the command line sends, no value,
\* nobody ever has a balance: the payments of a workflow cannot be made with it.
THEOREM NothingEverPaid ==
    ASSUME TxValues = {0}
    PROVE  Spec => []NothingPaid
<1>1. Init => Empty
  BY DEF Init, Empty
<1>2. Empty /\ PendingInv /\ [Next]_vars => Empty'
  <2>1. ASSUME Empty, UNCHANGED funds PROVE Empty'
    BY <2>1 DEF Empty
  <2>2. QED
    BY <2>1, NoFundsUpdate DEF Next, Send, Revert, GetState, vars
<1>3. Empty /\ AccountsMatch => NothingPaid
  BY DEF AccountsMatch, Empty, NothingPaid
<1>4. QED
  BY <1>1, <1>2, <1>3, FlightCorrect, AccountsCorrect, PTL DEF Spec, FlightInv
=============================================================================
