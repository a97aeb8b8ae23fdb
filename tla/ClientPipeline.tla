--------------------------- MODULE ClientPipeline ---------------------------
(***************************************************************************)
(* One participant's way from an input file to the contract, command by    *)
(* command: fill-inputs, deploy-model, witness, prove, step, each of them  *)
(* a process of its own that leaves files behind, and get-state for who    *)
(* wants to read the result.  The maps of the input file are listed in the *)
(* order of Go's map iteration, drawn anew for each listing.               *)
(***************************************************************************)
EXTENDS Packing, GmimcRounds, SequencesExt

CONSTANTS
    Variables, Messages, Balances,  \* the names in the three maps of a state
    Maps,         \* what their values may be, by name
    Steps,        \* pairs of lists of task states that the circuit accepts
    Salts,        \* what generateSalt draws from; 0 is the salt not drawn yet
    MaxPending    \* transactions of this client in flight

Names == Variables \cup Messages \cup Balances

ASSUME NamesAssumption ==
    IsFiniteSet(Variables) /\ IsFiniteSet(Messages) /\ IsFiniteSet(Balances)
\* The numbers of an input file may be any: neither the client nor the circuit
\* keeps them to four bits. More tasks than fit into a number are refused.
ASSUME StepsAssumption ==
    /\ Steps \subseteq Seq(Nat) \X Seq(Nat)
    /\ \A s \in Steps : Len(s[1]) =< MaxStates /\ Len(s[2]) =< MaxStates
ASSUME SaltsAssumption == Salts \subseteq Nat \ {0}
ASSUME MapsAssumption == \A map \in Maps : DOMAIN map = Names

VARIABLES
    step,      \* the command that comes next
    input,     \* the input file
    witness,   \* full.wtns and public.wtns, with the states they are about
    proof,     \* proof.bin, which is for the witness it holds
    pending,   \* transactions sent and not mined, by their nonces
    contract,  \* hash and encrypted state of the contract, and
               \*   the states behind them (history)
    drawn,     \* salts that were drawn
    taken      \* history: the public inputs that the contract took

vars == <<step, input, witness, proof, pending, contract, drawn, taken>>

None == [none |-> TRUE]

-----------------------------------------------------------------------------
\* How many numbers a packed state has: the branches of the cipher.
EncryptionLen == 2 + Cardinality(Variables) + Cardinality(Messages)
                   + Cardinality(Balances)

\* The orders in which range may visit the three maps, one after the other.
Orders == {v \o m \o b : v \in SetToSeqs(Variables), m \in SetToSeqs(Messages),
                         b \in SetToSeqs(Balances)}

\* compressState; its hash is modelled by what is hashed.
Packed(s, order) == <<Compress(s.states), s.salt>>
                      \o [i \in 1..Len(order) |-> s.map[order[i]]]

Packings(s) == {Packed(s, order) : order \in Orders}

\* The key that Hkdf derives from the participants' secret and two salts.
Hkdf(r1, r2) == <<r1, r2>>

\* EncryptBig, when fill-inputs encrypts the new state.
Sealed(curr, new, packed) == [key |-> Hkdf(curr.salt, new.salt), data |-> packed]

\* Variant: with the salts in the other order.
CircuitSealedBackwards(curr, new, packed) ==
    [key |-> Hkdf(new.salt, curr.salt), data |-> packed]

\* The same in the circuit.
CircuitSealed(curr, new, packed) == [key |-> Hkdf(curr.salt, new.salt), data |-> packed]

\* Decryption undoes an odd number of rounds only; else it yields other numbers.
Undone == GetGMiMCRounds(EncryptionLen) % 2 = 1

\* Variant: with the salts in the other order.
GetStateBackwards(cipher, r1, r2) ==
    IF Undone /\ cipher.key = Hkdf(r2, r1) THEN cipher.data ELSE << >>

\* What get-state decrypts with two salts it is told; << >> stands for numbers
\* that nobody sealed.
GetState(cipher, r1, r2) ==
    IF Undone /\ cipher.key = Hkdf(r1, r2) THEN cipher.data ELSE << >>

\* Variant: salts may come again.
GenerateSaltAgain(used) == Salts

\* So many bytes are drawn that no salt comes twice; which comes is no matter.
GenerateSalt(used) == {r \in Salts \ used : \A q \in Salts \ used : r =< q}

\* A salt other than 0 in the input file is kept.
SaltOf(s, used) == IF s.salt = 0 THEN GenerateSalt(used) ELSE {s.salt}

-----------------------------------------------------------------------------
\* The input file as its author writes it, both salts 0.
Prepared(curr, tasks, map) ==
    [curr |-> curr, new |-> [states |-> tasks, map |-> map, salt |-> 0],
     hashCurr |-> << >>, hashNew |-> << >>, encrypted |-> None]

Init ==
    /\ step = "fill"
    /\ \E s \in Steps, before, after \in Maps :
          input = Prepared([states |-> s[1], map |-> before, salt |-> 0], s[2], after)
    /\ witness = None /\ proof = None
    /\ pending = << >>
    /\ contract = [hash |-> << >>, cipher |-> None, curr |-> None, new |-> None]
    /\ drawn = {}
    /\ taken = {}

\* EncryptBig looks up a constant for every round, and stops without one.
FillInputs ==
    /\ step = "fill"
    /\ GetGMiMCRounds(EncryptionLen) =< Tabled
    /\ \E r1 \in SaltOf(input.curr, drawn) : \E r2 \in SaltOf(input.new, drawn \cup {r1}),
          o1, o2 \in Orders :
          LET curr == [input.curr EXCEPT !.salt = r1]
              new == [input.new EXCEPT !.salt = r2]
              packed == Packed(new, o2)
          IN /\ input' = [curr |-> curr, new |-> new,
                          hashCurr |-> Packed(curr, o1), hashNew |-> packed,
                          encrypted |-> Sealed(curr, new, packed)]
             /\ drawn' = drawn \cup {r1, r2}
    /\ step' = IF contract.hash = << >> THEN "deploy" ELSE "witness"
    /\ UNCHANGED <<witness, proof, pending, contract, taken>>

\* deploy-model with the HashCurr that the first fill-inputs printed.
Deploy ==
    /\ step = "deploy"
    /\ contract' = [contract EXCEPT !.hash = input.hashCurr]
    /\ step' = "witness"
    /\ UNCHANGED <<input, witness, proof, pending, drawn, taken>>

\* The input file lists its maps in two orders of their own: the circuit is
\* satisfied if the hashes and the ciphertext in the file are of these lists.
Solved(o1, o2) ==
    /\ <<input.curr.states, input.new.states>> \in Steps
    /\ input.curr.salt # input.new.salt
    /\ Packed(input.curr, o1) = input.hashCurr
    /\ Packed(input.new, o2) = input.hashNew
    /\ CircuitSealed(input.curr, input.new, Packed(input.new, o2)) = input.encrypted

ComputeWitness ==
    /\ step = "witness"
    /\ \E o1, o2 \in Orders :
          IF Solved(o1, o2)
          THEN /\ witness' = [public |-> [hashCurr |-> input.hashCurr,
                                          hashNew |-> input.hashNew,
                                          encrypted |-> input.encrypted],
                              curr |-> input.curr, new |-> input.new]
               /\ step' = "prove"
          ELSE /\ step' \in {"witness", "fill"}
               /\ UNCHANGED witness
    /\ UNCHANGED <<input, proof, pending, contract, drawn, taken>>

Prove ==
    /\ step = "prove"
    /\ proof' = witness
    /\ step' = "send"
    /\ UNCHANGED <<input, witness, pending, contract, drawn, taken>>

\* The step command does not wait for its transaction; it may be run again.
StepModel ==
    /\ step \in {"send", "sent"}
    /\ Len(pending) < MaxPending
    /\ pending' = Append(pending, [proof |-> proof, public |-> witness.public])
    /\ step' = "sent"
    /\ UNCHANGED <<input, witness, proof, contract, drawn, taken>>

\* What Model.update requires: the stored hash is the proved current one.
UpdateSucceeds(tx) ==
    /\ tx.public.hashCurr = contract.hash
    /\ tx.proof.public = tx.public

\* The next transaction is mined: it replaces hash and ciphertext, or is reverted.
Mine ==
    /\ pending # << >>
    /\ pending' = Tail(pending)
    /\ LET tx == Head(pending)
       IN IF UpdateSucceeds(tx)
          THEN /\ contract' = [hash |-> tx.public.hashNew, cipher |-> tx.public.encrypted,
                               curr |-> tx.proof.curr, new |-> tx.proof.new]
               /\ taken' = taken \cup {tx.public}
          ELSE UNCHANGED <<contract, taken>>
    /\ UNCHANGED <<step, input, witness, proof, drawn>>

Arrived == contract.hash \in Packings(input.new)

\* No transaction changed the contract, or none has yet: fill in once more.
Retry ==
    /\ step = "sent" /\ ~Arrived
    /\ step' = "fill"
    /\ UNCHANGED <<input, witness, proof, pending, contract, drawn, taken>>

\* The new state is the current one of the next step.
Prepare ==
    /\ step = "sent" /\ Arrived
    /\ GenerateSalt(drawn) # {}
    /\ \E s \in Steps, map \in Maps :
          s[1] = input.new.states /\ input' = Prepared(input.new, s[2], map)
    /\ step' = "fill"
    /\ UNCHANGED <<witness, proof, pending, contract, drawn, taken>>

Next == FillInputs \/ Deploy \/ ComputeWitness \/ Prove \/ StepModel \/ Mine
          \/ Retry \/ Prepare

Spec == Init /\ [][Next]_vars

\* The participant runs the next command, and the chain mines. The orders of the
\* maps are drawn again and again, so that sooner or later those come that are
\* wanted: the one in the contract, and the ones in the file.
FillInputsAsStored == FillInputs /\ input'.hashCurr = contract.hash
WitnessAsStored == ComputeWitness /\ step' = "prove" /\ input.hashCurr = contract.hash

Fairness ==
    /\ WF_vars(FillInputs) /\ WF_vars(Deploy) /\ WF_vars(ComputeWitness)
    /\ WF_vars(Prove) /\ WF_vars(StepModel /\ step = "send") /\ WF_vars(Mine)
    /\ WF_vars(Retry)
    /\ SF_vars(FillInputsAsStored) /\ SF_vars(WitnessAsStored)

FairSpec == Spec /\ Fairness
-----------------------------------------------------------------------------
\* Whoever is told the salts of the last step reads with get-state the list that
\* the contract's hash is of, whichever of the retries and repeated
\* transactions got through. (For states of more than nine numbers the cipher
\* is not undone: see ShortTrip of Gmimc.)
StoredOpens ==
    contract.new # None =>
        GetState(contract.cipher, contract.curr.salt, contract.new.salt) = contract.hash

\* And from it the state of every task, but that INACTIVE ones in front are
\* dropped; this of states of four bits.
TasksReadBack ==
    contract.new # None =>
        \E k \in 0..Len(contract.new.states) :
           /\ \A i \in 1..k : contract.new.states[i] = 0
           /\ Decompress(GetState(contract.cipher, contract.curr.salt, contract.new.salt)[1])
                = SubSeq(contract.new.states, k + 1, Len(contract.new.states))

\* A transaction that was repeated, or is mined late, is not taken a second
\* time, although the workflow may be in the same task states again.
NoReplay ==
    [][contract'.new # contract.new => Head(pending).public \notin taken]_vars

\* A step that was prepared is taken in the end: the salts in the file, and
\* so the state behind the stored hash, outlast the retries that Go's map order
\* makes necessary.
StepTaken == (step = "fill") ~> Arrived
=============================================================================
