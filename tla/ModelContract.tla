--------------------------- MODULE ModelContract ---------------------------
(***************************************************************************)
(* One workflow on the chain: contracts/Model.sol, the clients that prove  *)
(* steps off the chain and send them with zkwf, and the transactions in    *)
(* between.  Clients do not coordinate: each proves from the state it      *)
(* believes current, and the contract takes the first proof whose hash     *)
(* matches.  committed is the state that the last one to be taken proved;  *)
(* the contract stores no more than its hash, which is that of every       *)
(* opening of it.                                                          *)
(***************************************************************************)
EXTENDS Integers

CONSTANTS Graph, FieldPrime, Numbers, Moves, MaxChanges, VariableValues, MessageValues,
          BalanceValues, Amounts, Randomness, Upstream

CONSTANTS
    Client,     \* processes that run zkwf with some participant's key
    TxValues,   \* the amounts a client sends along with update
    Ether       \* all the money there is, in units of Amounts

VARIABLES
    committed,  \* the state behind the contract's hash
    funds,      \* balance of the contract's account
    view,       \* the state each client's next input file starts from
    pending     \* the transaction each client has sent and not seen mined

vars == <<committed, funds, view, pending>>

W == INSTANCE Workflow WITH state <- committed

ASSUME ModelAssumption == W!WellFormed /\ W!NumbersInField

\* Field elements are much larger than any amount of ether.
ASSUME EtherAssumption ==
    /\ Ether \in Nat /\ FieldPrime \in Nat /\ Ether < FieldPrime
    /\ Amounts \subseteq 0..Ether
    /\ \A d, x \in Amounts : d + x < FieldPrime
    /\ TxValues \subseteq 0..Ether

NoTx == [value |-> -1]

\* DeployModelContract: the constructor takes no value; all know the state.
Init ==
    /\ W!Init
    /\ funds = 0
    /\ view = [c \in Client |-> committed]
    /\ pending = [c \in Client |-> NoTx]

\* fill-inputs, witness, prove and StepModel: a client makes a step the circuit
\* accepts from the state it has, sends it, and goes on from the new state.
Send(c) ==
    /\ pending[c] = NoTx
    /\ \E curr \in W!Openings(view[c]) : \E w \in W!Witnesses(curr), v \in TxValues :
          /\ W!Accepts(w)
          /\ pending' = [pending EXCEPT ![c] = [witness |-> w, value |-> v]]
          /\ view' = [view EXCEPT ![c] = w.new]
    /\ UNCHANGED <<committed, funds>>

\* The requirements without the comparison of hashes, with the new hash in the
\* place of the current one, without the comparison of the deposit with the
\* value, and with a transfer that cannot fail.
UpdateAnyHash(tx) ==
    /\ tx.witness.deposit = tx.value
    /\ funds + tx.value =< Ether
    /\ tx.witness.withdrawal =< funds + tx.value

UpdateOtherHash(tx) ==
    W!HashNew(tx.witness) = W!Commit(committed) /\ UpdateAnyHash(tx)

UpdateAnyValue(tx) ==
    /\ W!HashCurr(tx.witness) = W!Commit(committed)
    /\ funds + tx.value =< Ether
    /\ tx.witness.withdrawal =< funds + tx.value

UpdateOverdrawn(tx) ==
    /\ W!HashCurr(tx.witness) = W!Commit(committed)
    /\ tx.witness.deposit = tx.value
    /\ funds + tx.value =< Ether

\* What update requires; the proof verifies, for the circuit accepted it, and
\* the transfer needs the money to be there.
UpdateSucceeds(tx) ==
    /\ W!HashCurr(tx.witness) = W!Commit(committed)
    /\ tx.witness.deposit = tx.value
    /\ funds + tx.value =< Ether
    /\ tx.witness.withdrawal =< funds + tx.value

Update(c) ==
    /\ pending[c] # NoTx
    /\ UpdateSucceeds(pending[c])
    /\ committed' = pending[c].witness.new
    /\ funds' = funds + pending[c].value - pending[c].witness.withdrawal
    /\ pending' = [pending EXCEPT ![c] = NoTx]
    /\ UNCHANGED view

\* The transaction is mined and reverted.
Revert(c) ==
    /\ pending[c] # NoTx
    /\ ~UpdateSucceeds(pending[c])
    /\ pending' = [pending EXCEPT ![c] = NoTx]
    /\ UNCHANGED <<committed, funds, view>>

\* GetState: the client takes the contract's state for its next step.
GetState(c) ==
    /\ view' = [view EXCEPT ![c] = committed]
    /\ UNCHANGED <<committed, funds, pending>>

Next == \E c \in Client : Send(c) \/ Update(c) \/ Revert(c) \/ GetState(c)

Spec == Init /\ [][Next]_vars

\* The chain mines what it was sent, and clients go on: they look at the contract
\* now and then, and send another step when the last one is settled.
Fairness ==
    \A c \in Client :
        /\ WF_vars(Update(c) \/ Revert(c))
        /\ WF_vars(Send(c))
        /\ WF_vars(GetState(c))

FairSpec == Spec /\ Fairness
-----------------------------------------------------------------------------
\* The committed state has the circuit's shape, the account is never overdrawn, and
\* what is in flight is a witness of a step.
TypeOK ==
    /\ W!TypeOK
    /\ funds \in 0..Ether
    /\ \A c \in Client :
          pending[c] = NoTx \/ (/\ pending[c].witness \in W!Witnesses(pending[c].witness.curr)
                                /\ pending[c].value \in TxValues)

\* However the clients race, whatever stale or speculative states they prove
\* from, the states the contract commits to are one execution of the workflow,
\* each step accepted by the circuit from the state before it.
OneExecution == W!Spec

\* The money of the contract and the balances in the committed state are the
\* same money: all of it is on the account that the circuit pays in and out of,
\* and no account is overdrawn around the field.
AccountsMatch ==
    committed.bals = [p \in W!Participant |->
                        IF p = W!ParticipantIndex THEN funds ELSE 0]

\* The race for the next state always has a winner: although every client's proof
\* may be stale when it is mined, some update goes through again and again.
SomeoneWins == []<><<Next>>_committed

\* CreateAuth sends no value: with zkwf nobody ever has a balance.
NothingPaid == funds = 0 /\ \A p \in W!Participant : committed.bals[p] = 0
=============================================================================
