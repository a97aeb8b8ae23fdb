# zkWF in TLA+

zkWF lets organisations that do not trust each other run one BPMN workflow on a
blockchain. A contract stores only a hash of the workflow's state and the
encrypted state. To move the workflow, a participant proves in zero knowledge
that it knows a state behind the stored hash and a next state behind a new hash,
and that the step from one to the other is one the workflow allows. What a
workflow allows is decided by one arithmetic circuit,
`pkg/circuits/statechecker`; this project is about that circuit, about the
workflows it lets happen, about the contract that strings the steps together, and
about what a participant needs around it: the commands of `zkwf`, the key that
the participants share, and the cipher of the published state.

## The system

| component | state | operations | where the difficulty is |
|---|---|---|---|
| task lifecycle (`pkg/common/states.go`, `pkg/circuits/lifecycle`) | a code per task | a transition relation as a sum of selectors | ways back: failed, terminated, compensated and completed tasks may be reset |
| process graph (`pkg/model`) | nodes, flows, owners, message slots | `BuildGraph`, `GetExecutableNodes`, `GetPreviousNodes`, `GetPairs` | what counts as a predecessor or a pair through nested gateways |
| conditions (`pkg/circuits/expressions`, `pkg/common/expression.go`) | - | `EvaluateExpression`, `calculateValue` | which slot a name is read from, which state it is read in |
| step circuit (`pkg/circuits/statechecker`) | - (a relation on two states) | `stage1`, `stage2`, `checkPayments` | many tasks change in one step, and the conditions on each are local; the committed number has more than one reading |
| client (`pkg/zkp`, `pkg/web3`) | input file, proof, a transaction in flight | `fill-inputs`, `witness`, `prove`, `step`, `get-state` | stale and speculative states, map order, retries |
| workflow contract (`contracts/Model.sol`) | hash, encrypted state, money | constructor, `update` | races between clients, reverts, a transfer that fails |
| key handshake (`contracts/MultiPartyECDH.sol`, `pkg/web3/handshake.go`) | intermediate values by label | upload, read | a fixed wait instead of synchronisation, retries, the number of participants |
| state packing, ciphers and hashes (`pkg/crypto`, `pkg/circuits/{gmimc,hkdf,hmac,mimc}`, `utils/bytes.go`) | - | pure functions | both sides agree for every length |
| Fabric chaincode (`cmds/contract`) | one JSON record | `Init`, `Update` | reads and writes back |
| path engine (`engine/generatePaths.js`) | - | runs a model, writes an input file per step, runs the tools | calls that are not awaited |
| tools and bindings (`cmds/zkwf`, `pkg/zkp` compile/setup/prove/verify, `pkg/contracts`, `editor`) | files | input and output | - |

The circuit reads the graph. The client fills in an input file (the state it
believes current, the state it wants), computes the witness, proves, and sends
`update` to the contract. The contract compares the proof's first hash with its
own, verifies the proof, and takes over the second hash and the new ciphertext.
Other clients learn the new state from the contract. Besides, clients share the
secret that the handshake once gave them, and tell each other the salts of a step
(the code leaves open how); together they are the key of the ciphertext.

## Modules

    Packing                        states to one number and back
       |
    ProcessGraph                   queries on the graph
       |
    Expressions   TaskLifecycle
            \      /
          StateChecker             the circuit, a predicate on witnesses
               |
            Workflow               the workflow as the steps the circuit accepts
             /      \
     MCWorkflow    ModelContract   contract + clients; W == INSTANCE Workflow
                        |
                  MCModelContract

    Packing   GmimcRounds          GmimcRounds: the number of rounds of the cipher
         \     /      \
    ClientPipeline    Gmimc        the commands of one participant + contract;
                                   EncryptBig, DecryptBig and the circuit's versions

    Handshake                      goroutines + chain + MultiPartyECDH.sol
    BpmnModel                      how the graph is made from a file

BpmnModel is used by the MC modules only, which check that the tables given for
`Graph` are what `BuildGraph` makes of the files. The theorems are in modules of
their own:

                  Lemmas               induction, recursive functions, packing
               /     |      \
    WorkflowProofs  GraphProofs  PipelineProofs, ContractProofs
          \         /
          TokenProofs                 tokens through gateways, choices, progress

    HandshakeProofs, GmimcProofs

Workflow and ModelContract abstract a client to a witness that appears as a whole,
from any state a client may believe in; ClientPipeline takes one client apart
and keeps of the circuit only which pairs of task states it accepts. Handshake
and Gmimc justify what the others assume: that participants have one key, and that
who has it can read.

**TaskLifecycle** - the codes of `states.go` and `LifecycleCheck`, the sum of
selectors read as the relation that makes it 1.

**BpmnModel** - `BuildGraph` from the decoded file (`parse.go`, `graph.go`):
process after process, its nodes kind by kind, the owners, those edges that
have both ends already, the participants' keys, the message slots; and
`GetExecutableNodes`, which orders the executables by the layers of a
breadth-first search and by ID within a layer. The order decides which digit of
the packed number is which task's. `Buildable` leaves out the files on which
`BuildGraph` panics, and those in which two start events reach one task:
`layerize` visits start events in Go's map order, so that the task's layer differs
from call to call.

**ProcessGraph** - the constant `Graph` is what `BuildGraph` makes of a BPMN
file; the operators are the circuit's queries. `Executable` is the filter of
`GetExecutableNodes`, without `PaymentTask`, as in the code; `Place` is a
task's position in its order. `WellFormed` says for which graphs `Define`
terminates: elsewhere `indexOf` gives -1, an index panics, or the recursion
through gateways does not stop. It is an ASSUME.

**Packing** - `Compress` adds up the task states, each sum times sixteen, as
`compressState` and `CompressToFieldElement` do; nothing keeps a number below
sixteen. `Decompress` is get-state's way back. `Summing` lists all the ways to
open a packed number: `Lemmas!SummingMeans` proves that these are all there are.

**Expressions** - `EvaluateExpression` and `calculateValue` over token sequences,
in a field of `FieldPrime` elements, with what the code does to a sum (the
operand after the last operator is dropped) and with the variable map that the compiled
circuit has (nil: every name is slot 0, here 1).

**StateChecker** - `Accepts(w)` holds when `Circuit.Define` is satisfied by
`w`: `Stage1` (lifecycle of each changed task; no change, or one completion with
whatever goes with it, or a single change), `Stage2` for each task (owner,
message, and the nested exclusive ors of "made ready in time", "other change",
"completed and token forwarded", "same"), `CheckPayments`, the prover's key, and
that the two salts differ. The gateway recursions are recursive functions on the
gateways. Hash, signature, ownership of a key and encryption are ideal: a hash
stands for what is hashed, a signature is `w.key`. What is hashed is *not* the
state: `Commit` has one packed number for all task states, beside the salt, the
variables, the messages and the balances. `ParticipantIndex` is 1, the code's 0,
for every prover, because the circuit is compiled from a value in which it was never
set. The payment branch of `stage2` needs a payment task to be executable and is
unreachable.

**Workflow** - variable `state`, the state as the last prover read it; what is
stored is its `Commit`. One action `Step`: some opening of the same hash
(`Openings(state)`: any list of `Numbers` with the packed sum, in the field) is
the current state of a witness from the bounded set `Witnesses`, the circuit accepts
it, and its new state becomes the state. An input file may have any numbers for the tasks;
`fill-inputs`, `witness`, `prove` and the verification succeed on exactly those
that are accepted. `Proposals` are the changes of task states within the bounds, and
`TaskChanges` those of them that `Stage1` does not reject. The new state's slots
take any values, so the random order in which the client's maps list them (Go map
iteration) is covered as far as the circuit can see it.

*The packed number.* `CompressToFieldElement` (`utils/bytes.go:30-46`) has no
range check, and `stage1` looks at the lifecycle of a task only if its two numbers
differ (`circuit.go:255-256`). In models/t1 the committed number of [10,1,0] is
2576, which is that of [9,17,0] too; from there a reset of the first task is
accepted, and leaves 272, which reads [1,1,0]: two tasks of one lane under
way. Clients that write more than four bits for a task can thus break every property
about task states, and the run `t1_packed` exhibits it (a finding). What the other
runs and the theorems say of task states is about provers whose numbers have four
bits, and the premise is stated where it is used:

    FourBits == /\ Numbers = 0..15
                /\ Compress([i \in DOMAIN GetExecutableNodes |-> 15]) < FieldPrime

The codes of `states.go` are such numbers, so are the digits that get-state prints for
the next prover, and `engine/generatePaths.js` writes no others; but no code
enforces it, and a prover's opening is private. The second conjunct says
that the sum of all tasks does not wrap around the field; `MaxStates`, 63 tasks, is
what fits in BN254's. Under `FourBits` a hash has one opening
(`Lemmas!CompressInjective`), while numbers that are no codes, 11 to 15, remain
possible for a prover to write. What does not need it is proved without:
`OneExecution`, `AccountsMatch`, `NoReplay`.

*Initial states.* The circuit has no way to make a task behind a start event
READY (`circuit.go:173`), and `zkwf` deploys whatever state it is given. A
deployment with such a task INACTIVE is stuck from the start; those under
`models/*.json` have it under way. `Init` takes READY, ACTIVE and COMPLETING.

**ModelContract** - `committed` is the state whose hash the contract stores, as the
last prover to be taken read it, and `funds` its account; `view[c]` is the state
client `c`'s next input file starts from; `pending[c]` its transaction in flight.
Actions: `Send(c)` (fill-inputs to `StepModel`, from any opening of the hash of
`view[c]`; the client continues from the state it proposed, so chains of speculative
steps occur), `Update(c)` and `Revert(c)` (mined, in any order; `Model.update` as a
whole, which compares hashes and not states, the transfer at its end included, so that
a failed transfer undoes the stored hash), `GetState(c)` (at any time). Clients hold
any participant's key. One transaction per client is in flight; a client with several
is several clients. The check of the length of the public inputs always passes for
proofs of the deployed circuit and is left out.

**ClientPipeline** - one participant and the files of its working directory:
`input` (the JSON file), `witness` (`full.wtns`, `public.wtns`), `proof`
(`proof.bin`), and the contract. One action per command, `step` being the command
that comes next: `FillInputs` (salts, both hashes, ciphertext), `Deploy` (with the
hash that the first `fill-inputs` printed), `ComputeWitness` (which fails when the
circuit is not satisfied), `Prove`, `StepModel` (which does not wait and may be
run again), `Mine` (in the order of the nonces), `Retry` and `Prepare` (external:
the person at the keyboard fills in again, or writes the next file). The maps of
variables, messages and balances are listed by `range`: `Orders` is every
order, drawn anew by each command for each state. A hash is what is hashed
(`Packed`); a key is the pair of salts it is derived from. `Compress`
and `Decompress` compute with the digits as the code does, in integers instead of
field elements: more than `MaxStates` tasks are refused (`StepsAssumption`). Task
states are any natural numbers, as in the file. `EncryptionLen` numbers are
encrypted; decryption undoes it only if the cipher's number of rounds is odd
(`Undone`, from Gmimc's `GetGMiMCRounds`), and without a constant for every
round `fill-inputs` does not get through. `Hkdf` is ideal, a key for each pair of
salts; that decryption works for the lengths for which `Undone` says so is
what Gmimc shows. `taken` and the states in `contract` are history.

*What is assumed there.* The salts of 31 bytes do not repeat (`GenerateSalt` takes an
unused one; the number of salts bounds the run). The participant writes the
next file when its hash is in the contract. It is the only one to move the
workflow meanwhile; racing participants are ModelContract's subject.

**Handshake** - `cmds/handshake-test`: one goroutine per participant runs
`PerformHandshake`: `Upload` for each other participant in the order of the list,
`Sleep` and `Wake` (nothing is assumed about what happens within the second),
`Fetch` in the order of the nested loops, or `FetchUnset`, which ends the program,
and `Finish`. `Deploy`, `Mine` and `Cut` are the chain: the deployment may be
mined after uploads, which then do nothing; each account's transactions are mined in
order; the node may fail a call. A curve point is the number of times each
private key is in it, all that the commutativity of `ScalarMultiplication` leaves.

**Gmimc** - one run of `EncryptBig` over a state and two keys, a round per step,
and in lockstep the circuit's `Encrypt`; then `DecryptBig` and the circuit's
`Decrypt` by somebody with the same keys. `Check` is the range check that ends the
program, `Panic` the missing round constant. `GetGMiMCRounds`, the alternation of
keys, and the direction of keys and constants are the code's; the
prime and the constants are parameters.

Operators such as `ReadyAnytime`, `AnyPreviousCompleted`, `UpdateAnyHash` or
`DecryptForward`, next to the definition they resemble, are that definition with a
plausible mistake. Each property is known to fail when one of them takes the
original's place; nothing else uses them.

## Properties

| property | what it says |
|---|---|
| `TypeOK` | one per state machine (checked for Workflow, ModelContract, Handshake, Gmimc): codes and values only; `funds` within all the money and in flight only witnesses; branches of field elements |
| `LaneInv` | on a gateway-free lane, while a task is under way, everything after it is INACTIVE - through failures, resets and compensations |
| `StoppedForGood` | in a workflow without gateways in its lanes, once no task is under way, none ever is again: resetting a task is no way to retry |
| `NoTokenForged` | on the first pass a started task has its predecessors completed behind it, all of them behind parallel joins |
| `NoTokenLost` | on the first pass a completed task has started what follows, or waits at a parallel join for a task that is not completed |
| `NoTaskStuck` | for each task under way some proposal moves it one state on |
| `OneTrueBranch` | completing in front of an exclusive gateway starts exactly one branch whose condition, variables read by their names, holds in the new state (others, with a false condition, may start along) |
| `DigitsAreStates` | the digits of the committed number are codes of task states (does not hold without `FourBits`) |
| `OneExecution` | the contract's committed states are a behaviour of Workflow (refinement) |
| `SomeoneWins` | some update succeeds, again and again |
| `AccountsMatch` | the committed balances are the money on the contract's account |
| `StoredOpens` | with up to nine numbers to encrypt, who is told the two salts of the stored step decrypts the list of numbers that the stored hash is of, whichever retry or repetition got through |
| `TasksReadBack` | and from it the states of the tasks, numbers of four bits, but for INACTIVE ones in front |
| `NoReplay` | a step that the contract has taken is not taken again, not even when the tasks are in the same states again |
| `StepTaken` | a step that was prepared is in the contract in the end, in spite of the map orders and retries |
| `SecretOfAll` | with three participants, who finishes has the product of all private keys, each once |
| `SecretNeedsAll` | nobody finishes before everybody else has a value on the chain |
| `TimelyHandshake` | if one second was always enough and no call fails, everybody finishes with a secret |
| `ShortTrip` | decryption gives back what was encrypted, up to nine branches |
| `RoundTrip` | the same for every length (does not hold) |
| `CircuitAgrees` | the branches in the circuit are those of `pkg/crypto` after every round |
| `LongEnough` | the round constants run out at twenty numbers, not before |
| `SecretsAgree` | participants who finish have one secret, for any number of them (does not hold) |

`LaneInv` and `NoTokenForged` say different things: the first is about several
rounds with resets but only about lanes; the second is about gateways, on a first
pass, because the circuit lets a task behind a gateway become READY again after a reset as
long as its predecessors are still COMPLETED.

## Runs

| run | instance | what it shows |
|---|---|---|
| `t1_life` | models/t1, states of four bits, all 12x12 pairs of codes (11 is no code) | full lifecycle on a lane: `TypeOK`, `LaneInv`, `NoTaskStuck`, `StoppedForGood` |
| `choices` | the splits and joins of models/t2 (exclusive) and models/t6 (inclusive) one after the other | `NoTokenForged`, `NoTokenLost`, `OneTrueBranch` |
| `lanes` | two lanes, one with the split and join of models/t3 and a message to the other as in models/t5, tasks failing and terminated | any interleaving: `NoTokenForged`, `NoTokenLost`, `NoTaskStuck` |
| `contract_race` | two clients, models/t9, fair | stale and speculative proofs: `OneExecution`, `SomeoneWins` |
| `contract_funds` | two clients, models/t7, amounts 0 and 1, one unit of ether, a field of 17 | `TypeOK`, `AccountsMatch` |
| `pipeline` | two tasks, two variables, a message, a participant; three salts, two transactions in flight; fair | `StoredOpens`, `TasksReadBack`, `NoReplay`, `StepTaken` |
| `handshake` | three participants, the number of `cmds/handshake-test`; fair | `TypeOK`, `SecretOfAll`, `SecretNeedsAll`, `TimelyHandshake` |
| `cipher` | two to twenty-one branches, a field of 5 | `TypeOK`, `ShortTrip`, `CircuitAgrees`, `LongEnough` |
| `t8_nested` | models/t8 | fails `NoTaskStuck`: the first branch to complete in front of a join to the end is refused (`circuit.go:216` with `next.go:26`), against the comment at `circuit.go:200` |
| `t1_packed` | models/t1, states of eight bits | fails `DigitsAreStates`: the packed number has other readings (`utils/bytes.go:42`, `circuit.go:256`), against the comment at `bytes.go:28` |
| `handshake_four` | four participants, uploading in turn | fails `SecretsAgree`: each secret has three of the four keys (`handshake.go:58-73`) |
| `cipher_ten` | ten branches | fails `RoundTrip`: the number of rounds is even and the keys are not taken backwards (`gmimc.go:102`) |

### What else the models taught

Nothing in the repository promises the opposite, so no run checks these.

- `ParticipantIndex` is not part of the assignment (`types.go:50`), so the compiled
  circuit asks every prover for the first participant's key: in models/t5, with its
  two keys, the second participant can make no step. This is proved of every model
  (`OnlyTheFirstActs`).
- While a task in front of an exclusive gateway completes, a branch whose condition is
  false may become READY in the same step, or in a later one: `circuit.go:185` asks
  only for something COMPLETED in front of the gateway.

- After an exclusive or inclusive join a second task that completes in front of
  it has to make the task behind the join *newly* READY, so it is refused until that
  task is reset: `NoTaskStuck` does not hold for models/t2 and models/t6. (The
  second branch of t2 can be started because a branch may become READY whenever
  what is in front of the gateway is COMPLETED, whether it was chosen or not.)
- `GetPairs` counts tasks only. A throw or catch event directly in front of a
  parallel join is neither waited for nor excused: if it is the first to complete,
  it has to make what follows the join READY, and cannot.
- Behind a gateway a task that failed can be reset and started again, on a lane it
  cannot.
- A catch event can complete before the throw event of its message
  (`circuit.go:160`): nothing compares the two lanes.
- The compiled circuit has no variable map (`types.go:50`, `next.go:56`), so every
  condition reads the first slot. With two variables the slot holds, for a prover
  that retries, whichever Go's map iteration puts there; a condition on the second one
  is checked on it only by chance. `choices` has one variable for this reason.
- With two participants there is no value to read and the secret is empty.
  A state of twenty numbers (a number for the tasks, a salt, eighteen variables,
  messages and balances) makes `EncryptBig` index past the constants.
- `get-state` drops leading INACTIVE tasks (`fill_inputs.go:151`), which is why
  `TasksReadBack` is about the tasks after them.
- `CreateAuth` sends no value, so no deposit can be made with `zkwf`
  (`NothingEverPaid`).

### Bounds

- `Moves`: the changes of a task that proposers try. `t1_life` tries all pairs of
  codes and one number that is no code, so that the circuit and not the bound
  selects; elsewhere the moves onward with one wrong one, or with failures and
  terminations, so that "first pass" properties are meant as stated.
- `Numbers`: 0..15 is `FourBits`, and `FieldPrime` is a prime above the largest
  packed sum (17 for one task, 257 for two, 4099 for three, 65537 for four,
  16777259 for six), so that a wrap-around of the sum is as impossible as in the real field.
  `t1_packed` has 0..255 and a prime above that sum: it is the missing
  range check that fails there and not a small field.
- `MaxChanges`: tasks changed in one step. A step that is accepted has one
  completion, the tasks it starts, and no others; 3 leaves room for the
  completion with its two followers, or with one follower and a foreign change, which is
  what a forged change would need. `t8_nested` uses 4; two tasks need 2.
  `contract_funds` uses 0 because `CheckPayments` does not look at task states.
- `VariableValues`: for each condition of the model a value that makes it true,
  and one that makes it false. `MessageValues`: an empty slot and a message.
- `Randomness`: two salts, so that a step can change it; a third in
  `contract_race`, where a client's speculative state can then differ from the
  committed one by its salt alone.
- `Ether`, `Amounts`, `BalanceValues`: with one unit of money an overdraft wraps
  around to 16, the largest field element, which is among the values that are tried.
- Two clients: `Update` and `Revert` concern one client's transaction and the
  committed state; a third client adds no kind of conflict. (The theorems have
  any number.) Symmetry is used in `contract_funds` only, a safety run.
- `pipeline`: three salts are a deployment and two steps, so that an old
  transaction can be mined after a second step or stand in front of it; two
  transactions in flight are the repeated one and the new one. Two
  variables have two orders, which is what it takes for listings to differ; the
  other two maps have one entry. The variables keep their two different values.
  The steps include one that changes no task and one that goes
  back to INACTIVE: equal task states come again.
- `handshake`: three participants are each somebody else's "two others". The
  theorems have any number. `handshake_four` takes only the behaviours
  in which participants upload one after the other (`InTurn`, a constraint); a
  counterexample there is one of the whole.
- `cipher`: two branches with all values, every length up to twenty-one with two
  states each; a number outside the field. The table of constants ends at twenty. In a field of
  5 the seventh power is a permutation, as it is in the real one; nothing in
  the argument uses it.

Deadlock is checked except in the runs of Handshake and Gmimc, which end. In the
others it never occurs, but this says little: the circuit accepts a step that changes
nothing but the salt, so a workflow that is over, or stuck, can still be stepped,
and the step command can be run again. `NoTaskStuck` and `StepTaken` are what says
that there is progress.

### Fairness

- `contract_race`. `WF(Update(c) \/ Revert(c))`: the chain mines a transaction it
  was sent. `WF(Send(c))` and `WF(GetState(c))`: a client looks at the contract now
  and then and proposes a step when its last is settled; this is an assumption about
  the people who run `zkwf`, not about the code, and the least under which
  "somebody wins" makes sense. Nothing is assumed about who wins: a given client may
  lose for ever.
- `pipeline`. Weak fairness of mining and of each command that comes next: the
  participant goes on. Strong fairness of `FillInputsAsStored` and
  `WitnessAsStored`: Go draws the order of a map at random for every iteration, so that
  an order that keeps being possible comes up in the end. Without it a participant
  can fill in the wrong hash for ever; nothing in the code prevents this.
- `handshake`. Weak fairness of mining, of the deployment and of each goroutine,
  which Go's scheduler gives. `Cut` is not fair: calls need not fail.
  That a second is enough is no fairness but the premise of `TimelyHandshake`:
  `Timely` says that the contract was mined before the first upload, no call fails, and
  nobody reads before all uploads are mined.

## Theorems

Checked by TLAPS for every value of the constants: every graph, any number of
clients and participants, any prime. Every invariant and every action property
that a passing run checks is the subject of one. Those about task states
have the premise `FourBits`; without it they are false of the code.

### What is committed

- `Lemmas!CompressInjective`: lists of four-bit numbers of one length with equal packed
  numbers are equal. From it `WorkflowProofs!OneOpening`: under `FourBits` the
  only opening of a state's hash is the state.
- `Lemmas!SummingMeans`: the openings the model offers to a prover are all
  lists of `Numbers` with the packed sum, no more and no fewer, whatever
  `Numbers` is. `ContractImplementsWorkflow` rests on it.

### One lane, one step

- `WorkflowProofs!OneAndOnlyOne`: the nested exclusive ors of `stage2` mean what
  the code's comment wants, exactly one of four conditions. An exclusive or of
  four terms is also true of three; the four conditions exclude that.
- `WorkflowProofs!TypeCorrect`: `Spec => []TypeOK` under `FourBits`: a changed task
  gets a code by the lifecycle, an unchanged one keeps it, and the next prover has to
  read it as it was written.
- `WorkflowProofs!LaneSafety`: `Spec => []LaneInv` under `FourBits`. `LaneInv` is
  inductive as it stands because its pairs are closed: with a pair `<<a, b>>`,
  everything between a start event and b is paired with b (`UpstreamAssumption`). A
  step brings a task under way only as `ReadyInTheRightTime`; on a lane this is the
  completion of the task in front of it (`ReadyBehindExecutable`), which was
  COMPLETING, hence by the invariant everything between was INACTIVE; and `Stage1`
  allows one completion only, so no other task of the lane comes under way in the same
  step (`LaneStep`).
- `WorkflowProofs!StoppedIsOver`: under `FourBits`, if every executable is behind a
  start event or another executable, `Spec => StoppedForGood`.
- `WorkflowProofs!OnlyTheFirstActs`: under `FourBits` a task changes only if its owner
  has the key of the first participant, in every model and for every prover.
- `TokenProofs!LanesNeverStuck`: under `FourBits`, `Spec => []NoTaskStuck` in a
  workflow without gateways whose participants sign with one key (`OneKeyLanes`), for
  proposers who know the ordinary moves (`AbleProposers`). The proof constructs the
  witness and shows every check of the circuit of it: the task moves on, a completion
  makes the follower READY, a throw event writes another message than the last. The
  follower *can* become READY because it is INACTIVE, which is `LaneInv`; this is why
  the property is no matter of one step. Both premises about the graph are needed:
  with several keys tasks do get stuck by `OnlyTheFirstActs`, and with gateways the
  run `t8_nested` shows it.

### Tokens through gateways

The circuit answers three questions by walking through gateways:
what is completed in front of one (`PreviousCompleted`), what is made ready behind
it (`GatewayActivated`), and who stands in front of it (`Traversed`). `NoTokenForged`
and `NoTokenLost` relate the three walks, and a step's local checks to a property
of the whole graph. All four theorems have the premise `FourBits`.

- `TokenProofs!NoneForged`: every behaviour of `Spec` in which completed tasks stay
  completed satisfies `[]NoTokenForged`, for gateways of any kind, number and
  depth. By induction against the flow, a join that `PreviousCompleted` accepts has
  completed executables in front of it: all of them if no exclusive or inclusive
  join is between, at least one in any case (`PreviousCompletedMeans`). A step
  brings a task from INACTIVE only as `ReadyInTheRightTime`, so `Caused` holds
  when it starts, and goes on to hold since what is completed stays so.
- `TokenProofs!NoneLost`: if besides no started task goes back to INACTIVE, and only
  merges stand in front of parallel joins (`OnlyMergesBeforeJoins`), then
  `[]NoTokenLost`. A completion either forwards its token (by induction along the flow
  `GatewayActivated` makes `PassedOn` true, `ActivatedPassesOn`) or is excused because
  a pair of it is not completed. The task that completes later has to forward the
  token in turn, and then it has to be forwarded for those that were excused: this is
  what `PassedOnThrough` is for. There the premise is needed: behind an exclusive
  gateway that leads into a parallel join *or elsewhere*, the last completion may
  take the other way, and the join, which no one waits for any more, has not
  fired. No model of `models/` has such a join.
- `TokenProofs!TokensOfFirstPass`: both as invariants of `Spec` alone when proposers
  reset nothing (`NoResets`); failures and terminations may occur. `Moves` of `choices`
  and `lanes` are such, and their graphs satisfy `OnlyMergesBeforeJoins`. Without
  the premise about resets neither property holds: a completed task can be reset
  while what follows it runs, and what follows can fail and be reset while the
  task stays completed.
- `TokenProofs!ChoosesTrueBranch`: `Spec => OneTrueBranch` if conditions
  compare the first variable with a number of the field
  (`FirstVariableConditions`). The circuit reads the first slot whatever the name is
  (see above), so for a second variable the statement is false.

That the contract implements Workflow (`ContractImplementsWorkflow`) carries what is
proved of `state` over to the state the contract commits to.

### The contract

- `ContractProofs!ContractImplementsWorkflow`: `Spec => OneExecution`. The
  invariant is `PendingInv`: each transaction in flight carries an accepted witness
  of a step from the state it names as current, which may be any opening. The
  contract compares the hash of that state with its own: if they are equal, the
  state is an opening of the committed one (`SummingMeans`), so each `Update`
  is a `Step`, and everything else stutters. This needs no `FourBits`: Workflow
  allows what the contract allows, other readings included.
- `ContractProofs!AccountsCorrect`: `Spec => []AccountsMatch`, from
  `PendingInv` and `funds \in 0..Ether`. The arithmetic of the field is the point:
  a balance that a withdrawal would wrap around is refused by the transfer, and a
  step cannot deposit and withdraw at once (`NotBoth`).
- `ContractProofs!TypeCorrect`: `Spec => []TypeOK` under `FourBits`, from the same
  invariants.
- `ContractProofs!NothingEverPaid`: if `TxValues = {0}`, no client ever has a
  balance (`NothingPaid`).

### A participant's commands

- `PipelineProofs!TakenOnce`: `Spec => NoReplay`. The hash of a state begins with
  its task states and its salt, so the argument follows the salts. The invariant
  `SaltInv` has three parts. `FileInv`: the salts in the file are drawn or still 0,
  differ, and no step starting from the file's *new* salt was taken. `FlightInv`:
  every transaction and the current witness either start from a salt from which a
  step was taken already, or are of the file's two salts. `ContractInv`: the
  contract's salt is one of the file's two, and no step was taken from it. Since
  each taken step uses up the salt it starts from and `Prepare` moves on only
  when the contract has the new one, no transaction that was taken can be
  taken again. `NoReplay` alone is far from inductive: it needs to know what every
  old transaction starts from.
- `PipelineProofs!WhoHasTheSaltsReads`: `Spec => []StoredOpens` if at most nine
  numbers are encrypted (`NineAreUndone`: then the rounds are odd), from `SealedInv`:
  in the witness, the proof, every transaction and the contract, the ciphertext is of
  the list that is hashed, under the key of the two salts.
- `PipelineProofs!ReadsBack`: `Spec => []TasksReadBack` if besides the files give the
  tasks numbers of four bits (`FourBitSteps`), for any number of tasks.
  `PackedReadsBack` is about the two functions: digit by digit, from the first task
  on, `Decompress` of what is summed up so far is the list of the states so far
  without the zeros in front. `PackedInv` follows the list from the file through
  witness, proof and transaction to the contract, beside the states that it is of;
  `SealedInv` then says that the list is what get-state decrypts.

### Handshake and cipher

- `HandshakeProofs!TypeCorrect`, `NobodyAlone` (`SecretNeedsAll` for N of at least
  3), `ThreeAgree` (`SecretOfAll` for N = 3) and `SecretOfThree` (for every N a
  secret is made of three keys, so that with four it cannot be everybody's). All
  follow from `RightInv`: a value sent, stored or read is the one that its label
  names, and a finished participant's secret is its own key applied to the last value it
  read; `SecretOfAll` alone says nothing of what is still on its way.
- `GmimcProofs!ShortRoundTrip`: `Spec => []ShortTrip`, for states of every length:
  those with at most nine branches are read back. The history variable `trace` holds
  the branches in front of every round; the invariant says that decryption walks it
  backwards. One decryption round undoes one encryption round if it uses the same key:
  round i of decryption uses key i mod 2 and constant `Rounds - 1 - i`, and these
  belong to the same encryption round exactly when `Rounds` is odd, which it is while
  `181 + 2b` is the larger of the two formulas, up to nine branches. That the last
  round does not swap is what lets the two loops mirror each other.
- `GmimcProofs!TableSuffices`: `Spec => []LongEnough`, from the bound on
  `GetGMiMCRounds` below twenty branches.
- `GmimcProofs!TypeCorrect`: `Spec => []TypeOK`.
- `GmimcProofs!CircuitCorrect`: `Spec => []CircuitAgrees`, for states of any length.
  `pkg/crypto` raises to the seventh power, the circuit multiplies and reduces as
  it goes; the two agree by `SamePower`, which rests on the uniqueness of the
  remainder (`SameRemainder`), derived from the properties of the integers alone. The
  invariant adds `TypeInv`: from the check of the input on everything is in the field,
  and the phases come in order.

### Lemmas: induction and recursion

No backend can instantiate a rule with an operator as a parameter, so the
induction theorems of the library cannot be used, and a recursive function is known
to the provers only as a CHOOSE. `Lemmas` gets by with sets and functions, which they
can instantiate: from the well-foundedness of `<` (`WFMin`) a set of numbers has
a least element (`Least`), so a set that has 0 and with each number the next has all up
to a bound (`UpTo`); and from this a function's recursive equation has a solution
whenever what it says of an element looks at elements of lower rank only
(`Recursion`). GraphProofs turns these into induction and recursion along and
against the flow between gateways (`InductionAhead`, `RecursionBehind`, ...): the rank
of a gateway is the number of gateways it can reach backwards, which grows along
the flow because `WellFormed` excludes cycles of gateways.

### Assumptions

`GraphAssumption` (the circuit is defined for the graph, which is finite),
`NumbersAssumption` (input files have field elements, and there is a largest that is
tried), `ModelAssumption` (both of these, of the contract's workflow),
`LaneAssumption`, `ValueAssumption` (the deployed slots hold 0),
`EtherAssumption` (amounts and their sums are smaller than the field),
`NamesAssumption`, `SaltsAssumption`, `MapsAssumption` and `StepsAssumption` (finitely
many names, salts other than 0, every name has a value, task states are natural
numbers and no more tasks than are packed),
`ParticipantsAssumption` (the contract's `require`), `FieldAssumption`,
`InputAssumption` and `ConstantAssumption` (non-empty states, two keys, 800 constants
in the field). TLC evaluates them on every instance, and in the MC modules also that each
graph is what `BuildGraph` makes of the file beside it. `FourBits`, `FourBitSteps` and
the bounds of nine are no ASSUMEs but premises of the theorems that need them.

Model-checked only:

- `SomeoneWins`, `StepTaken` and `TimelyHandshake`: liveness under fairness is out of
  the prover's reach.
- `NoTaskStuck` in the run `lanes`, whose first lane has a parallel split and join:
  the theorem is for workflows without gateways. In general it is false (models/t2,
  t5, t6 and t8).
- That `BuildGraph` makes the graphs of the runs.
- `NoTokenLost` where a parallel join has a split in front of it that leads
  elsewhere: there it is not true.

## Not modelled

- Parsing of XML, JSON, keys and the characters of conditions. BpmnModel starts from
  the decoded file, and a condition is a list of tokens.
- The arithmetic of MiMC, HMAC, HKDF, EdDSA and PLONK: ideal functions, for what
  they promise is computational. Curve points are products of keys.
- The Fabric chaincode (`cmds/contract`): `Update` writes back the record it read
  (line 74) and compares no hash, so after `Init` the record never changes: a model
  of it has one state and no question.
- The path engine: a generator of test inputs around a library that is not in the
  repository. It starts the tools of several steps at once, with one name for all
  public witnesses.
- Files of `compile`, `setup` and `powersoftau`, gas, reorganisations of the
  chain, the sign command (which prints only), the editor, the generated
  bindings and hardhat's sample contract. The command line only dispatches.
- Code that nothing calls: `GetNextNodes`, `GetCompletionGroups`,
  `ExpressionParser`, `DecomposeToBytes`, `CompressToFieldElementBig`; and the payment
  branch of `stage2`, which a `PaymentTask` never reaches.

What could be added to the present models: `NoTaskStuck` as a theorem for parallel
gateways between tasks, the token theorems stated of the contract's committed state,
and an abstract token game of which the first pass of Workflow is an implementation.
