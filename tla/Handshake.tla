------------------------------ MODULE Handshake ------------------------------
(***************************************************************************)
(* The key agreement of pkg/web3/handshake.go as cmds/handshake-test runs  *)
(* it: one goroutine per participant, all talking to MultiPartyECDH.sol.   *)
(* A curve point is the number of times each private key is in it.         *)
(***************************************************************************)
EXTENDS Naturals, Sequences

CONSTANT N   \* the number of public keys the contract is deployed with

ASSUME ParticipantsAssumption == N \in 2..128

Participant == 0..(N - 1)
Others(p) == Participant \ {p}

\* The label "P1-P2" as the pair <<1, 2>>.
Combo == {c \in Participant \X Participant : c[1] # c[2]}

Generator == [p \in Participant |-> 0]
DiffieHellmanStep(p, point) == [point EXCEPT ![p] = @ + 1]
PublicKey(p) == DiffieHellmanStep(p, Generator)

\* No bytes: a combination that is not set, or the empty secret.
Nil == << >>

VARIABLES
    process,    \* "up", "panicked" in a goroutine, or "cut" off the node
    deployed,   \* the transaction of the deployment is mined
    pool,       \* transactions of each account, in the order of their nonces
    stored,     \* intermediateValues, Nil where isValueSet is false
    phase,      \* of each participant: "upload", "sleep", "read", "done"
    sent,       \* whose combinations it has sent,
    fetched,    \* which ones it has read,
    last,       \* the last value it has read
    secret      \* what PerformHandshake returned

vars == <<process, deployed, pool, stored, phase, sent, fetched, last, secret>>

Init ==
    /\ process = "up"
    /\ deployed = FALSE
    /\ pool = [p \in Participant |-> << >>]
    /\ stored = [c \in Combo |-> Nil]
    /\ phase = [p \in Participant |-> "upload"]
    /\ sent = [p \in Participant |-> {}]
    /\ fetched = [p \in Participant |-> {}]
    /\ last = [p \in Participant |-> Nil]
    /\ secret = [p \in Participant |-> Nil]

(***************************************************************************)
(* The chain. A transaction to an address without code does nothing, and   *)
(* the fixed gas limit lets the client send it there. A value is set once; *)
(* the client never looks whether its transaction was reverted.            *)
(***************************************************************************)
Deploy ==
    /\ ~deployed
    /\ deployed' = TRUE
    /\ UNCHANGED <<process, pool, stored, phase, sent, fetched, last, secret>>

UploadIntermediateValue(tx) ==
    IF deployed /\ stored[tx.combo] = Nil
    THEN [stored EXCEPT ![tx.combo] = tx.value]
    ELSE stored

Mine(p) ==
    /\ pool[p] # << >>
    /\ stored' = UploadIntermediateValue(Head(pool[p]))
    /\ pool' = [pool EXCEPT ![p] = Tail(@)]
    /\ UNCHANGED <<process, deployed, phase, sent, fetched, last, secret>>

-----------------------------------------------------------------------------
\* The next participant in the order of the list of public keys.
First(i, S) == i \in S /\ \A k \in S : i <= k

\* Variant: the loop leaves out the participant after the one it sends to.
UploadSkipping(p) ==
    /\ process = "up" /\ phase[p] = "upload"
    /\ \E i \in Participant :
          /\ First(i, Others(p) \ sent[p])
          /\ pool' = [pool EXCEPT ![p] =
                        Append(@, [combo |-> <<p, i>>,
                                   value |-> DiffieHellmanStep(p, PublicKey(i))])]
          /\ sent' = [sent EXCEPT ![p] = @ \cup {i, i + 1}]
    /\ UNCHANGED <<process, deployed, stored, phase, fetched, last, secret>>

Upload(p) ==
    /\ process = "up" /\ phase[p] = "upload"
    /\ \E i \in Participant :
          /\ First(i, Others(p) \ sent[p])
          /\ pool' = [pool EXCEPT ![p] =
                        Append(@, [combo |-> <<p, i>>,
                                   value |-> DiffieHellmanStep(p, PublicKey(i))])]
          /\ sent' = [sent EXCEPT ![p] = @ \cup {i}]
    /\ UNCHANGED <<process, deployed, stored, phase, fetched, last, secret>>

\* Variant: the last participant of the loop is left out.
SleepEarly(p) ==
    /\ process = "up" /\ phase[p] = "upload" /\ sent[p] # {}
    /\ phase' = [phase EXCEPT ![p] = "sleep"]
    /\ UNCHANGED <<process, deployed, pool, stored, sent, fetched, last, secret>>

Sleep(p) ==
    /\ process = "up" /\ phase[p] = "upload" /\ sent[p] = Others(p)
    /\ phase' = [phase EXCEPT ![p] = "sleep"]
    /\ UNCHANGED <<process, deployed, pool, stored, sent, fetched, last, secret>>

\* One second has passed, whatever the others have done by then.
Wake(p) ==
    /\ process = "up" /\ phase[p] = "sleep"
    /\ phase' = [phase EXCEPT ![p] = "read"]
    /\ UNCHANGED <<process, deployed, pool, stored, sent, fetched, last, secret>>

\* Variant: without the condition j == index of the inner loop.
WantedByOuter(p) == {c \in Combo : c[1] # p}

\* The combinations of two others, read in the order of the nested loops.
Wanted(p) == {c \in Combo : c[1] # p /\ c[2] # p}

NextCombo(p, c) ==
    /\ c \in Wanted(p) \ fetched[p]
    /\ \A d \in Wanted(p) \ fetched[p] :
          c[1] < d[1] \/ (c[1] = d[1] /\ c[2] <= d[2])

\* Variant: getIntermediateValue without its require.
FetchUnchecked(p) ==
    /\ process = "up" /\ phase[p] = "read"
    /\ \E c \in Combo :
          /\ NextCombo(p, c)
          /\ fetched' = [fetched EXCEPT ![p] = @ \cup {c}]
          /\ last' = [last EXCEPT ![p] = stored[c]]
    /\ UNCHANGED <<process, deployed, pool, stored, phase, sent, secret>>

Fetch(p) ==
    /\ process = "up" /\ phase[p] = "read"
    /\ \E c \in Combo :
          /\ NextCombo(p, c)
          /\ stored[c] # Nil
          /\ fetched' = [fetched EXCEPT ![p] = @ \cup {c}]
          /\ last' = [last EXCEPT ![p] = stored[c]]
    /\ UNCHANGED <<process, deployed, pool, stored, phase, sent, secret>>

\* Reading a combination that is not set is an error, and main panics.
FetchUnset(p) ==
    /\ process = "up" /\ phase[p] = "read"
    /\ \E c \in Combo : NextCombo(p, c) /\ stored[c] = Nil
    /\ process' = "panicked"
    /\ UNCHANGED <<deployed, pool, stored, phase, sent, fetched, last, secret>>

\* computeFinalSecret goes through all values and keeps the last product.
Finish(p) ==
    /\ process = "up" /\ phase[p] = "read" /\ fetched[p] = Wanted(p)
    /\ secret' = [secret EXCEPT ![p] =
                    IF last[p] = Nil THEN Nil ELSE DiffieHellmanStep(p, last[p])]
    /\ phase' = [phase EXCEPT ![p] = "done"]
    /\ UNCHANGED <<process, deployed, pool, stored, sent, fetched, last>>

\* A call to the node fails: the error is returned, and main panics.
Cut ==
    /\ process = "up" /\ \E p \in Participant : phase[p] # "done"
    /\ process' = "cut"
    /\ UNCHANGED <<deployed, pool, stored, phase, sent, fetched, last, secret>>

PerformHandshake(p) ==
    \/ Upload(p) \/ Sleep(p) \/ Wake(p)
    \/ Fetch(p) \/ FetchUnset(p) \/ Finish(p)

Next ==
    \/ Deploy
    \/ Cut
    \/ \E p \in Participant : Mine(p) \/ PerformHandshake(p)

Spec == Init /\ [][Next]_vars

\* Blocks are mined and the goroutines run; no call has to fail.
FairSpec ==
    /\ Spec
    /\ WF_vars(Deploy)
    /\ \A p \in Participant : WF_vars(Mine(p)) /\ WF_vars(PerformHandshake(p))
-----------------------------------------------------------------------------
Point == [Participant -> Nat]
Transaction == [combo : Combo, value : Point]

\* The values of the program, the chain and the transactions in between.
TypeOK ==
    /\ process \in {"up", "panicked", "cut"}
    /\ deployed \in BOOLEAN
    /\ pool \in [Participant -> Seq(Transaction)]
    /\ stored \in [Combo -> Point \cup {Nil}]
    /\ phase \in [Participant -> {"upload", "sleep", "read", "done"}]
    /\ sent \in [Participant -> SUBSET Participant]
    /\ fetched \in [Participant -> SUBSET Combo]
    /\ last \in [Participant -> Point \cup {Nil}]
    /\ secret \in [Participant -> Point \cup {Nil}]

\* The keys of a set of participants, each one in it once.
Product(S) == [p \in Participant |-> IF p \in S THEN 1 ELSE 0]

\* Whoever finishes has the product of all private keys, its own and everybody
\* else's once each, in whatever order the uploads were mined and however early
\* somebody read, failed or was cut off.
SecretOfAll ==
    \A p \in Participant : phase[p] = "done" => secret[p] = Product(Participant)

\* Two participants that finish have the same secret, whichever number of them
\* the contract was deployed for.
SecretsAgree ==
    \A p, q \in Participant :
        phase[p] = "done" /\ phase[q] = "done" => secret[p] = secret[q]

\* Nobody finishes with a secret that depends on somebody who is not there: all
\* the others have computed, sent and got mined what they share with another.
SecretNeedsAll ==
    \A p \in Participant : phase[p] = "done" =>
        \A q \in Others(p) : \E i \in Others(q) : stored[<<q, i>>] # Nil

\* The one second was enough: the contract is there before the first upload,
\* no call fails, and nobody reads before all uploads are mined.
Timely ==
    /\ process # "cut"
    /\ (\E p \in Participant : pool[p] # << >>) => deployed
    /\ (\E p \in Participant : phase[p] = "read") =>
          \A q \in Participant : phase[q] # "upload" /\ pool[q] = << >>

\* The handshake ends with a secret for everybody if the second was enough, for
\* what is uploaded under one label is what the others read under it.
TimelyHandshake ==
    []Timely => <>(\A p \in Participant : phase[p] = "done" /\ secret[p] # Nil)

=============================================================================
