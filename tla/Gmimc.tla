-------------------------------- MODULE Gmimc --------------------------------
(***************************************************************************)
(* The cipher of the published state, round by round: EncryptBig when the  *)
(* input file is filled in, DecryptBig when the state is read back, and in *)
(* step with them Encrypt and Decrypt of the circuit.                      *)
(***************************************************************************)
EXTENDS GmimcRounds, Sequences

CONSTANTS
    Plaintexts,      \* sequences of numbers, one per branch
    Keys,            \* pairs of numbers, for Hkdf is asked for two
    ScalarField,     \* the prime of the field
    RoundConstant    \* cts, by round

Field == 0..(ScalarField - 1)

ASSUME FieldAssumption == ScalarField \in Nat \ {0}
ASSUME InputAssumption ==
    /\ \A p \in Plaintexts : p \in Seq(Nat) /\ Len(p) >= 1
    /\ \A k \in Keys : k \in Seq(Nat) /\ Len(k) = 2
ASSUME ConstantAssumption ==
    \A i \in 0..(Tabled - 1) : RoundConstant[i] \in Field

VARIABLES
    plain,     \* compressedStateNew,
    key,       \* the two keys derived from the shared secret and the salts
    phase,     \* "check", "encrypt", "decrypt", "done"; "fatal" or "panic"
    round,     \* of the loop in this phase
    state,     \* the branches in pkg/crypto/gmimc
    circuit,   \* and in pkg/circuits/gmimc
    trace      \* history: the branches in front of each round of EncryptBig

vars == <<plain, key, phase, round, state, circuit, trace>>

Width == Len(plain)

Rounds == GetGMiMCRounds(Width)

\* key[i % len(key)], in Go's indices.
KeyOfRound(i) == key[1 + (i % 2)]

InField(s) == \A j \in DOMAIN s : s[j] \in Field

\* The seventh power, by Exp and by the circuit's multiplications.
Exp7(t) == (t * t * t * t * t * t * t) % ScalarField
Mul7(t) ==
    LET Mul(a, b) == (a * b) % ScalarField
        t2 == Mul(t, t)
        t4 == Mul(t2, t2)
    IN Mul(Mul(t4, t2), t)

\* The sum that goes into the power in a round, and what comes of adding or
\* subtracting its result on all branches but the first.
Sum(s, i, c) == (s[1] + KeyOfRound(i) + RoundConstant[c]) % ScalarField
AddF(s, t) == [j \in 1..Width |-> IF j = 1 THEN s[1] ELSE (s[j] + t) % ScalarField]
SubF(s, t) == [j \in 1..Width |-> IF j = 1 THEN s[1] ELSE (s[j] - t) % ScalarField]

\* The Feistel swap and its inverse.
SwapRight(s) == [j \in 1..Width |-> IF j = 1 THEN s[Width] ELSE s[j - 1]]
SwapLeft(s)  == [j \in 1..Width |-> IF j = Width THEN s[1] ELSE s[j + 1]]

-----------------------------------------------------------------------------
Mixed(s, i) == AddF(s, Exp7(Sum(s, i, i)))

\* Variant: the sum of a branch is not reduced.
UnreducedRound(s, i) ==
    LET t == Exp7(Sum(s, i, i))
        m == [j \in 1..Width |-> IF j = 1 THEN s[1] ELSE s[j] + t]
    IN IF i < Rounds - 1 THEN SwapRight(m) ELSE m

\* One pass of the loop of EncryptBig; no swap in the last.
EncryptRound(s, i) ==
    IF i < Rounds - 1 THEN SwapRight(Mixed(s, i)) ELSE Mixed(s, i)

\* Variant: the constants in the order of encryption.
DecryptForward(s, i) ==
    LET m == SubF(s, Exp7(Sum(s, i, i)))
    IN IF i < Rounds - 1 THEN SwapLeft(m) ELSE m

\* One pass of the loop of DecryptBig: the constants run backwards, the keys do
\* not.
DecryptRound(s, i) ==
    LET m == SubF(s, Exp7(Sum(s, i, Rounds - i - 1)))
    IN IF i < Rounds - 1 THEN SwapLeft(m) ELSE m

\* Variant: the circuit swaps in the last round too.
CircuitSwapsAlways(s, i) == SwapRight(AddF(s, Mul7(Sum(s, i, i))))

\* The same passes as constraints.
CircuitEncryptRound(s, i) ==
    LET m == AddF(s, Mul7(Sum(s, i, i)))
    IN IF i < Rounds - 1 THEN SwapRight(m) ELSE m

CircuitDecryptRound(s, i) ==
    LET m == SubF(s, Mul7(Sum(s, i, Rounds - i - 1)))
    IN IF i < Rounds - 1 THEN SwapLeft(m) ELSE m

-----------------------------------------------------------------------------
Init ==
    /\ plain \in Plaintexts
    /\ key \in Keys
    /\ phase = "check"
    /\ round = 0
    /\ state = plain
    /\ circuit = plain
    /\ trace = [i \in {0} |-> plain]

\* Numbers outside the field end the program.
Check ==
    /\ phase = "check"
    /\ phase' = IF InField(plain) /\ InField(key) THEN "encrypt" ELSE "fatal"
    /\ UNCHANGED <<plain, key, round, state, circuit, trace>>

Encrypt ==
    /\ phase = "encrypt" /\ round < Rounds /\ round < Tabled
    /\ state' = EncryptRound(state, round)
    /\ circuit' = CircuitEncryptRound(circuit, round)
    /\ trace' = [i \in 0..(round + 1) |-> IF i = round + 1 THEN state' ELSE trace[i]]
    /\ round' = round + 1
    /\ UNCHANGED <<plain, key, phase>>

\* There is no constant for this round.
Panic ==
    /\ phase = "encrypt" /\ round < Rounds /\ round >= Tabled
    /\ phase' = "panic"
    /\ UNCHANGED <<plain, key, round, state, circuit, trace>>

\* The branches are published, and somebody with the same keys reads them.
Publish ==
    /\ phase = "encrypt" /\ round = Rounds
    /\ phase' = "decrypt"
    /\ round' = 0
    /\ UNCHANGED <<plain, key, state, circuit, trace>>

Decrypt ==
    /\ phase = "decrypt" /\ round < Rounds
    /\ state' = DecryptRound(state, round)
    /\ circuit' = CircuitDecryptRound(circuit, round)
    /\ round' = round + 1
    /\ UNCHANGED <<plain, key, phase, trace>>

Return ==
    /\ phase = "decrypt" /\ round = Rounds
    /\ phase' = "done"
    /\ UNCHANGED <<plain, key, round, state, circuit, trace>>

Next == Check \/ Encrypt \/ Panic \/ Publish \/ Decrypt \/ Return

Spec == Init /\ [][Next]_vars
-----------------------------------------------------------------------------
\* Branches of field elements throughout, once the input is checked.
TypeOK ==
    /\ phase \in {"check", "encrypt", "decrypt", "done", "fatal", "panic"}
    /\ round \in 0..Rounds
    /\ phase \in {"encrypt", "decrypt", "done", "panic"} =>
          state \in [1..Width -> Field]

\* Who knows the keys reads what was written: DecryptBig gives back the
\* compressed state that EncryptBig was given, for every length of the state.
RoundTrip == phase = "done" => state = plain

\* It does for the lengths with an odd number of rounds, up to nine.
ShortTrip == Width =< 9 => RoundTrip

\* The circuit refuses no ciphertext that fill-inputs computes, and accepts no
\* other: both implementations have the same branches after every round.
CircuitAgrees == circuit = state

\* The table of round constants is long enough for a state of 19 numbers, a
\* task state, a salt and 17 variables, messages and balances.
LongEnough == phase = "panic" => Width >= 20
=============================================================================
