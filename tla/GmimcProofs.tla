---------------------------- MODULE GmimcProofs ----------------------------
(***************************************************************************)
(* A state of up to nine numbers is always read back, whatever the prime,  *)
(* the keys and the round constants are; and a state of up to nineteen     *)
(* never runs out of constants.                                            *)
(***************************************************************************)
EXTENDS Gmimc, TLAPS

Branches == [1..Width -> Field]

\* The number of rounds is odd up to nine branches: the order of two alternating
\* keys is then the same from both ends.
Short == Width =< 9

-----------------------------------------------------------------------------
(* Arithmetic of one branch.                                               *)

\* Subtracting what was added restores a field element.
LEMMA SubAdd ==
    ASSUME NEW P \in Nat \ {0}, NEW a \in 0..(P - 1), NEW t \in 0..(P - 1)
    PROVE  (((a + t) % P) - t) % P = a
<1>1. CASE a + t < P
  <2>1. (a + t) % P = a + t
    BY <1>1, SMT
  <2> QED
    BY <2>1, SMT
<1>2. CASE a + t >= P
  <2>1. (a + t) % P = a + t - P
    BY <1>2, SMT
  <2>2. (a + t - P - t) % P = a
    BY SMT
  <2> QED
    BY <2>1, <2>2, SMT
<1> QED
  BY <1>1, <1>2, SMT

LEMMA RemainderInField ==
    ASSUME NEW x \in Int PROVE x % ScalarField \in Field
BY FieldAssumption, SMT DEF Field

\* The seventh power is a field element.
LEMMA PowerInField ==
    ASSUME NEW t \in Int PROVE Exp7(t) \in Field
<1>1. t * t \in Int BY SMT
<1>2. t * t * t \in Int BY <1>1, SMT
<1>3. t * t * t * t \in Int BY <1>2, SMT
<1>4. t * t * t * t * t \in Int BY <1>3, SMT
<1>5. t * t * t * t * t * t \in Int BY <1>4, SMT
<1>6. t * t * t * t * t * t * t \in Int BY <1>5, SMT
<1> QED
  BY <1>6, RemainderInField DEF Exp7

-----------------------------------------------------------------------------
(* Inverses of the two halves of a round.                                  *)

LEMMA Unswap ==
    ASSUME Width \in Nat \ {0}, NEW s \in Branches
    PROVE  SwapLeft(SwapRight(s)) = s
BY SMT DEF SwapLeft, SwapRight, Branches

LEMMA SwapType ==
    ASSUME Width \in Nat \ {0}, NEW s \in Branches
    PROVE  SwapLeft(s) \in Branches /\ SwapRight(s) \in Branches
BY SMT DEF SwapLeft, SwapRight, Branches

\* The first branch passes through a round, so that the sum is the same again
\* when the key is.
LEMMA Unmix ==
    ASSUME Width \in Nat \ {0}, NEW s \in Branches, NEW i, NEW k,
           KeyOfRound(i) = KeyOfRound(k), KeyOfRound(k) \in Field,
           RoundConstant[k] \in Field
    PROVE  /\ Mixed(s, k) \in Branches
           /\ SubF(Mixed(s, k), Exp7(Sum(Mixed(s, k), i, k))) = s
<1> DEFINE t == Exp7(Sum(s, k, k))
<1>0. ScalarField \in Nat \ {0} /\ Field = 0..(ScalarField - 1)
  BY FieldAssumption DEF Field
<1>1. s[1] \in Field /\ \A j \in 1..Width : s[j] \in Field
  BY SMT DEF Branches
<1>2. s[1] + KeyOfRound(k) + RoundConstant[k] \in Int
  BY <1>0, <1>1, SMT
<1>3. Sum(s, k, k) \in Field
  BY <1>2, RemainderInField DEF Sum
<1>4. Sum(s, k, k) \in Int
  BY <1>3, <1>0, SMT
<1>5. t \in Field
  BY <1>4, PowerInField
<1>6. Mixed(s, k) = [j \in 1..Width |-> IF j = 1 THEN s[1]
                                         ELSE (s[j] + t) % ScalarField]
  BY DEF Mixed, AddF
<1>7. Mixed(s, k) \in Branches
  <2>1. \A j \in 1..Width : s[j] + t \in Int
    BY <1>0, <1>1, <1>5, SMT
  <2>2. \A j \in 1..Width : (s[j] + t) % ScalarField \in Field
    BY <2>1, RemainderInField
  <2> QED
    BY <1>1, <1>6, <2>2 DEF Branches
<1>8. Mixed(s, k)[1] = s[1]
  BY <1>6, SMT
<1>9. Exp7(Sum(Mixed(s, k), i, k)) = t
  BY <1>8 DEF Sum
<1> HIDE DEF t
<1>10. ASSUME NEW j \in 1..Width, j # 1
       PROVE  (Mixed(s, k)[j] - t) % ScalarField = s[j]
  <2>1. Mixed(s, k)[j] = (s[j] + t) % ScalarField
    BY <1>6, <1>10
  <2>2. (((s[j] + t) % ScalarField) - t) % ScalarField = s[j]
    BY <1>0, <1>1, <1>5, SubAdd
  <2> QED
    BY <2>1, <2>2
<1>11. SubF(Mixed(s, k), t)
         = [j \in 1..Width |-> IF j = 1 THEN s[1] ELSE s[j]]
  BY <1>8, <1>10 DEF SubF
<1>12. s = [j \in 1..Width |-> s[j]]
  BY DEF Branches
<1> QED
  BY <1>7, <1>9, <1>11, <1>12
-----------------------------------------------------------------------------
(* What the run of the cipher keeps.                                       *)

\* The history of an encryption that has passed r rounds.
Traced(r) ==
    /\ InField(key)
    /\ trace[0] = plain
    /\ \A i \in 0..r : trace[i] \in Branches
    /\ \A i \in 0..(r - 1) : trace[i + 1] = EncryptRound(trace[i], i)

\* The decryption that has passed r rounds is where the encryption was in the
\* mirrored one, after adding and in front of the swap.
Mirrored ==
    state = IF round < Rounds
            THEN Mixed(trace[Rounds - 1 - round], Rounds - 1 - round)
            ELSE plain

Domains ==
    /\ plain \in Plaintexts
    /\ key \in Keys
    /\ phase \in {"check", "encrypt", "decrypt", "done", "fatal", "panic"}
    /\ round \in 0..Rounds
    /\ phase = "check" => round = 0 /\ state = plain /\ trace[0] = plain

Reads ==
    /\ Domains
    /\ phase = "encrypt" => Traced(round) /\ state = trace[round]
    /\ phase = "decrypt" => Traced(Rounds) /\ Mirrored
    /\ phase = "done" => state = plain

\* The numbers of a state that Plaintexts holds.
LEMMA Shape ==
    ASSUME plain \in Plaintexts, key \in Keys
    PROVE  /\ Width \in Nat \ {0}
           /\ Rounds \in Nat \ {0}
           /\ InField(plain) => plain \in Branches
           /\ InField(key) => \A i \in Nat : KeyOfRound(i) \in Field
<1>1. plain \in Seq(Nat) /\ Len(plain) >= 1
  BY InputAssumption
<1>2. Width \in Nat \ {0}
  BY <1>1, SMT DEF Width
<1>3. Rounds \in Nat \ {0}
  <2>1. 181 + 2 * Width \in Nat \ {0}
    BY <1>2, SMT
  <2>2. 2 * (1 + Width + Width * Width) \in Nat
    BY <1>2, SMT
  <2> QED
    BY <2>1, <2>2, SMT DEF Rounds, GetGMiMCRounds
<1>4. ASSUME InField(plain) PROVE plain \in Branches
  <2>1. plain \in [1..Width -> Nat]
    BY <1>1, SMT DEF Width
  <2> QED
    BY <2>1, <1>4 DEF InField, Branches
<1>5. ASSUME InField(key), NEW i \in Nat PROVE KeyOfRound(i) \in Field
  <2>1. key \in Seq(Nat) /\ Len(key) = 2
    BY InputAssumption
  <2>2. DOMAIN key = 1..2
    BY <2>1, SMT
  <2>3. 1 + (i % 2) \in 1..2
    BY SMT
  <2> QED
    BY <2>2, <2>3, <1>5 DEF InField, KeyOfRound
<1> QED
  BY <1>2, <1>3, <1>4, <1>5

\* Up to nine branches: the number of rounds, and the keys from both ends.
LEMMA Mirror ==
    ASSUME plain \in Plaintexts, key \in Keys, Short
    PROVE  /\ Rounds = 181 + 2 * Width
           /\ Rounds <= Tabled
           /\ \A i \in 0..(Rounds - 1) : KeyOfRound(i) = KeyOfRound(Rounds - 1 - i)
<1>1. Width \in 1..9
  <2>1. Width \in Nat \ {0}
    BY Shape
  <2>2. Width <= 9
    BY DEF Short
  <2> QED
    BY <2>1, <2>2, SMT
<1>2. Rounds = 181 + 2 * Width
  <2>1. 2 * (1 + Width + Width * Width) <= 181 + 2 * Width
    <3>1. Width * Width <= 81
      BY <1>1, SMT
    <3> QED
      BY <1>1, <3>1, SMT
  <2> QED
    BY <2>1, <1>1, SMT DEF Rounds, GetGMiMCRounds
<1>3. Rounds <= Tabled
  BY <1>1, <1>2, SMT DEF Tabled
<1>4. ASSUME NEW i \in 0..(Rounds - 1)
      PROVE  i % 2 = (Rounds - 1 - i) % 2
  <2>1. Rounds - 1 - i = 2 * (90 + Width) - i
    BY <1>1, <1>2, SMT
  <2> QED
    BY <1>1, <1>2, <2>1, SMT
<1> QED
  BY <1>2, <1>3, <1>4 DEF KeyOfRound

LEMMA InitReads == Init => Reads
<1> SUFFICES ASSUME Init PROVE Reads
  OBVIOUS
<1>1. Rounds \in Nat
  BY Shape DEF Init
<1>2. 0 \in 0..Rounds
  BY <1>1, SMT
<1> QED
  BY <1>2 DEF Init, Reads, Domains

\* One pass of the loop of EncryptBig extends the history.
LEMMA EncryptReads ==
    ASSUME Reads, Short, Encrypt PROVE Reads'
<1>0. /\ Width' = Width /\ Rounds' = Rounds
      /\ phase = "encrypt" /\ phase' = "encrypt"
      /\ round \in Nat /\ round < Rounds /\ round < Tabled /\ round' = round + 1
  BY SMT DEF Encrypt, Reads, Domains, Width, Rounds
<1>1. Traced(round) /\ state = trace[round]
  BY <1>0 DEF Reads
<1>2. /\ Width \in Nat \ {0} /\ Rounds \in Nat \ {0}
      /\ \A i \in Nat : KeyOfRound(i) \in Field
  BY <1>1, Shape DEF Reads, Domains, Traced
<1>3. state \in Branches
  BY <1>0, <1>1, SMT DEF Traced
<1>4. state' = EncryptRound(state, round)
  BY DEF Encrypt
<1>5. state' \in Branches
  <2>1. RoundConstant[round] \in Field
    <3>1. round \in 0..(Tabled - 1)
      BY <1>0, SMT DEF Tabled
    <3> QED
      BY <3>1, ConstantAssumption
  <2>2. Mixed(state, round) \in Branches
    BY <1>0, <1>2, <1>3, <2>1, Unmix
  <2> QED
    BY <1>2, <1>4, <2>2, SwapType DEF EncryptRound
<1>6. trace' = [i \in 0..(round + 1) |->
                  IF i = round + 1 THEN state' ELSE trace[i]]
  BY DEF Encrypt
<1>7. /\ trace'[round + 1] = state'
      /\ \A i \in 0..round : trace'[i] = trace[i]
  BY <1>0, <1>6, SMT
<1>8. InField(key') /\ trace'[0] = plain'
  <2>1. key' = key /\ plain' = plain
    BY DEF Encrypt
  <2>2. 0 \in 0..round
    BY <1>0, SMT
  <2> QED
    BY <1>1, <1>7, <2>1, <2>2 DEF Traced
<1>9. \A i \in 0..(round + 1) : trace'[i] \in Branches
  <2> SUFFICES ASSUME NEW i \in 0..(round + 1) PROVE trace'[i] \in Branches
    OBVIOUS
  <2>1. CASE i = round + 1
    BY <1>5, <1>7, <2>1
  <2>2. CASE i # round + 1
    <3>1. i \in 0..round
      BY <1>0, <2>2, SMT
    <3> QED
      BY <1>1, <1>7, <3>1 DEF Traced
  <2> QED
    BY <2>1, <2>2
<1>10. \A i \in 0..round : trace'[i + 1] = EncryptRound(trace'[i], i)
  <2> SUFFICES ASSUME NEW i \in 0..round
               PROVE  trace'[i + 1] = EncryptRound(trace'[i], i)
    OBVIOUS
  <2>1. CASE i = round
    BY <1>1, <1>4, <1>7, <2>1
  <2>2. CASE i # round
    <3>1. i \in 0..(round - 1) /\ i + 1 \in 0..round
      BY <1>0, <2>2, SMT
    <3> QED
      BY <1>1, <1>7, <3>1 DEF Traced
  <2> QED
    BY <2>1, <2>2
<1>11. plain' = plain /\ key' = key
  BY DEF Encrypt
<1>12. Branches' = Branches
  BY <1>11 DEF Branches, Width
<1>13. \A i \in 0..round : EncryptRound(trace[i], i)' = EncryptRound(trace'[i], i)
  BY <1>11 DEF EncryptRound, Rounds, Width, SwapRight, Mixed, AddF, Sum, KeyOfRound
<1>14. Traced(round)'
  <2>1. (round + 1) - 1 = round
    BY <1>0, SMT
  <2> QED
    BY <1>0, <1>8, <1>9, <1>10, <1>12, <1>13, <2>1 DEF Traced, InField
<1>15. state' = trace'[round']
  BY <1>0, <1>7
<1>16. Domains'
  <2>1. round + 1 \in 0..Rounds
    BY <1>0, <1>2, SMT
  <2> QED
    BY <1>0, <1>11, <2>1 DEF Domains, Reads
<1> QED
  BY <1>0, <1>14, <1>15, <1>16 DEF Reads

\* A step that leaves the history alone leaves it a history.
LEMMA TracedKept ==
    ASSUME Traced(Rounds), Rounds' = Rounds, Width' = Width, trace' = trace,
           plain' = plain, key' = key
    PROVE  Traced(Rounds)'
<1>1. /\ InField(key)' /\ (trace[0] = plain)'
      /\ \A i \in 0..Rounds : (trace[i] \in Branches)'
  BY DEF Traced, InField, Branches
<1>2. \A i \in 0..(Rounds - 1) :
         EncryptRound(trace[i], i)' = EncryptRound(trace[i], i)
  BY DEF EncryptRound, SwapRight, Mixed, AddF, Sum, KeyOfRound
<1> QED
  BY <1>1, <1>2 DEF Traced

\* The last round of the encryption is the first that the decryption meets.
LEMMA PublishReads ==
    ASSUME Reads, Short, Publish PROVE Reads'
<1>0. /\ Width' = Width /\ Rounds' = Rounds /\ trace' = trace
      /\ plain' = plain /\ key' = key /\ state' = state
      /\ phase = "encrypt" /\ phase' = "decrypt"
      /\ round = Rounds /\ round' = 0
  BY DEF Publish, Width, Rounds
<1>1. Traced(Rounds) /\ state = trace[Rounds]
  BY <1>0 DEF Reads
<1>2. Rounds \in Nat \ {0}
  BY Shape DEF Reads, Domains
<1> DEFINE k == Rounds - 1
<1>3. k \in 0..(Rounds - 1) /\ k + 1 = Rounds /\ ~(k < Rounds - 1) /\ 0 < Rounds
      /\ Rounds - 1 - 0 = k
  BY <1>2, SMT
<1>4. state = EncryptRound(trace[k], k)
  BY <1>1, <1>3 DEF Traced
<1>5. state = Mixed(trace[k], k)
  BY <1>3, <1>4 DEF EncryptRound
<1>6. Mixed(trace[k], k)' = Mixed(trace[k], k)
  BY <1>0 DEF Mixed, AddF, Width, Sum, KeyOfRound
<1>7. Mirrored'
  BY <1>0, <1>3, <1>5, <1>6 DEF Mirrored, Mixed, AddF, Width, Sum, KeyOfRound
<1>8. Traced(Rounds)'
  BY <1>0, <1>1, TracedKept
<1>9. Domains'
  <2>1. 0 \in 0..Rounds
    BY <1>2, SMT
  <2> QED
    BY <1>0, <2>1 DEF Domains, Reads
<1> QED
  BY <1>0, <1>7, <1>8, <1>9 DEF Reads

\* One pass of the loop of DecryptBig undoes one of EncryptBig.
LEMMA DecryptReads ==
    ASSUME Reads, Short, Decrypt PROVE Reads'
<1>0. /\ Width' = Width /\ Rounds' = Rounds /\ trace' = trace
      /\ plain' = plain /\ key' = key
      /\ phase = "decrypt" /\ phase' = "decrypt"
      /\ round \in Nat /\ round < Rounds /\ round' = round + 1
      /\ state' = DecryptRound(state, round)
  BY SMT DEF Decrypt, Reads, Domains, Width, Rounds
<1>1. Traced(Rounds) /\ Mirrored
  BY <1>0 DEF Reads
<1>2. /\ Width \in Nat \ {0} /\ Rounds \in Nat \ {0}
      /\ \A i \in Nat : KeyOfRound(i) \in Field
  BY <1>1, Shape DEF Reads, Domains, Traced
<1> DEFINE k == Rounds - 1 - round
<1>3. k \in 0..(Rounds - 1) /\ k \in 0..Rounds /\ Rounds - round - 1 = k /\ k \in Nat
      /\ round \in 0..(Rounds - 1) /\ Rounds - 1 - round = k
  BY <1>0, <1>2, SMT
<1> HIDE DEF k
<1>4. trace[k] \in Branches
  BY <1>1, <1>3 DEF Traced
<1>5. state = Mixed(trace[k], k)
  BY <1>0, <1>1, <1>3 DEF Mirrored
<1>6. KeyOfRound(round) = KeyOfRound(k) /\ RoundConstant[k] \in Field
  <2>1. /\ Rounds <= Tabled
        /\ \A i \in 0..(Rounds - 1) : KeyOfRound(i) = KeyOfRound(Rounds - 1 - i)
    BY Mirror DEF Reads, Domains
  <2>2. k \in 0..(Tabled - 1)
    BY <1>2, <1>3, <2>1, SMT DEF Tabled
  <2> QED
    BY <1>3, <2>1, <2>2, ConstantAssumption
<1>7. SubF(state, Exp7(Sum(state, round, k))) = trace[k]
  BY <1>2, <1>3, <1>4, <1>5, <1>6, Unmix
<1>8. state' = IF round < Rounds - 1 THEN SwapLeft(trace[k]) ELSE trace[k]
  BY <1>0, <1>3, <1>7 DEF DecryptRound
<1>9. state' = IF round + 1 < Rounds THEN Mixed(trace[k - 1], k - 1) ELSE plain
  <2>1. CASE round < Rounds - 1
    <3>1. /\ k - 1 \in 0..(Rounds - 1) /\ (k - 1) + 1 = k /\ k - 1 < Rounds - 1
          /\ k - 1 \in 0..Rounds /\ round + 1 < Rounds /\ k - 1 \in Nat
          /\ k - 1 \in 0..(Tabled - 1) \/ Tabled < Rounds
      BY <1>0, <1>2, <1>3, <2>1, SMT DEF k, Tabled
    <3>2. trace[k] = EncryptRound(trace[k - 1], k - 1)
      BY <1>1, <3>1 DEF Traced
    <3>3. trace[k] = SwapRight(Mixed(trace[k - 1], k - 1))
      BY <3>1, <3>2 DEF EncryptRound
    <3>4. trace[k - 1] \in Branches
      BY <1>1, <3>1 DEF Traced
    <3>5. RoundConstant[k - 1] \in Field
      <4>1. Rounds <= Tabled
        BY Mirror DEF Reads, Domains
      <4>2. k - 1 \in 0..(Tabled - 1)
        BY <1>2, <3>1, <4>1, SMT DEF Tabled
      <4> QED
        BY <4>2, ConstantAssumption
    <3>6. Mixed(trace[k - 1], k - 1) \in Branches
      BY <1>2, <3>1, <3>4, <3>5, Unmix
    <3> QED
      BY <1>2, <1>8, <2>1, <3>1, <3>3, <3>6, Unswap
  <2>2. CASE ~(round < Rounds - 1)
    <3>1. k = 0 /\ ~(round + 1 < Rounds)
      BY <1>0, <1>2, <2>2, SMT DEF k
    <3>2. trace[0] = plain
      BY <1>1 DEF Traced
    <3> QED
      BY <1>8, <2>2, <3>1, <3>2
  <2> QED
    BY <2>1, <2>2
<1>10. Mirrored'
  <2>1. Rounds - 1 - (round + 1) = k - 1
    BY <1>0, <1>2, SMT DEF k
  <2>2. Mixed(trace[Rounds - 1 - round], Rounds - 1 - round)'
          = Mixed(trace[k - 1], k - 1)
    BY <1>0, <2>1 DEF Mixed, AddF, Width, Sum, KeyOfRound
  <2> QED
    BY <1>0, <1>9, <2>2 DEF Mirrored
<1>11. Traced(Rounds)'
  BY <1>0, <1>1, TracedKept
<1>12. Domains'
  <2>1. round + 1 \in 0..Rounds
    BY <1>0, <1>2, SMT
  <2> QED
    BY <1>0, <2>1 DEF Domains, Reads
<1> QED
  BY <1>0, <1>10, <1>11, <1>12 DEF Reads

LEMMA ReadsStep ==
    ASSUME Reads, Short, [Next]_vars PROVE Reads'
<1>1. CASE Check
  <2>0. Width' = Width /\ Rounds' = Rounds /\ plain' = plain /\ key' = key
    BY <1>1 DEF Check, Width, Rounds
  <2>1. /\ phase = "check" /\ phase' \in {"encrypt", "fatal"}
        /\ phase' = "encrypt" => InField(plain) /\ InField(key)
        /\ round = 0 /\ round' = 0 /\ state = plain /\ state' = plain
        /\ trace[0] = plain /\ trace' = trace
    BY <1>1 DEF Check, Reads, Domains
  <2>2. InField(plain) => plain \in Branches
    BY Shape DEF Reads, Domains
  <2>3. 0..0 = {0} /\ 0..(0 - 1) = {}
    BY SMT
  <2>4. phase' = "encrypt" => Traced(0)'
    BY <2>0, <2>1, <2>2, <2>3 DEF Traced, InField, Branches, Width
  <2>5. Domains'
    BY <2>0, <2>1 DEF Domains, Reads
  <2> QED
    BY <2>1, <2>4, <2>5 DEF Reads, Traced
<1>2. CASE Encrypt
  BY <1>2, EncryptReads
<1>3. CASE Panic
  <2>1. Width' = Width /\ Rounds' = Rounds /\ phase' = "panic"
    BY <1>3 DEF Panic, Width, Rounds
  <2>2. Domains'
    BY <1>3, <2>1 DEF Panic, Domains, Reads
  <2> QED
    BY <2>1, <2>2 DEF Reads
<1>4. CASE Publish
  BY <1>4, PublishReads
<1>5. CASE Decrypt
  BY <1>5, DecryptReads
<1>6. CASE Return
  <2>1. /\ Width' = Width /\ Rounds' = Rounds /\ phase' = "done"
        /\ phase = "decrypt" /\ round = Rounds /\ state' = state /\ plain' = plain
    BY <1>6 DEF Return, Width, Rounds
  <2>2. Rounds \in Nat
    BY Shape DEF Reads, Domains
  <2>3. ~(round < Rounds)
    BY <2>1, <2>2, SMT
  <2>4. state' = plain'
    BY <2>1, <2>3 DEF Reads, Mirrored
  <2>5. Domains'
    BY <1>6, <2>1 DEF Return, Domains, Reads
  <2> QED
    BY <2>1, <2>4, <2>5 DEF Reads
<1>7. CASE UNCHANGED vars
  <2>1. /\ Width' = Width /\ Rounds' = Rounds /\ plain' = plain /\ key' = key
        /\ phase' = phase /\ round' = round /\ state' = state /\ trace' = trace
    BY <1>7 DEF vars, Width, Rounds
  <2>2. Domains' = Domains
    BY <2>1 DEF Domains
  <2>3. Traced(round)' = Traced(round) /\ Traced(Rounds)' = Traced(Rounds)
    BY <2>1 DEF Traced, InField, Branches, EncryptRound, Rounds, Width,
       SwapRight, Mixed, AddF, Sum, KeyOfRound
  <2>4. Mirrored' = Mirrored
    BY <2>1 DEF Mirrored, Mixed, AddF, Width, Sum, KeyOfRound
  <2> QED
    BY <2>1, <2>2, <2>3, <2>4 DEF Reads
<1> QED
  BY <1>1, <1>2, <1>3, <1>4, <1>5, <1>6, <1>7 DEF Next

\* The length of a state does not change.
LEMMA ShortReads == Spec => [](Short => Reads)
<1>1. Init => Reads
  BY InitReads
<1>2. ASSUME Short => Reads, [Next]_vars PROVE (Short => Reads)'
  <2>1. plain' = plain
    BY <1>2 DEF Next, Check, Encrypt, Panic, Publish, Decrypt, Return, vars
  <2>2. Short' <=> Short
    BY <2>1 DEF Short, Width
  <2> QED
    BY <1>2, <2>2, ReadsStep
<1> QED
  BY <1>1, <1>2, PTL DEF Spec

\* A state of up to nine numbers is read back as it was written: DecryptBig gives
\* back what EncryptBig was given, for every prime, every two keys and all round
\* constants, although it runs the keys forwards.
THEOREM ShortRoundTrip == Spec => []ShortTrip
<1>1. (Short => Reads) => ShortTrip
  BY DEF Reads, RoundTrip, Short, ShortTrip
<1> QED
  BY <1>1, ShortReads, PTL
-----------------------------------------------------------------------------
(* The table of constants.                                                 *)

\* Up to nineteen branches there are at most 800 rounds.
LEMMA RoundsOfNineteen ==
    ASSUME NEW b \in 1..19 PROVE GetGMiMCRounds(b) <= 800
<1>1. b * b <= 361
  BY SMT
<1> QED
  BY <1>1, SMT DEF GetGMiMCRounds

\* Only a state of twenty numbers or more runs out of the constants that
\* generateConstantsData computes, whatever its numbers and the keys are.
THEOREM TableSuffices == Spec => []LongEnough
<1> DEFINE Inv == /\ plain \in Plaintexts
                  /\ round \in Nat
                  /\ phase = "panic" => Rounds > Tabled
<1>1. Init => Inv
  BY DEF Init
<1>2. Inv /\ [Next]_vars => Inv'
  <2> SUFFICES ASSUME Inv, [Next]_vars PROVE Inv'
    OBVIOUS
  <2>0. UNCHANGED <<plain>> => Rounds' = Rounds
    BY DEF Rounds, Width
  <2>1. CASE Panic
    <3>1. Rounds \in Nat
      <4>1. Width \in Nat
        BY InputAssumption, SMT DEF Width
      <4>2. Width * Width \in Nat
        BY <4>1, SMT
      <4> QED
        BY <4>1, <4>2, SMT DEF Rounds, GetGMiMCRounds
    <3>2. Rounds > Tabled
      BY <2>1, <3>1, SMT DEF Panic, Tabled
    <3> QED
      BY <2>0, <2>1, <3>2 DEF Panic
  <2>2. CASE Check
    BY <2>0, <2>2 DEF Check
  <2>3. CASE Encrypt
    BY <2>0, <2>3, SMT DEF Encrypt
  <2>4. CASE Publish
    BY <2>0, <2>4, SMT DEF Publish
  <2>5. CASE Decrypt
    BY <2>0, <2>5, SMT DEF Decrypt
  <2>6. CASE Return
    BY <2>0, <2>6 DEF Return
  <2>7. CASE UNCHANGED vars
    BY <2>0, <2>7 DEF vars
  <2> QED
    BY <2>1, <2>2, <2>3, <2>4, <2>5, <2>6, <2>7 DEF Next
<1>3. Inv => LongEnough
  <2> SUFFICES ASSUME Inv, phase = "panic" PROVE Width >= 20
    BY DEF LongEnough
  <2>1. Width \in Nat \ {0}
    BY InputAssumption, SMT DEF Width
  <2>2. Width \in 1..19 => Rounds <= 800
    BY RoundsOfNineteen DEF Rounds
  <2>3. Rounds > 800
    BY DEF Tabled
  <2>4. Rounds \in Nat
    <3>1. Width * Width \in Nat
      BY <2>1, SMT
    <3> QED
      BY <2>1, <3>1, SMT DEF Rounds, GetGMiMCRounds
  <2> QED
    BY <2>1, <2>2, <2>3, <2>4, SMT
<1> QED
  BY <1>1, <1>2, <1>3, PTL DEF Spec
-----------------------------------------------------------------------------
(* The two implementations of the seventh power.                           *)

LEMMA Division ==
    ASSUME NEW P \in Nat \ {0}, NEW x \in Int
    PROVE  /\ x % P \in 0..(P - 1)
           /\ x \div P \in Int
           /\ x = P * (x \div P) + (x % P)
BY SMT

\* No multiple of P but 0 is that near to 0.
LEMMA NearMultiple ==
    ASSUME NEW P \in Nat \ {0}, NEW k \in Int, P * k < P, 0 - P < P * k
    PROVE  k = 0
<1>1. k >= 1 => P * k >= P
  BY SMT
<1>2. k <= -1 => P * k <= 0 - P
  BY SMT
<1> QED
  BY <1>1, <1>2, SMT

LEMMA SameRemainder ==
    ASSUME NEW P \in Nat \ {0}, NEW x \in Int, NEW y \in Int, NEW m \in Int,
           x = y + P * m
    PROVE  x % P = y % P
<1> DEFINE q == x \div P
           u == y \div P
           r == x % P
           s == y % P
<1>1. /\ q \in Int /\ u \in Int /\ r \in 0..(P - 1) /\ s \in 0..(P - 1)
      /\ x = P * q + r /\ y = P * u + s
  BY Division
<1> HIDE DEF q, u, r, s
<1>2. P * (u + m - q) = P * u + P * m - P * q
  BY <1>1, SMT
<1>3. P * u \in Int /\ P * q \in Int /\ P * m \in Int /\ u + m - q \in Int
  BY <1>1, SMT
<1>4. P * (u + m - q) = r - s
  BY <1>1, <1>2, <1>3, SMT
<1>5. u + m - q = 0
  BY <1>1, <1>3, <1>4, NearMultiple, SMT
<1>6. P * (u + m - q) = 0
  BY <1>5, SMT
<1> QED
  BY <1>1, <1>4, <1>6, SMT DEF r, s

\* A factor may be reduced before it is multiplied.
LEMMA ReducedFactor ==
    ASSUME NEW P \in Nat \ {0}, NEW a \in Int, NEW b \in Int
    PROVE  ((a % P) * b) % P = (a * b) % P
<1> DEFINE q == a \div P
           r == a % P
<1>1. q \in Int /\ r \in Int /\ a = P * q + r
  BY Division, SMT
<1> HIDE DEF q, r
<1>2. a * b = r * b + P * (q * b)
  BY <1>1, SMT
<1>3. a * b \in Int /\ r * b \in Int /\ q * b \in Int
  BY <1>1, SMT
<1>4. (a * b) % P = (r * b) % P
  BY <1>2, <1>3, SameRemainder
<1> QED
  BY <1>4 DEF r

LEMMA ReducedFactors ==
    ASSUME NEW P \in Nat \ {0}, NEW a \in Int, NEW b \in Int
    PROVE  ((a % P) * (b % P)) % P = (a * b) % P
<1>1. b % P \in Int /\ a % P \in Int
  BY Division, SMT
<1>2. ((a % P) * (b % P)) % P = (a * (b % P)) % P
  BY <1>1, ReducedFactor
<1>3. a * (b % P) = (b % P) * a /\ a * b = b * a
  BY <1>1, SMT
<1>4. ((b % P) * a) % P = (b * a) % P
  BY <1>1, ReducedFactor
<1> QED
  BY <1>2, <1>3, <1>4

\* The circuit reduces after each of its multiplications, EncryptBig once.
LEMMA SamePower ==
    ASSUME NEW t \in Int PROVE Mul7(t) = Exp7(t)
<1> DEFINE P == ScalarField
           s2 == t * t
           s4 == s2 * s2
           s6 == s4 * s2
<1>0. P \in Nat \ {0}
  BY FieldAssumption
<1>1. s2 \in Int /\ s4 \in Int /\ s6 \in Int
  BY SMT
<1>2. Mul7(t) = ((((((s2 % P) * (s2 % P)) % P) * (s2 % P)) % P) * t) % P
  BY DEF Mul7
<1>3. s6 * t = t * t * t * t * t * t * t
  BY SMT
<1>4. Exp7(t) = (s6 * t) % P
  BY <1>3 DEF Exp7
<1> HIDE DEF s6
<1>5. s6 = s4 * s2
  BY DEF s6
<1> HIDE DEF s4
<1>6. s4 = s2 * s2
  BY DEF s4
<1> HIDE DEF s2, P
<1>7. ((s2 % P) * (s2 % P)) % P = s4 % P
  BY <1>0, <1>1, <1>6, ReducedFactors
<1>8. ((s4 % P) * (s2 % P)) % P = s6 % P
  BY <1>0, <1>1, <1>5, ReducedFactors
<1>9. ((s6 % P) * t) % P = (s6 * t) % P
  BY <1>0, <1>1, ReducedFactor
<1> QED
  BY <1>2, <1>4, <1>7, <1>8, <1>9
-----------------------------------------------------------------------------
(* What the branches of both implementations are.                          *)

\* While the branches are numbers of the field, so is the sum of a round; the
\* circuit's round is the same, and leads to numbers of the field.
LEMMA RoundsAgree ==
    ASSUME Width \in Nat \ {0}, NEW s \in Branches, NEW i, NEW c,
           KeyOfRound(i) \in Field, RoundConstant[c] \in Field
    PROVE  /\ Mul7(Sum(s, i, c)) = Exp7(Sum(s, i, c))
           /\ AddF(s, Exp7(Sum(s, i, c))) \in Branches
           /\ SubF(s, Exp7(Sum(s, i, c))) \in Branches
<1> DEFINE t == Exp7(Sum(s, i, c))
<1>0. ScalarField \in Nat \ {0} /\ Field = 0..(ScalarField - 1)
  BY FieldAssumption DEF Field
<1>1. s[1] \in Field /\ \A j \in 1..Width : s[j] \in Field
  BY SMT DEF Branches
<1>2. s[1] + KeyOfRound(i) + RoundConstant[c] \in Int
  BY <1>0, <1>1, SMT
<1>3. Sum(s, i, c) \in Field
  BY <1>2, RemainderInField DEF Sum
<1>4. Sum(s, i, c) \in Int
  BY <1>0, <1>3, SMT
<1>5. t \in Field
  BY <1>4, PowerInField
<1> HIDE DEF t
<1>6. \A j \in 1..Width : s[j] + t \in Int /\ s[j] - t \in Int
  BY <1>0, <1>1, <1>5, SMT
<1>7. \A j \in 1..Width : /\ (s[j] + t) % ScalarField \in Field
                          /\ (s[j] - t) % ScalarField \in Field
  BY <1>6, RemainderInField
<1>8. AddF(s, t) \in Branches /\ SubF(s, t) \in Branches
  BY <1>1, <1>7 DEF AddF, SubF, Branches
<1> QED
  BY <1>4, <1>8, SamePower DEF t

\* TypeOK, and what it rests on: the table reaches as far as the encryption did.
TypeInv ==
    /\ plain \in Plaintexts /\ key \in Keys
    /\ TypeOK
    /\ phase \in {"encrypt", "decrypt", "done", "panic"} => InField(key)
    /\ phase \in {"encrypt", "panic"} => round <= Tabled
    /\ phase \in {"decrypt", "done"} => Rounds <= Tabled
    /\ phase \in {"check", "fatal"} => state = plain
    /\ phase = "check" => round = 0

AgreeInv == TypeInv /\ CircuitAgrees

LEMMA AgreeStep == AgreeInv /\ [Next]_vars => AgreeInv'
<1> SUFFICES ASSUME AgreeInv, [Next]_vars PROVE AgreeInv'
  OBVIOUS
<1>0. /\ UNCHANGED plain => Width' = Width /\ Rounds' = Rounds /\ Branches' = Branches
      /\ Branches = [1..Width -> Field]
      /\ Width \in Nat \ {0} /\ Rounds \in Nat \ {0}
      /\ InField(plain) => plain \in Branches
      /\ InField(key) => \A i \in Nat : KeyOfRound(i) \in Field
      /\ round \in 0..Rounds
  BY Shape DEF Width, Rounds, Branches, AgreeInv, TypeInv, TypeOK
<1>1. ASSUME Check PROVE AgreeInv'
  <2>1. /\ plain' = plain /\ key' = key /\ round' = round
        /\ state' = state /\ circuit' = circuit /\ state = plain /\ round \in 0..Rounds
        /\ Width' = Width /\ Rounds' = Rounds
    BY <1>0, <1>1 DEF Check, AgreeInv, TypeInv
  <2>2. CASE InField(plain) /\ InField(key)
    <3>1. phase' = "encrypt" /\ state \in Branches /\ InField(key)'
      BY <1>0, <1>1, <2>1, <2>2 DEF Check, InField
    <3>2. round = 0 /\ 0 <= Tabled
      BY <1>1, SMT DEF Check, AgreeInv, TypeInv, Tabled
    <3> QED
      BY <1>0, <2>1, <3>1, <3>2 DEF AgreeInv, TypeInv, TypeOK, CircuitAgrees
  <2>3. CASE ~(InField(plain) /\ InField(key))
    <3>1. phase' = "fatal"
      BY <1>1, <2>3 DEF Check
    <3> QED
      BY <2>1, <3>1 DEF AgreeInv, TypeInv, TypeOK, CircuitAgrees
  <2> QED
    BY <2>2, <2>3
<1>2. ASSUME Encrypt PROVE AgreeInv'
  <2>1. /\ plain' = plain /\ key' = key
        /\ phase = "encrypt" /\ phase' = "encrypt" /\ round < Rounds /\ round < Tabled
        /\ round' = round + 1
        /\ state' = EncryptRound(state, round)
        /\ circuit' = CircuitEncryptRound(circuit, round)
    BY <1>2 DEF Encrypt
  <2>2. circuit = state /\ state \in Branches /\ InField(key)
    BY <1>0, <2>1 DEF AgreeInv, TypeInv, TypeOK, CircuitAgrees
  <2>3. round \in Nat /\ round \in 0..(Tabled - 1) /\ round + 1 \in 0..Rounds
        /\ round + 1 <= Tabled
    BY <1>0, <2>1, SMT DEF Tabled
  <2>4. /\ Mul7(Sum(state, round, round)) = Exp7(Sum(state, round, round))
        /\ AddF(state, Exp7(Sum(state, round, round))) \in Branches
    BY <1>0, <2>2, <2>3, ConstantAssumption, RoundsAgree
  <2>5. state' = circuit' /\ state' \in Branches
    BY <1>0, <2>1, <2>2, <2>4, SwapType DEF EncryptRound, CircuitEncryptRound, Mixed
  <2> QED
    BY <1>0, <2>1, <2>2, <2>3, <2>5
    DEF AgreeInv, TypeInv, TypeOK, CircuitAgrees, InField
<1>3. ASSUME Panic PROVE AgreeInv'
  BY <1>0, <1>3 DEF Panic, AgreeInv, TypeInv, TypeOK, CircuitAgrees, InField, Branches
<1>4. ASSUME Publish PROVE AgreeInv'
  <2>1. 0 \in 0..Rounds
    BY <1>0, SMT
  <2> QED
    BY <1>0, <1>4, <2>1
    DEF Publish, AgreeInv, TypeInv, TypeOK, CircuitAgrees, InField, Branches
<1>5. ASSUME Decrypt PROVE AgreeInv'
  <2>1. /\ plain' = plain /\ key' = key
        /\ phase = "decrypt" /\ phase' = "decrypt" /\ round < Rounds
        /\ round' = round + 1
        /\ state' = DecryptRound(state, round)
        /\ circuit' = CircuitDecryptRound(circuit, round)
    BY <1>5 DEF Decrypt
  <2>2. circuit = state /\ state \in Branches /\ InField(key) /\ Rounds <= Tabled
    BY <1>0, <2>1 DEF AgreeInv, TypeInv, TypeOK, CircuitAgrees
  <2> DEFINE c == Rounds - round - 1
  <2>3. round \in Nat /\ c \in 0..(Tabled - 1) /\ round + 1 \in 0..Rounds
    BY <1>0, <2>1, <2>2, SMT DEF Tabled
  <2> HIDE DEF c
  <2>4. /\ Mul7(Sum(state, round, c)) = Exp7(Sum(state, round, c))
        /\ SubF(state, Exp7(Sum(state, round, c))) \in Branches
    BY <1>0, <2>2, <2>3, ConstantAssumption, RoundsAgree
  <2>5. state' = circuit' /\ state' \in Branches
    BY <1>0, <2>1, <2>2, <2>4, SwapType DEF DecryptRound, CircuitDecryptRound, c
  <2> QED
    BY <1>0, <2>1, <2>2, <2>3, <2>5
    DEF AgreeInv, TypeInv, TypeOK, CircuitAgrees, InField
<1>6. ASSUME Return PROVE AgreeInv'
  BY <1>0, <1>6 DEF Return, AgreeInv, TypeInv, TypeOK, CircuitAgrees, InField, Branches
<1>7. ASSUME UNCHANGED vars PROVE AgreeInv'
  BY <1>0, <1>7 DEF vars, AgreeInv, TypeInv, TypeOK, CircuitAgrees, InField, Branches
<1> QED
  BY <1>1, <1>2, <1>3, <1>4, <1>5, <1>6, <1>7 DEF Next

LEMMA AlwaysAgree == Spec => []AgreeInv
<1>1. Init => AgreeInv
  <2> SUFFICES ASSUME Init PROVE AgreeInv
    OBVIOUS
  <2>1. 0 \in 0..Rounds
    BY Shape, SMT DEF Init
  <2> QED
    BY <2>1 DEF Init, AgreeInv, TypeInv, TypeOK, CircuitAgrees
<1> QED
  BY <1>1, AgreeStep, PTL DEF Spec

\* From the check of the input on, the branches of a run are field elements, for
\* states of every length and to the end of the table of constants.
THEOREM TypeCorrect == Spec => []TypeOK
<1>1. AgreeInv => TypeOK
  BY DEF AgreeInv, TypeInv
<1> QED
  BY <1>1, AlwaysAgree, PTL

\* The circuit computes what pkg/crypto computes: after every round, in both
\* directions, for every prime, all keys and all round constants, and states of
\* every length, although it multiplies where pkg/crypto exponentiates.
THEOREM CircuitCorrect == Spec => []CircuitAgrees
<1>1. AgreeInv => CircuitAgrees
  BY DEF AgreeInv
<1> QED
  BY <1>1, AlwaysAgree, PTL
=============================================================================
