--------------------------- MODULE PipelineProofs ---------------------------
(***************************************************************************)
(* Theorems about ClientPipeline, for any number of tasks, map entries,    *)
(* salts and transactions in flight: no step is taken twice, and whoever   *)
(* knows the salts of the stored state can read it, and from it the state  *)
(* of every task.                                                          *)
(***************************************************************************)
EXTENDS ClientPipeline, Lemmas, SequenceTheorems, FiniteSetTheorems, TLAPS

\* The salt is the second number of a packed state, in every order of its maps.
Salt(packed) == packed[2]

LEMMA OrderedNames ==
    ASSUME NEW S, IsFiniteSet(S), S \subseteq Names, NEW q \in SetToSeqs(S)
    PROVE  q \in Seq(Names)
<1>1. Cardinality(S) \in Nat
  BY FS_CardinalityType
<1>2. q \in [1..Cardinality(S) -> Names]
  BY DEF SetToSeqs
<1>3. QED
  BY <1>1, <1>2

LEMMA FirstTwoOfConcat ==
    ASSUME NEW S, NEW a \in Seq(S), NEW b \in Seq(S), Len(a) = 2
    PROVE  (a \o b)[1] = a[1] /\ (a \o b)[2] = a[2] /\ a \o b # << >>
<1>1. Len(b) \in Nat /\ Len(a \o b) = Len(a) + Len(b)
  <2>1. Len(a \o b) = Len(a) + Len(b)
    BY ConcatProperties, Zenon
  <2>2. QED
    BY <2>1, LenProperties
<1>2. \A i \in 1..Len(a) + Len(b) :
         (a \o b)[i] = IF i <= Len(a) THEN a[i] ELSE b[i - Len(a)]
  BY ConcatProperties, Zenon
<1>3. {1, 2} \subseteq 1..Len(a) + Len(b) /\ 1 <= Len(a) /\ 2 <= Len(a)
  BY <1>1
<1>4. QED
  BY <1>1, <1>2, <1>3

LEMMA PackedFacts ==
    ASSUME NEW s, NEW order \in Orders
    PROVE  /\ Packed(s, order) # << >> /\ Salt(Packed(s, order)) = s.salt
           /\ Packed(s, order)[1] = Compress(s.states)
<1>1. order \in Seq(Names)
  <2>1. PICK v \in SetToSeqs(Variables), m \in SetToSeqs(Messages),
             b \in SetToSeqs(Balances) : order = v \o m \o b
    BY DEF Orders
  <2>2. v \in Seq(Names) /\ m \in Seq(Names) /\ b \in Seq(Names)
    BY OrderedNames, NamesAssumption DEF Names
  <2>3. v \o m \in Seq(Names)
    BY <2>2, ConcatProperties
  <2>4. QED
    BY <2>1, <2>2, <2>3, ConcatProperties
<1> DEFINE head == <<Compress(s.states), s.salt>>
<1> DEFINE tail == [i \in 1..Len(order) |-> s.map[order[i]]]
<1> DEFINE Numbers == {head[1], head[2]} \cup {tail[i] : i \in 1..Len(order)}
<1> HIDE DEF Numbers
<1>2. head \in Seq(Numbers) /\ Len(head) = 2 /\ head[1] = Compress(s.states)
      /\ head[2] = s.salt
  BY DEF Numbers
<1>3. Len(order) \in Nat
  BY <1>1
<1>4. tail \in [1..Len(order) -> Numbers]
  BY DEF Numbers
<1>5. tail \in Seq(Numbers) /\ Len(tail) = Len(order)
  BY <1>3, <1>4, SMT
<1> HIDE DEF head, tail
<1>6. /\ (head \o tail)[1] = head[1] /\ (head \o tail)[2] = head[2]
      /\ head \o tail # << >>
  BY <1>2, <1>5, FirstTwoOfConcat
<1>7. Packed(s, order) = head \o tail
  BY DEF Packed, head, tail
<1>9. QED
  BY <1>2, <1>6, <1>7 DEF Salt
-----------------------------------------------------------------------------
(* Packing the task states into a number, and unpacking them.              *)

Codes == 0..15

\* The digits that Decompress finds, for every number up to the one it unpacks.
LEMMA DecompressUnfolds ==
    ASSUME NEW number \in Nat
    PROVE  \E digits \in [0..number -> Seq(Codes)] :
              /\ Decompress(number) = digits[number]
              /\ digits[0] = << >>
              /\ \A n \in 1..number :
                    digits[n] = Append(digits[n \div 16], n % 16)
<1> DEFINE D == 0..number
           Rank == [n \in D |-> n]
           Step(f, n) == Append(f[n \div 16], n % 16)
           Body == [f \in [D -> Seq(Codes)] |->
                      [n \in D |-> IF n = 0 THEN << >> ELSE Step(f, n)]]
           Eq(f) == f = [n \in D |-> IF n = 0 THEN << >> ELSE Step(f, n)]
<1>1. ASSUME NEW n \in D, n # 0
      PROVE  n \div 16 \in D /\ n \div 16 < n /\ n % 16 \in Codes
  BY <1>1, SMT DEF Codes
<1>2. ASSUME NEW f \in [D -> Seq(Codes)], NEW n \in D
      PROVE  (IF n = 0 THEN << >> ELSE Step(f, n)) \in Seq(Codes)
  <2>1. CASE n = 0
    BY <2>1
  <2>2. CASE n # 0
    <3>1. f[n \div 16] \in Seq(Codes) /\ n % 16 \in Codes
      BY <1>1, <2>2
    <3> HIDE DEF D
    <3> QED
      BY <2>2, <3>1, AppendProperties
  <2> QED
    BY <2>1, <2>2
<1>3. LooksDown(D, Seq(Codes), number, Rank, Body)
  <2>1. Rank \in [D -> 0..number]
    OBVIOUS
  <2>2. Body \in [[D -> Seq(Codes)] -> [D -> Seq(Codes)]]
    <3> HIDE DEF D, Step
    <3> QED
      BY <1>2
  <2>3. ASSUME NEW f1 \in [D -> Seq(Codes)], NEW f2 \in [D -> Seq(Codes)], NEW n \in D,
               \A h \in D : Rank[h] < Rank[n] => f1[h] = f2[h]
        PROVE  Body[f1][n] = Body[f2][n]
    <3>1. n # 0 => f1[n \div 16] = f2[n \div 16]
      BY <1>1, <2>3
    <3> QED
      BY <3>1
  <2> HIDE DEF Rank, Body, D
  <2> QED
    BY <2>1, <2>2, <2>3 DEF LooksDown
<1>4. \E f \in [D -> Seq(Codes)] : f = Body[f]
  <2> DEFINE V == Seq(Codes)
  <2>1. << >> \in V
    OBVIOUS
  <2>2. LooksDown(D, V, number, Rank, Body) /\ V # {}
    BY <1>3, <2>1
  <2> HIDE DEF Rank, Body, D, V
  <2>3. \E f \in [D -> V] : f = Body[f]
    BY <2>2, Recursion
  <2> QED
    BY <2>3 DEF V
<1>5. \E f \in [D -> Seq(Codes)] : Eq(f)
  <2> HIDE DEF Step
  <2> QED
    BY <1>4
<1> DEFINE digits == CHOOSE f : Eq(f)
<1>6. Eq(digits)
  <2> HIDE DEF Eq
  <2> QED
    BY <1>5
<1>7. Decompress(number) = digits[number]
  BY DEF Decompress
<1> HIDE DEF digits
<1>8. /\ digits[0] = << >>
      /\ \A n \in 1..number : digits[n] = Append(digits[n \div 16], n % 16)
  <2>1. 0 \in D /\ \A n \in 1..number : n \in D /\ n # 0
    OBVIOUS
  <2>2. \A n \in D : digits[n] = IF n = 0 THEN << >> ELSE Step(digits, n)
    <3> HIDE DEF D, Step
    <3> QED
      BY <1>6
  <2>3. \A n \in 1..number : digits[n] = Step(digits, n)
    <3> HIDE DEF D, Step
    <3> QED
      BY <2>1, <2>2
  <2> QED
    BY <2>1, <2>2, <2>3
<1> DEFINE S == {n \in D : \A m \in 0..n : digits[m] \in Seq(Codes)}
<1>9. 0 \in S /\ \A n \in 1..number : n - 1 \in S => n \in S
  <2>1. 0 \in S
    <3>1. digits[0] \in Seq(Codes)
      BY <1>8
    <3>2. \A m \in 0..0 : m = 0
      OBVIOUS
    <3>3. 0 \in D
      OBVIOUS
    <3> QED
      BY <3>1, <3>2, <3>3
  <2>2. ASSUME NEW n \in 1..number, n - 1 \in S PROVE n \in S
    <3>1. n \in D /\ n # 0
      OBVIOUS
    <3>2. n \div 16 \in 0..(n - 1) /\ n % 16 \in Codes
      BY <1>1, <3>1, SMT
    <3>3. digits[n \div 16] \in Seq(Codes)
      BY <2>2, <3>2
    <3>4. digits[n] \in Seq(Codes)
      <4>1. digits[n] = Append(digits[n \div 16], n % 16)
        BY <1>8
      <4> QED
        <5>1. Append(digits[n \div 16], n % 16) \in Seq(Codes)
          BY <3>2, <3>3, AppendProperties
        <5> QED
          BY <4>1, <5>1
    <3>5. \A m \in 0..n : m = n \/ m \in 0..(n - 1)
      OBVIOUS
    <3> QED
      BY <2>2, <3>1, <3>4, <3>5
  <2> QED
    BY <2>1, <2>2
<1>10. D \subseteq S
  <2> HIDE DEF S
  <2> QED
    BY <1>9, UpTo
<1>11. digits \in [D -> Seq(Codes)]
  <2>1. \A n \in D : digits[n] \in Seq(Codes)
    BY <1>10
  <2> QED
    BY <1>6, <2>1
<1> QED
  BY <1>7, <1>8, <1>11

\* get-state reads the states that were packed, but for zeros in front.
LEMMA PackedReadsBack ==
    ASSUME NEW q \in Seq(Codes)
    PROVE  \E k \in 0..Len(q) :
              /\ \A i \in 1..k : q[i] = 0
              /\ Decompress(Compress(q)) = SubSeq(q, k + 1, Len(q))
<1> DEFINE L == Len(q)
<1>1. PICK sum \in [0..L -> Nat] :
              /\ Compress(q) = sum[L]
              /\ sum[0] = 0
              /\ \A i \in 1..L : sum[i] = 16 * sum[i - 1] + q[i]
  <2>1. q \in Seq(Nat)
    BY SeqMonotonic DEF Codes
  <2> QED
    BY <2>1, CompressUnfolds
<1>2. L \in Nat /\ \A i \in 1..L : q[i] \in Codes
  OBVIOUS
<1> DEFINE number == sum[L]
<1>3. number \in Nat
  BY <1>1, <1>2
<1>4. PICK digits \in [0..number -> Seq(Codes)] :
              /\ Decompress(number) = digits[number]
              /\ digits[0] = << >>
              /\ \A n \in 1..number : digits[n] = Append(digits[n \div 16], n % 16)
  BY <1>3, DecompressUnfolds
<1> HIDE DEF number
<1>5. ASSUME NEW i \in 1..L
      PROVE  /\ i - 1 \in 0..L /\ sum[i - 1] \in Nat /\ sum[i] \in Nat
             /\ sum[i - 1] =< sum[i]
             /\ sum[i] \div 16 = sum[i - 1] /\ sum[i] % 16 = q[i]
             /\ sum[i] = 0 <=> sum[i - 1] = 0 /\ q[i] = 0
  <2>1. i - 1 \in 0..L /\ sum[i - 1] \in Nat /\ q[i] \in 0..15
        /\ sum[i] = 16 * sum[i - 1] + q[i]
    BY <1>1, <1>2 DEF Codes
  <2> DEFINE a == sum[i - 1]  b == sum[i]  d == q[i]
  <2>2. a \in Nat /\ d \in 0..15 /\ b = 16 * a + d
    BY <2>1
  <2> HIDE DEF a, b, d
  <2>3. b \in Nat /\ a =< b /\ b \div 16 = a /\ b % 16 = d /\ (b = 0 <=> a = 0 /\ d = 0)
    BY <2>2, SMT
  <2> QED
    BY <2>1, <2>3 DEF a, b, d
<1> DEFINE Below == {j \in 0..L : sum[L - j] =< number}
<1>6. 0..L \subseteq Below
  <2>1. 0 \in Below
    BY <1>2, <1>3 DEF number
  <2>2. ASSUME NEW j \in 1..L, j - 1 \in Below PROVE j \in Below
    <3>1. L - j + 1 \in 1..L /\ L - (j - 1) = L - j + 1 /\ L - j + 1 - 1 = L - j
      BY <1>2
    <3>2. sum[L - j] =< sum[L - j + 1] /\ sum[L - j] \in Nat /\ sum[L - j + 1] \in Nat
      BY <1>5, <3>1
    <3>3. sum[L - j + 1] =< number
      BY <2>2, <3>1
    <3> QED
      BY <1>3, <3>2, <3>3
  <2> HIDE DEF Below
  <2> QED
    BY <1>2, <2>1, <2>2, UpTo
<1>7. ASSUME NEW i \in 0..L PROVE sum[i] \in 0..number
  <2>1. L - i \in 0..L /\ L - (L - i) = i
    BY <1>2
  <2>2. sum[L - (L - i)] =< number
    BY <1>6, <2>1
  <2>3. sum[i] \in Nat /\ sum[i] =< number
    BY <2>1, <2>2
  <2> QED
    BY <1>3, <2>3
<1> DEFINE Reads(i, k) == /\ \A j \in 1..k : q[j] = 0
                          /\ Len(digits[sum[i]]) = i - k
                          /\ \A j \in 1..(i - k) : digits[sum[i]][j] = q[k + j]
           Read == {i \in 0..L : \E k \in 0..i : Reads(i, k)}
<1>8. 0 \in Read
  <2>1. Reads(0, 0)
    BY <1>1, <1>4
  <2> HIDE DEF Reads
  <2> QED
    BY <1>2, <2>1
<1>9. ASSUME NEW i \in 1..L, i - 1 \in Read PROVE i \in Read
  <2>1. PICK k \in 0..(i - 1) : Reads(i - 1, k)
    BY <1>9
  <2> DEFINE before == digits[sum[i - 1]]
  <2>2. before \in Seq(Codes) /\ q[i] \in Codes
    BY <1>2, <1>5, <1>7
  <2>3. CASE sum[i] = 0
    <3>1. sum[i - 1] = 0 /\ q[i] = 0 /\ Len(digits[0]) = 0
      BY <1>4, <1>5, <2>3
    <3>2. k = i - 1
      BY <2>1, <3>1
    <3>3. Reads(i, i)
      <4>1. \A j \in 1..i : j = i \/ j \in 1..k
        BY <3>2
      <4>2. \A j \in 1..i : q[j] = 0
        BY <2>1, <3>1, <4>1
      <4> QED
        BY <2>3, <3>1, <4>2
    <3> HIDE DEF Reads
    <3> QED
      BY <1>2, <3>3
  <2>4. CASE sum[i] # 0
    <3>1. digits[sum[i]] = Append(before, q[i])
      <4>1. sum[i] \in 1..number
        BY <1>7, <2>4
      <4>2. digits[sum[i]] = Append(digits[sum[i] \div 16], sum[i] % 16)
        BY <1>4, <4>1
      <4> QED
        BY <1>5, <4>2
    <3> DEFINE after == digits[sum[i]]
    <3>2. /\ Len(after) = Len(before) + 1
          /\ \A j \in 1..Len(before) : after[j] = before[j]
          /\ after[Len(before) + 1] = q[i]
      <4> HIDE DEF before
      <4> QED
        BY <2>2, <3>1, AppendProperties
    <3>3. /\ Len(before) = (i - 1) - k
          /\ \A j \in 1..(i - 1) - k : before[j] = q[k + j]
          /\ \A j \in 1..k : q[j] = 0
      BY <2>1
    <3> HIDE DEF before, after
    <3>4. Len(after) = i - k
      BY <3>2, <3>3
    <3>5. ASSUME NEW j \in 1..(i - k) PROVE after[j] = q[k + j]
      <4>1. CASE j = i - k
        <5>1. j = Len(before) + 1 /\ k + j = i
          BY <3>3, <4>1
        <5> QED
          BY <3>2, <5>1
      <4>2. CASE j # i - k
        <5>1. j \in 1..Len(before) /\ j \in 1..(i - 1) - k
          BY <3>3, <4>2
        <5> QED
          BY <3>2, <3>3, <5>1
      <4> QED
        BY <4>1, <4>2
    <3>6. Reads(i, k)
      BY <3>3, <3>4, <3>5 DEF after
    <3> HIDE DEF Reads
    <3> QED
      BY <1>2, <3>6
  <2> QED
    BY <2>3, <2>4
<1>10. L \in Read
  <2>1. \A i \in 1..L : i - 1 \in Read => i \in Read
    BY <1>9
  <2> HIDE DEF Read
  <2>2. 0..L \subseteq Read
    BY <1>2, <1>8, <2>1, UpTo
  <2> QED
    BY <1>2, <2>2
<1>11. PICK k \in 0..L : Reads(L, k)
  BY <1>10
<1>12. digits[number] = SubSeq(q, k + 1, L)
  <2>1. digits[number] \in Seq(Codes)
    BY <1>3
  <2>2. \A j \in (k + 1)..L : q[j] \in Codes
    BY <1>2
  <2>3. /\ SubSeq(q, k + 1, L) \in Seq(Codes)
        /\ Len(SubSeq(q, k + 1, L)) = IF k + 1 <= L THEN L - (k + 1) + 1 ELSE 0
        /\ \A j \in 1..L - (k + 1) + 1 : SubSeq(q, k + 1, L)[j] = q[(k + 1) + j - 1]
    <3>1. k + 1 \in Int /\ L \in Int
      BY <1>2
    <3> HIDE DEF L
    <3> QED
      BY <2>2, <3>1, SubSeqProperties
  <2>4. Len(SubSeq(q, k + 1, L)) = L - k
    BY <1>2, <2>3
  <2>5. \A j \in 1..(L - k) : SubSeq(q, k + 1, L)[j] = q[k + j]
    <3>1. \A j \in 1..(L - k) : j \in 1..L - (k + 1) + 1 /\ (k + 1) + j - 1 = k + j
      BY <1>2
    <3> QED
      BY <2>3, <3>1
  <2>6. Len(digits[number]) = L - k /\ \A j \in 1..(L - k) : digits[number][j] = q[k + j]
    BY <1>11 DEF number
  <2> DEFINE left == digits[number]  right == SubSeq(q, k + 1, L)
  <2>7. /\ left \in Seq(Codes) /\ right \in Seq(Codes) /\ Len(left) = Len(right)
        /\ \A j \in 1..Len(left) : left[j] = right[j]
    BY <2>1, <2>3, <2>4, <2>5, <2>6
  <2> HIDE DEF left, right
  <2>8. left = right
    BY <2>7, SeqEqual
  <2> QED
    BY <2>8 DEF left, right
<1> QED
  BY <1>1, <1>4, <1>11, <1>12 DEF number
-----------------------------------------------------------------------------
TakenSalts == {Salt(p.hashCurr) : p \in taken}

\* Public inputs of the step in the input file, or of one whose current state
\* the contract has left behind.
Filed(public) ==
    /\ public.hashCurr # << >> /\ public.hashNew # << >>
    /\ Salt(public.hashCurr) # 0 /\ Salt(public.hashNew) # 0
    /\ \/ Salt(public.hashCurr) \in TakenSalts
       \/ /\ Salt(public.hashCurr) = input.curr.salt
          /\ Salt(public.hashNew) = input.new.salt

\* The salts in the input file are drawn or yet to be drawn, each once, and no
\* step from the file's new state was taken.
FileInv ==
    /\ "salt" \in DOMAIN input.curr /\ "salt" \in DOMAIN input.new
    /\ 0 \notin drawn
    /\ input.curr.salt \in drawn \cup {0}
    /\ input.new.salt \in drawn \cup {0}
    /\ input.curr.salt = input.new.salt => input.new.salt = 0
    /\ TakenSalts \subseteq drawn
    /\ input.new.salt \notin TakenSalts
    /\ step # "fill" =>
          /\ input.curr.salt # 0 /\ input.new.salt # 0
          /\ input.hashCurr # << >> /\ Salt(input.hashCurr) = input.curr.salt
          /\ input.hashNew # << >> /\ Salt(input.hashNew) = input.new.salt

FlightInv ==
    /\ \E S : pending \in Seq(S)
    /\ \A i \in 1..Len(pending) : Filed(pending[i].public)
    /\ step \in {"prove", "send", "sent"} => Filed(witness.public)

\* The contract is at one of the two states in the file, and no step from there
\* was taken.
ContractInv ==
    /\ contract = [hash |-> contract.hash, cipher |-> contract.cipher,
                   curr |-> contract.curr, new |-> contract.new]
    /\ step = "deploy" => contract.hash = << >>
    /\ contract.hash = << >> => taken = {} /\ contract.new = None
    /\ contract.hash # << >> =>
          /\ Salt(contract.hash) \in drawn \ TakenSalts
          /\ input.curr.salt # 0
          /\ \/ Salt(contract.hash) = input.curr.salt
             \/ /\ Salt(contract.hash) = input.new.salt
                /\ input.curr.salt \in TakenSalts

SaltInv == FileInv /\ FlightInv /\ ContractInv

\* The encrypted list is the one that is hashed, under the key of the salts.
Opens(w) ==
    w.public.encrypted = [key |-> Hkdf(w.curr.salt, w.new.salt), data |-> w.public.hashNew]

SealedInv ==
    /\ step \in {"prove", "send", "sent"} => Opens(witness)
    /\ step \in {"send", "sent"} => Opens(proof)
    /\ \A i \in 1..Len(pending) : Opens(pending[i].proof)
    /\ contract.new # None =>
          contract.cipher = [key  |-> Hkdf(contract.curr.salt, contract.new.salt),
                             data |-> contract.hash]

-----------------------------------------------------------------------------
\* A salt that is filled in is the one in the file or a fresh one.
LEMMA SaltOfFacts ==
    ASSUME NEW s, NEW used, NEW r \in SaltOf(s, used)
    PROVE  \/ s.salt # 0 /\ r = s.salt
           \/ s.salt = 0 /\ r \notin used /\ r # 0
<1>1. CASE s.salt = 0
  <2>1. r \in Salts \ used
    BY <1>1 DEF SaltOf, GenerateSalt
  <2>2. QED
    BY <1>1, <2>1, SaltsAssumption
<1>2. CASE s.salt # 0
  BY <1>2 DEF SaltOf
<1>3. QED
  BY <1>1, <1>2

\* fill-inputs puts two different salts into the file, and the hashes with them.
LEMMA FillInputsKeeps ==
    ASSUME SaltInv, SealedInv, FillInputs
    PROVE  SaltInv' /\ SealedInv'
<1>1. PICK r1 \in SaltOf(input.curr, drawn) :
        \E r2 \in SaltOf(input.new, drawn \cup {r1}), o1, o2 \in Orders :
          LET curr == [input.curr EXCEPT !.salt = r1]
              new == [input.new EXCEPT !.salt = r2]
              packed == Packed(new, o2)
          IN /\ input' = [curr |-> curr, new |-> new,
                          hashCurr |-> Packed(curr, o1), hashNew |-> packed,
                          encrypted |-> Sealed(curr, new, packed)]
             /\ drawn' = drawn \cup {r1, r2}
  BY DEF FillInputs
<1>2. PICK r2 \in SaltOf(input.new, drawn \cup {r1}), o1 \in Orders, o2 \in Orders :
        /\ input'.curr = [input.curr EXCEPT !.salt = r1]
        /\ input'.new = [input.new EXCEPT !.salt = r2]
        /\ input'.hashCurr = Packed(input'.curr, o1)
        /\ input'.hashNew = Packed(input'.new, o2)
        /\ drawn' = drawn \cup {r1, r2}
  BY <1>1
<1>3. /\ input'.curr.salt = r1 /\ "salt" \in DOMAIN input'.curr
      /\ input'.new.salt = r2 /\ "salt" \in DOMAIN input'.new
  BY <1>2 DEF SaltInv, FileInv
<1>4. /\ step = "fill" /\ step' \in {"deploy", "witness"}
      /\ step' = "deploy" => contract.hash = << >>
      /\ UNCHANGED <<witness, proof, pending, contract, taken>>
  BY DEF FillInputs
<1>5. \/ input.curr.salt # 0 /\ r1 = input.curr.salt
      \/ input.curr.salt = 0 /\ r1 \notin drawn /\ r1 # 0
  BY SaltOfFacts
<1>6. \/ input.new.salt # 0 /\ r2 = input.new.salt
      \/ input.new.salt = 0 /\ r2 \notin drawn \cup {r1} /\ r2 # 0
  BY SaltOfFacts
<1>7. TakenSalts' = TakenSalts
  BY <1>4 DEF TakenSalts
<1>8. FileInv'
  <2>1. r1 # 0 /\ r2 # 0 /\ r1 # r2 /\ 0 \notin drawn'
    BY <1>2, <1>5, <1>6 DEF SaltInv, FileInv
  <2>2. r2 \notin TakenSalts
    BY <1>6 DEF SaltInv, FileInv
  <2>3. /\ input'.hashCurr # << >> /\ Salt(input'.hashCurr) = r1
        /\ input'.hashNew # << >> /\ Salt(input'.hashNew) = r2
    BY <1>2, <1>3, PackedFacts
  <2>4. TakenSalts \subseteq drawn'
    BY <1>2 DEF SaltInv, FileInv
  <2>5. QED
    BY <1>2, <1>3, <1>7, <2>1, <2>2, <2>3, <2>4 DEF FileInv
<1>9. FlightInv'
  <2>1. ASSUME NEW i \in 1..Len(pending) PROVE Filed(pending[i].public)'
    BY <1>3, <1>4, <1>5, <1>6, <1>7 DEF SaltInv, FlightInv, Filed
  <2>2. QED
    BY <1>4, <2>1 DEF SaltInv, FlightInv
<1>10. ContractInv'
  BY <1>2, <1>3, <1>4, <1>5, <1>6, <1>7 DEF SaltInv, FileInv, ContractInv
<1>11. SealedInv'
  BY <1>4 DEF SealedInv, Opens
<1>12. QED
  BY <1>8, <1>9, <1>10, <1>11 DEF SaltInv

\* The first fill-inputs decides the contract's first hash.
LEMMA DeployKeeps ==
    ASSUME SaltInv, SealedInv, Deploy
    PROVE  SaltInv' /\ SealedInv'
<1>1. /\ step = "deploy" /\ step' = "witness" /\ contract.hash = << >>
      /\ UNCHANGED <<input, witness, proof, pending, drawn, taken>>
  BY DEF Deploy, SaltInv, ContractInv
<1>2. contract' = [hash |-> input.hashCurr, cipher |-> contract.cipher,
                   curr |-> contract.curr, new |-> contract.new]
  BY DEF Deploy, SaltInv, ContractInv
<1>3. TakenSalts' = TakenSalts /\ TakenSalts = {} /\ contract.new = None
  BY <1>1 DEF TakenSalts, SaltInv, ContractInv
<1>4. FileInv'
  BY <1>1, <1>3 DEF SaltInv, FileInv
<1>5. FlightInv'
  BY <1>1, <1>3 DEF SaltInv, FlightInv, Filed
<1>6. ContractInv'
  BY <1>1, <1>2, <1>3 DEF SaltInv, FileInv, ContractInv
<1>7. SealedInv'
  BY <1>1, <1>2, <1>3 DEF SealedInv, Opens
<1>8. QED
  BY <1>4, <1>5, <1>6, <1>7 DEF SaltInv

\* A witness has the salts and hashes of the file it is computed from.
LEMMA ComputeWitnessKeeps ==
    ASSUME SaltInv, SealedInv, ComputeWitness
    PROVE  SaltInv' /\ SealedInv'
<1>1. /\ step = "witness"
      /\ UNCHANGED <<input, proof, pending, contract, drawn, taken>>
  BY DEF ComputeWitness
<1>2. TakenSalts' = TakenSalts
  BY <1>1 DEF TakenSalts
<1>3. \/ step' \in {"witness", "fill"} /\ UNCHANGED witness
      \/ /\ step' = "prove"
         /\ witness' = [public |-> [hashCurr |-> input.hashCurr,
                                    hashNew |-> input.hashNew,
                                    encrypted |-> input.encrypted],
                        curr |-> input.curr, new |-> input.new]
         /\ \E o1, o2 \in Orders : Solved(o1, o2)
  BY DEF ComputeWitness
<1>4. FileInv'
  BY <1>1, <1>2, <1>3 DEF SaltInv, FileInv
<1>5. FlightInv'
  <2>1. \A i \in 1..Len(pending) : Filed(pending[i].public)'
    BY <1>1, <1>2 DEF SaltInv, FlightInv, Filed
  <2>2. step' = "prove" => Filed(witness.public)'
    BY <1>1, <1>2, <1>3 DEF SaltInv, FileInv, Filed
  <2>3. step' \notin {"send", "sent"}
    BY <1>3
  <2>4. QED
    BY <1>1, <1>3, <2>1, <2>2, <2>3 DEF SaltInv, FlightInv
<1>6. ContractInv'
  BY <1>1, <1>2, <1>3 DEF SaltInv, ContractInv
<1>7. SealedInv'
  <2>1. step' = "prove" => Opens(witness)'
    <3>1. SUFFICES ASSUME step' = "prove" PROVE Opens(witness)'
      OBVIOUS
    <3>2. PICK o1, o2 : Solved(o1, o2)
      BY <1>3, <3>1
    <3>3. input.encrypted = [key  |-> Hkdf(input.curr.salt, input.new.salt),
                             data |-> input.hashNew]
      BY <3>2 DEF Solved, CircuitSealed
    <3>4. QED
      BY <1>3, <3>1, <3>3 DEF Opens
  <2>2. /\ \A i \in 1..Len(pending) : Opens(pending[i].proof)'
        /\ step' \notin {"send", "sent"}
    BY <1>1, <1>3 DEF SealedInv, Opens
  <2>3. QED
    BY <1>1, <1>3, <2>1, <2>2 DEF SealedInv
<1>8. QED
  BY <1>4, <1>5, <1>6, <1>7 DEF SaltInv

\* What is proved and sent is the last witness.
LEMMA ProveKeeps ==
    ASSUME SaltInv, SealedInv, Prove
    PROVE  SaltInv' /\ SealedInv'
<1>1. /\ step = "prove" /\ step' = "send" /\ proof' = witness
      /\ UNCHANGED <<input, witness, pending, contract, drawn, taken>>
  BY DEF Prove
<1>2. TakenSalts' = TakenSalts
  BY <1>1 DEF TakenSalts
<1>3. FileInv'
  BY <1>1, <1>2 DEF SaltInv, FileInv
<1>4. FlightInv'
  BY <1>1, <1>2 DEF SaltInv, FlightInv, Filed
<1>5. ContractInv'
  BY <1>1, <1>2 DEF SaltInv, ContractInv
<1>6. SealedInv'
  BY <1>1 DEF SealedInv, Opens
<1>7. QED
  BY <1>3, <1>4, <1>5, <1>6 DEF SaltInv

\* The transactions in flight after one more was sent.
LEMMA AppendedOne ==
    ASSUME NEW q, NEW S, q \in Seq(S), NEW tx
    PROVE  /\ \E T : Append(q, tx) \in Seq(T)
           /\ \A i \in 1..Len(Append(q, tx)) :
                 \/ Append(q, tx)[i] = tx
                 \/ i \in 1..Len(q) /\ Append(q, tx)[i] = q[i]
<1> DEFINE Sent == S \cup {tx}
<1>1. q \in Seq(Sent) /\ tx \in Sent
  OBVIOUS
<1> HIDE DEF Sent
<1>2. /\ Append(q, tx) \in Seq(Sent) /\ Len(Append(q, tx)) = Len(q) + 1
      /\ \A i \in 1..Len(q) : Append(q, tx)[i] = q[i]
      /\ Append(q, tx)[Len(q) + 1] = tx
  BY <1>1, AppendProperties
<1>3. Len(q) \in Nat
  OBVIOUS
<1>4. QED
  BY <1>2, <1>3

LEMMA StepModelKeeps ==
    ASSUME SaltInv, SealedInv, StepModel
    PROVE  SaltInv' /\ SealedInv'
<1> DEFINE tx == [proof |-> proof, public |-> witness.public]
<1>1. /\ step \in {"send", "sent"} /\ step' = "sent"
      /\ pending' = Append(pending, tx)
      /\ UNCHANGED <<input, witness, proof, contract, drawn, taken>>
  BY DEF StepModel
<1>2. TakenSalts' = TakenSalts
  BY <1>1 DEF TakenSalts
<1>3. PICK S : pending \in Seq(S)
  BY DEF SaltInv, FlightInv
<1> HIDE DEF tx
<1>4. /\ \E T : pending' \in Seq(T)
      /\ \A i \in 1..Len(pending') :
            \/ pending'[i] = tx
            \/ i \in 1..Len(pending) /\ pending'[i] = pending[i]
  BY <1>1, <1>3, AppendedOne
<1>5. FileInv'
  BY <1>1, <1>2 DEF SaltInv, FileInv
<1>6. FlightInv'
  <2>1. \A i \in 1..Len(pending) : Filed(pending[i].public)'
    BY <1>1, <1>2 DEF SaltInv, FlightInv, Filed
  <2>2. Filed(witness.public)'
    BY <1>1, <1>2 DEF SaltInv, FlightInv, Filed
  <2>3. QED
    BY <1>1, <1>4, <2>1, <2>2 DEF FlightInv, Filed, tx
<1>7. ContractInv'
  BY <1>1, <1>2 DEF SaltInv, ContractInv
<1>8. SealedInv'
  BY <1>1, <1>4 DEF SealedInv, Opens, tx
<1>9. QED
  BY <1>5, <1>6, <1>7, <1>8 DEF SaltInv

\* A retry keeps the salts, so that what is in flight stays a step of the file.
LEMMA RetryKeeps ==
    ASSUME SaltInv, SealedInv, Retry
    PROVE  SaltInv' /\ SealedInv'
<1>1. /\ step = "sent" /\ step' = "fill"
      /\ UNCHANGED <<input, witness, proof, pending, contract, drawn, taken>>
  BY DEF Retry
<1>2. TakenSalts' = TakenSalts
  BY <1>1 DEF TakenSalts
<1>3. FileInv' /\ FlightInv' /\ ContractInv'
  BY <1>1, <1>2 DEF SaltInv, FileInv, FlightInv, ContractInv, Filed
<1>4. SealedInv'
  BY <1>1 DEF SealedInv, Opens
<1>5. QED
  BY <1>3, <1>4 DEF SaltInv

\* When the step has arrived, whatever is still in flight is left behind.
LEMMA PrepareKeeps ==
    ASSUME SaltInv, SealedInv, Prepare
    PROVE  SaltInv' /\ SealedInv'
<1>1. /\ step = "sent" /\ Arrived /\ step' = "fill"
      /\ \E tasks, map : input' = Prepared(input.new, tasks, map)
      /\ UNCHANGED <<witness, proof, pending, contract, drawn, taken>>
  BY DEF Prepare
<1>2. TakenSalts' = TakenSalts
  BY <1>1 DEF TakenSalts
<1>3. /\ input'.curr = input.new /\ input'.new.salt = 0
      /\ "salt" \in DOMAIN input'.new
  BY <1>1 DEF Prepared
<1>4. contract.hash # << >> /\ Salt(contract.hash) = input.new.salt
  BY <1>1, PackedFacts DEF Arrived, Packings
<1>5. input.curr.salt \in TakenSalts
  BY <1>1, <1>4 DEF SaltInv, FileInv, ContractInv
<1>6. FileInv'
  BY <1>1, <1>2, <1>3 DEF SaltInv, FileInv
<1>7. FlightInv'
  BY <1>1, <1>2, <1>5 DEF SaltInv, FlightInv, Filed
<1>8. ContractInv'
  BY <1>1, <1>2, <1>3, <1>4 DEF SaltInv, FileInv, ContractInv
<1>9. SealedInv'
  BY <1>1 DEF SealedInv, Opens
<1>10. QED
  BY <1>6, <1>7, <1>8, <1>9 DEF SaltInv

\* The transactions that remain are ones that were in flight.
LEMMA MinedOne ==
    ASSUME NEW q, NEW S, q \in Seq(S), q # << >>
    PROVE  /\ Tail(q) \in Seq(S) /\ Head(q) = q[1] /\ 1 \in 1..Len(q)
           /\ \A i \in 1..Len(Tail(q)) : \E j \in 1..Len(q) : Tail(q)[i] = q[j]
<1>1. /\ Tail(q) \in Seq(S) /\ Len(Tail(q)) = Len(q) - 1
      /\ \A i \in 1..Len(Tail(q)) : Tail(q)[i] = q[i + 1]
  BY HeadTailProperties
<1>2. Len(q) \in Nat /\ Len(q) # 0
  BY LenProperties, EmptySeq
<1>3. \A i \in 1..Len(Tail(q)) : i + 1 \in 1..Len(q)
  BY <1>1, <1>2
<1>4. Head(q) = q[1] /\ 1 \in 1..Len(q)
  BY <1>2
<1>5. QED
  BY <1>1, <1>3, <1>4

\* What the contract takes is the step in the file, from the file's current state.
LEMMA TakenIsFiled ==
    ASSUME SaltInv, NEW public, Filed(public), public.hashCurr = contract.hash
    PROVE  /\ Salt(public.hashCurr) = input.curr.salt
           /\ Salt(public.hashNew) = input.new.salt
           /\ Salt(public.hashCurr) \notin TakenSalts
BY DEF SaltInv, ContractInv, Filed

LEMMA MineKeeps ==
    ASSUME SaltInv, SealedInv, Mine
    PROVE  SaltInv' /\ SealedInv'
<1> DEFINE tx == Head(pending)
<1>1. /\ pending # << >> /\ pending' = Tail(pending)
      /\ UNCHANGED <<step, input, witness, proof, drawn>>
  BY DEF Mine
<1>2. PICK S : pending \in Seq(S)
  BY DEF SaltInv, FlightInv
<1>3. /\ pending' \in Seq(S) /\ tx = pending[1] /\ 1 \in 1..Len(pending)
      /\ \A i \in 1..Len(pending') : \E j \in 1..Len(pending) : pending'[i] = pending[j]
  BY <1>1, <1>2, MinedOne
<1>4. Filed(tx.public) /\ Opens(tx.proof)
  BY <1>3 DEF SaltInv, FlightInv, SealedInv
<1>5. CASE UpdateSucceeds(tx)
  <2>1. /\ contract' = [hash |-> tx.public.hashNew, cipher |-> tx.public.encrypted,
                        curr |-> tx.proof.curr, new |-> tx.proof.new]
        /\ taken' = taken \cup {tx.public}
        /\ tx.public.hashCurr = contract.hash /\ tx.proof.public = tx.public
    BY <1>5 DEF Mine, UpdateSucceeds
  <2>2. /\ Salt(tx.public.hashCurr) = input.curr.salt
        /\ Salt(tx.public.hashNew) = input.new.salt
    BY <1>4, <2>1, TakenIsFiled
  <2>3. TakenSalts' = TakenSalts \cup {input.curr.salt}
    BY <2>1, <2>2 DEF TakenSalts
  <2>4. /\ input.curr.salt \in drawn /\ input.new.salt \in drawn
        /\ input.curr.salt # 0 /\ input.new.salt # 0
        /\ input.curr.salt # input.new.salt
    BY <1>4, <2>2 DEF Filed, SaltInv, FileInv
  <2>5. FileInv'
    BY <1>1, <2>3, <2>4 DEF SaltInv, FileInv
  <2>6. FlightInv'
    BY <1>1, <1>3, <2>3 DEF SaltInv, FlightInv, Filed
  <2>7. ContractInv'
    <3>1. step # "deploy"
      BY <1>4, <2>1 DEF Filed, SaltInv, ContractInv
    <3>2. /\ contract'.hash # << >>
          /\ Salt(contract'.hash) = input.new.salt
      BY <1>4, <2>1, <2>2 DEF Filed
    <3>3. input.new.salt \notin TakenSalts'
      BY <2>3, <2>4 DEF SaltInv, FileInv
    <3>4. QED
      BY <1>1, <2>1, <2>3, <2>4, <3>1, <3>2, <3>3 DEF ContractInv
  <2>8. SealedInv'
    BY <1>1, <1>3, <1>4, <2>1 DEF SealedInv, Opens
  <2>9. QED
    BY <2>5, <2>6, <2>7, <2>8 DEF SaltInv
<1>6. CASE ~UpdateSucceeds(tx)
  <2>1. UNCHANGED <<contract, taken>>
    BY <1>6 DEF Mine
  <2>2. TakenSalts' = TakenSalts
    BY <2>1 DEF TakenSalts
  <2>3. FileInv' /\ FlightInv' /\ ContractInv'
    BY <1>1, <1>3, <2>1, <2>2 DEF SaltInv, FileInv, FlightInv, ContractInv, Filed
  <2>4. SealedInv'
    BY <1>1, <1>3, <2>1 DEF SealedInv, Opens
  <2>5. QED
    BY <2>3, <2>4 DEF SaltInv
<1>7. QED
  BY <1>5, <1>6
-----------------------------------------------------------------------------
\* The salts and the ciphertexts are in order in every reachable state.
LEMMA PipelineCorrect == Spec => [](SaltInv /\ SealedInv)
<1>1. ASSUME Init PROVE SaltInv /\ SealedInv
  <2>1. PICK curr, tasks, map : input = Prepared(curr, tasks, map)
                                /\ curr.salt = 0 /\ "salt" \in DOMAIN curr
    BY <1>1 DEF Init
  <2>2. /\ input.curr.salt = 0 /\ input.new.salt = 0 /\ step = "fill"
        /\ "salt" \in DOMAIN input.curr /\ "salt" \in DOMAIN input.new
        /\ drawn = {} /\ taken = {} /\ TakenSalts = {}
    BY <1>1, <2>1 DEF Init, Prepared, TakenSalts
  <2>3. pending = << >> /\ pending \in Seq({}) /\ Len(pending) = 0
    BY <1>1 DEF Init
  <2>4. contract = [hash |-> << >>, cipher |-> None, curr |-> None, new |-> None]
    BY <1>1 DEF Init
  <2>5. FileInv
    BY <2>2 DEF FileInv
  <2>6. FlightInv
    BY <2>2, <2>3 DEF FlightInv
  <2>7. ContractInv
    BY <2>2, <2>4 DEF ContractInv
  <2>8. SealedInv
    BY <2>2, <2>3, <2>4 DEF SealedInv
  <2>9. QED
    BY <2>5, <2>6, <2>7, <2>8 DEF SaltInv
<1>2. ASSUME SaltInv, SealedInv, UNCHANGED vars PROVE SaltInv' /\ SealedInv'
  <2>1. TakenSalts' = TakenSalts
    BY <1>2 DEF TakenSalts, vars
  <2>2. FileInv' /\ FlightInv' /\ ContractInv'
    BY <1>2, <2>1 DEF SaltInv, FileInv, FlightInv, ContractInv, Filed, vars
  <2>3. SealedInv'
    BY <1>2 DEF SealedInv, Opens, vars
  <2>4. QED
    BY <2>2, <2>3 DEF SaltInv
<1>3. SaltInv /\ SealedInv /\ [Next]_vars => (SaltInv /\ SealedInv)'
  BY <1>2, FillInputsKeeps, DeployKeeps, ComputeWitnessKeeps, ProveKeeps,
     StepModelKeeps, MineKeeps, RetryKeeps, PrepareKeeps DEF Next
<1>4. QED
  BY <1>1, <1>3, PTL DEF Spec

\* Up to nine numbers the cipher has 181 + 2n rounds or fewer than that, an odd
\* number, and decryption undoes them.
LEMMA NineAreUndone ==
    ASSUME EncryptionLen =< 9
    PROVE  Undone
<1>1. /\ Cardinality(Variables) \in Nat /\ Cardinality(Messages) \in Nat
      /\ Cardinality(Balances) \in Nat
  BY NamesAssumption, FS_CardinalityType
<1>2. EncryptionLen \in 2..9
  BY <1>1 DEF EncryptionLen
<1> DEFINE n == EncryptionLen
<1> HIDE DEF n
<1>3. ASSUME NEW k \in 2..9 PROVE GetGMiMCRounds(k) = 181 + 2 * k
  <2>1. k \in {2, 3, 4, 5, 6, 7, 8, 9}
    OBVIOUS
  <2>2. 2 * (1 + k + k * k) < 181 + 2 * k
    BY <2>1
  <2> QED
    BY <2>1, <2>2 DEF GetGMiMCRounds
<1>4. \A k \in 2..9 : (181 + 2 * k) % 2 = 1
  OBVIOUS
<1> QED
  BY <1>2, <1>3, <1>4 DEF Undone

\* A workflow with at most nine numbers to publish: the participant who is told
\* the salts of the stored state reads it, whatever was retried, repeated or
\* lost, and however Go lists the maps.
THEOREM WhoHasTheSaltsReads ==
    ASSUME EncryptionLen =< 9
    PROVE  Spec => []StoredOpens
<1>1. SealedInv => StoredOpens
  BY NineAreUndone DEF SealedInv, StoredOpens, GetState
<1>2. QED
  BY <1>1, PipelineCorrect, PTL

\* No step is taken a second time, however often its transaction is sent: the salt
\* of its current state is never again the salt of the contract's.
THEOREM TakenOnce == Spec => NoReplay
<1>1. ASSUME SaltInv, Next, contract'.new # contract.new
      PROVE  Head(pending).public \notin taken
  <2>1. Mine /\ UpdateSucceeds(Head(pending))
    <3>1. Deploy => contract'.new = contract.new
      BY <1>1 DEF Deploy, SaltInv, ContractInv
    <3>2. Mine
      BY <1>1, <3>1 DEF Next, FillInputs, ComputeWitness, Prove, StepModel, Retry,
         Prepare
    <3>3. QED
      BY <1>1, <3>2 DEF Mine
  <2>2. PICK S : pending \in Seq(S)
    BY <1>1 DEF SaltInv, FlightInv
  <2>3. Head(pending) = pending[1] /\ 1 \in 1..Len(pending)
    BY <2>1, <2>2, MinedOne DEF Mine
  <2>4. Filed(Head(pending).public)
    BY <1>1, <2>3 DEF SaltInv, FlightInv
  <2>5. Salt(Head(pending).public.hashCurr) \notin TakenSalts
    BY <1>1, <2>1, <2>4, TakenIsFiled DEF UpdateSucceeds
  <2>6. QED
    BY <2>5 DEF TakenSalts
<1>2. SaltInv /\ [Next]_vars =>
        [contract'.new # contract.new => Head(pending).public \notin taken]_vars
  BY <1>1
<1>3. QED
  BY <1>2, PipelineCorrect, PTL DEF Spec, NoReplay
-----------------------------------------------------------------------------
(* What is packed is the tasks' states, from the file to the contract.     *)

\* The list at the contract, or at the witness, is of the states beside it.
Lists(packed, s) == s.states \in Seq(Codes) /\ packed[1] = Compress(s.states)

ListsNew(w) == Lists(w.public.hashNew, w.new)

PackedInv ==
    /\ "states" \in DOMAIN input.new /\ input.new.states \in Seq(Codes)
    /\ step # "fill" => Lists(input.hashNew, input.new)
    /\ step \in {"prove", "send", "sent"} => ListsNew(witness)
    /\ step \in {"send", "sent"} => ListsNew(proof)
    /\ \A i \in 1..Len(pending) : ListsNew(pending[i].proof)
    /\ contract.new # None => Lists(contract.hash, contract.new)

\* Input files that give every task a state of four bits. No check enforces it;
\* the codes of states.go are such, and the digits that get-state prints.
FourBitSteps == Steps \subseteq Seq(Codes) \X Seq(Codes)

\* Only fill-inputs packs, and only Prepare and the first file bring new states;
\* the rest hand on what they were given.
LEMMA PackedKeeps ==
    ASSUME FourBitSteps, SaltInv, PackedInv, [Next]_vars
    PROVE  PackedInv'
<1>1. CASE FillInputs
  <2>1. PICK r \in Salts \cup {input.new.salt}, order \in Orders :
           /\ input'.new = [input.new EXCEPT !.salt = r]
           /\ input'.hashNew = Packed(input'.new, order)
    <3>1. \A used : SaltOf(input.new, used) \subseteq Salts \cup {input.new.salt}
      BY DEF SaltOf, GenerateSalt
    <3> QED
      BY <1>1, <3>1 DEF FillInputs
  <2>2. /\ "states" \in DOMAIN input'.new /\ input'.new.states = input.new.states
    BY <2>1 DEF PackedInv
  <2>3. Lists(input'.hashNew, input'.new)
    BY <2>1, <2>2, PackedFacts DEF PackedInv, Lists
  <2>4. /\ step' \in {"deploy", "witness"}
        /\ UNCHANGED <<pending, contract>>
    BY <1>1 DEF FillInputs
  <2> QED
    BY <2>2, <2>3, <2>4 DEF PackedInv, Lists, ListsNew
<1>2. CASE Deploy
  <2>1. /\ step = "deploy" /\ step' = "witness" /\ UNCHANGED <<input, pending>>
        /\ contract'.new = contract.new /\ contract.new = None
    BY <1>2 DEF Deploy, SaltInv, ContractInv
  <2> QED
    BY <2>1 DEF PackedInv, Lists, ListsNew
<1>3. CASE ComputeWitness
  <2>1. /\ step = "witness" /\ UNCHANGED <<input, pending, contract>>
        /\ \/ step' \in {"witness", "fill"}
           \/ /\ step' = "prove" /\ witness'.public.hashNew = input.hashNew
              /\ witness'.new = input.new
    BY <1>3 DEF ComputeWitness
  <2> QED
    BY <2>1 DEF PackedInv, Lists, ListsNew
<1>4. CASE Prove
  BY <1>4 DEF Prove, PackedInv, Lists, ListsNew
<1>5. CASE StepModel
  <2> DEFINE tx == [proof |-> proof, public |-> witness.public]
  <2>1. /\ step \in {"send", "sent"} /\ step' = "sent"
        /\ pending' = Append(pending, tx)
        /\ UNCHANGED <<input, witness, proof, contract>>
    BY <1>5 DEF StepModel
  <2>2. PICK S : pending \in Seq(S)
    BY DEF SaltInv, FlightInv
  <2>3. \A i \in 1..Len(pending') : \/ pending'[i] = tx
                                    \/ /\ i \in 1..Len(pending)
                                       /\ pending'[i] = pending[i]
    BY <2>1, <2>2, AppendedOne
  <2>4. tx.proof = proof
    OBVIOUS
  <2> HIDE DEF tx
  <2> QED
    BY <2>1, <2>3, <2>4 DEF PackedInv, Lists, ListsNew
<1>6. CASE Mine
  <2>1. /\ pending # << >> /\ pending' = Tail(pending)
        /\ UNCHANGED <<step, input, witness, proof>>
        /\ \/ UNCHANGED contract
           \/ /\ contract'.hash = Head(pending).public.hashNew
              /\ contract'.new = Head(pending).proof.new
              /\ Head(pending).proof.public = Head(pending).public
    BY <1>6 DEF Mine, UpdateSucceeds
  <2>2. PICK S : pending \in Seq(S)
    BY DEF SaltInv, FlightInv
  <2>3. /\ Head(pending) = pending[1] /\ 1 \in 1..Len(pending)
        /\ \A i \in 1..Len(pending') : \E j \in 1..Len(pending) : pending'[i] = pending[j]
    BY <2>1, <2>2, MinedOne
  <2>4. ListsNew(Head(pending).proof)
    BY <2>3 DEF PackedInv
  <2> QED
    BY <2>1, <2>3, <2>4 DEF PackedInv, Lists, ListsNew
<1>7. CASE Retry
  BY <1>7 DEF Retry, PackedInv, Lists, ListsNew
<1>8. CASE Prepare
  <2>1. PICK s \in Steps, map \in Maps : input' = Prepared(input.new, s[2], map)
    BY <1>8 DEF Prepare
  <2>2. s[2] \in Seq(Codes)
    BY DEF FourBitSteps
  <2>3. "states" \in DOMAIN input'.new /\ input'.new.states = s[2]
    BY <2>1 DEF Prepared
  <2>4. step' = "fill" /\ UNCHANGED <<pending, contract>>
    BY <1>8 DEF Prepare
  <2> QED
    BY <2>2, <2>3, <2>4 DEF PackedInv, Lists, ListsNew
<1>9. CASE UNCHANGED vars
  BY <1>9 DEF vars, PackedInv, Lists, ListsNew
<1> QED
  BY <1>1, <1>2, <1>3, <1>4, <1>5, <1>6, <1>7, <1>8, <1>9 DEF Next

\* With states of four bits, and at most nine numbers to publish: what get-state
\* prints to whoever has the salts of the stored state is the state of every
\* task, but for INACTIVE ones in front, whatever was retried or repeated.
THEOREM ReadsBack ==
    ASSUME EncryptionLen =< 9, FourBitSteps
    PROVE  Spec => []TasksReadBack
<1>1. ASSUME Init PROVE PackedInv
  <2>1. PICK s \in Steps, before \in Maps, after \in Maps :
           input = Prepared([states |-> s[1], map |-> before, salt |-> 0], s[2], after)
    BY <1>1 DEF Init
  <2>2. "states" \in DOMAIN input.new /\ input.new.states \in Seq(Codes)
    BY <2>1 DEF Prepared, FourBitSteps
  <2>3. step = "fill" /\ Len(pending) = 0 /\ contract.new = None
    BY <1>1 DEF Init
  <2> QED
    BY <2>2, <2>3 DEF PackedInv
<1>2. ASSUME SealedInv, PackedInv PROVE TasksReadBack
  <2>1. SUFFICES ASSUME contract.new # None
        PROVE  TasksReadBack
    BY DEF TasksReadBack
  <2>2. GetState(contract.cipher, contract.curr.salt, contract.new.salt) = contract.hash
    BY <1>2, <2>1, NineAreUndone DEF SealedInv, GetState
  <2>3. /\ contract.new.states \in Seq(Codes)
        /\ contract.hash[1] = Compress(contract.new.states)
    BY <1>2, <2>1 DEF PackedInv, Lists
  <2>4. \E k \in 0..Len(contract.new.states) :
           /\ \A i \in 1..k : contract.new.states[i] = 0
           /\ Decompress(contract.hash[1])
                 = SubSeq(contract.new.states, k + 1, Len(contract.new.states))
    BY <2>3, PackedReadsBack
  <2> QED
    BY <2>2, <2>4 DEF TasksReadBack
<1>3. SaltInv /\ PackedInv /\ [Next]_vars => PackedInv'
  BY PackedKeeps
<1> QED
  BY <1>1, <1>2, <1>3, PipelineCorrect, PTL DEF Spec
=============================================================================
