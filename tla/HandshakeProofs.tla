--------------------------- MODULE HandshakeProofs ---------------------------
(***************************************************************************)
(* What every run of Handshake keeps, for any number of participants: each *)
(* value on its way or on the chain is the one its label names. With three *)
(* participants the values a participant reads lead all to one secret.     *)
(***************************************************************************)
EXTENDS Handshake, TLAPS

\* The value that belongs to a label.
PairPoint(c) == DiffieHellmanStep(c[1], PublicKey(c[2]))

RightTx == {[combo |-> c, value |-> PairPoint(c)] : c \in Combo}

LEMMA PointFacts ==
    /\ \A p \in Participant, x \in Point : DiffieHellmanStep(p, x) \in Point
    /\ \A p \in Participant : PublicKey(p) \in Point
    /\ \A c \in Combo : PairPoint(c) \in Point
    /\ \A c \in Combo : c = <<c[1], c[2]>> /\ c[1] \in Participant /\ c[2] \in Participant
    /\ \A c \in Combo : Nil # PairPoint(c)
<1>1. 0 \in Participant
  BY ParticipantsAssumption DEF Participant
<1>2. Generator \in Point
  BY DEF Generator, Point
<1>3. \A p \in Participant, x \in Point : DiffieHellmanStep(p, x) \in Point
  BY DEF DiffieHellmanStep, Point
<1>4. \A p \in Participant : PublicKey(p) \in Point
  BY <1>2, <1>3 DEF PublicKey
<1>5. \A c \in Combo : c = <<c[1], c[2]>> /\ c[1] \in Participant /\ c[2] \in Participant
  BY DEF Combo
<1>6. \A c \in Combo : PairPoint(c) \in Point
  BY <1>3, <1>4, <1>5 DEF PairPoint
<1>7. \A x \in Point : Nil # x
  <2>1. \A x \in Point : DOMAIN x = Participant
    BY DEF Point
  <2>2. DOMAIN Nil = {}
    BY DEF Nil
  <2> QED
    BY <1>1, <2>1, <2>2
<1> QED
  BY <1>3, <1>4, <1>5, <1>6, <1>7

\* A value sent, stored or read is the one of its label, and a secret is one's
\* own key applied to the last of the values read.
RightInv ==
    /\ pool \in [Participant -> Seq(RightTx)]
    /\ stored \in [Combo -> Point \cup {Nil}]
    /\ \A c \in Combo : stored[c] \in {Nil, PairPoint(c)}
    /\ phase \in [Participant -> {"upload", "sleep", "read", "done"}]
    /\ fetched \in [Participant -> SUBSET Combo]
    /\ last \in [Participant -> Point \cup {Nil}]
    /\ secret \in [Participant -> Point \cup {Nil}]
    /\ \A p \in Participant :
          \/ fetched[p] = {} /\ last[p] = Nil
          \/ \E c \in Wanted(p) : last[p] = PairPoint(c)
    /\ \A p \in Participant : \A c \in fetched[p] : stored[c] # Nil
    /\ \A p \in Participant : phase[p] = "done" =>
          /\ fetched[p] = Wanted(p)
          /\ last[p] = Nil => secret[p] = Nil
          /\ last[p] # Nil => secret[p] = DiffieHellmanStep(p, last[p])

LEMMA RightInit == Init => RightInv
  BY DEF Init, RightInv, Nil, Combo

LEMMA RightStep == RightInv /\ [Next]_vars => RightInv'
<1> SUFFICES ASSUME RightInv, [Next]_vars PROVE RightInv'
  OBVIOUS
<1> USE DEF RightInv
<1>1. CASE Deploy
  BY <1>1 DEF Deploy
<1>2. CASE Cut
  BY <1>2 DEF Cut
<1>3. ASSUME NEW p \in Participant, Mine(p) PROVE RightInv'
  <2> DEFINE tx == Head(pool[p])
  <2>1. tx \in RightTx /\ Tail(pool[p]) \in Seq(RightTx)
    BY <1>3 DEF Mine
  <2>2. PICK c \in Combo : tx = [combo |-> c, value |-> PairPoint(c)]
    BY <2>1 DEF RightTx
  <2>3. stored' = stored \/ stored' = [stored EXCEPT ![c] = PairPoint(c)]
    <3>1. tx.combo = c /\ tx.value = PairPoint(c)
      BY <2>2
    <3>2. stored' = UploadIntermediateValue(tx)
      BY <1>3 DEF Mine
    <3> QED
      BY <3>1, <3>2 DEF UploadIntermediateValue
  <2>4. /\ stored' \in [Combo -> Point \cup {Nil}]
        /\ \A d \in Combo : /\ stored'[d] \in {Nil, PairPoint(d)}
                            /\ stored[d] # Nil => stored'[d] # Nil
    <3>1. CASE stored' = stored
      BY <3>1
    <3>2. CASE stored' = [stored EXCEPT ![c] = PairPoint(c)]
      <4>1. \A d \in Combo : stored'[d] = IF d = c THEN PairPoint(c) ELSE stored[d]
        BY <3>2
      <4>2. stored' \in [Combo -> Point \cup {Nil}]
        BY <3>2, PointFacts, Zenon
      <4> QED
        BY <4>1, <4>2, PointFacts, Zenon
    <3> QED
      BY <2>3, <3>1, <3>2
  <2>5. pool' \in [Participant -> Seq(RightTx)]
    BY <1>3, <2>1 DEF Mine
  <2> QED
    BY <1>3, <2>4, <2>5 DEF Mine
<1>4. ASSUME NEW p \in Participant, Upload(p) PROVE RightInv'
  <2>1. PICK i \in Participant :
          /\ First(i, Others(p) \ sent[p])
          /\ pool' = [pool EXCEPT ![p] =
                        Append(@, [combo |-> <<p, i>>,
                                   value |-> DiffieHellmanStep(p, PublicKey(i))])]
    BY <1>4 DEF Upload
  <2>2. <<p, i>> \in Combo
    BY <2>1 DEF First, Others, Combo
  <2>3. [combo |-> <<p, i>>, value |-> DiffieHellmanStep(p, PublicKey(i))] \in RightTx
    BY <2>2 DEF RightTx, PairPoint
  <2>4. pool' \in [Participant -> Seq(RightTx)]
    BY <2>1, <2>3
  <2> QED
    BY <1>4, <2>4 DEF Upload
<1>5. ASSUME NEW p \in Participant, Sleep(p) \/ Wake(p) PROVE RightInv'
  <2>1. /\ UNCHANGED <<pool, stored, fetched, last, secret>>
        /\ phase' \in [Participant -> {"upload", "sleep", "read", "done"}]
        /\ \A q \in Participant : phase'[q] = "done" => phase[q] = "done"
    BY <1>5 DEF Sleep, Wake
  <2> QED
    BY <2>1
<1>6. ASSUME NEW p \in Participant, Fetch(p) PROVE RightInv'
  <2>1. PICK c \in Combo :
          /\ NextCombo(p, c)
          /\ stored[c] # Nil
          /\ fetched' = [fetched EXCEPT ![p] = @ \cup {c}]
          /\ last' = [last EXCEPT ![p] = stored[c]]
    BY <1>6 DEF Fetch
  <2>2. c \in Wanted(p) /\ stored[c] = PairPoint(c) /\ PairPoint(c) \in Point
    BY <2>1, PointFacts DEF NextCombo
  <2>3. /\ fetched' \in [Participant -> SUBSET Combo]
        /\ last' \in [Participant -> Point \cup {Nil}]
    BY <2>1, <2>2
  <2>4. phase[p] # "done" /\ UNCHANGED <<pool, stored, phase, secret>>
    BY <1>6 DEF Fetch
  <2>5. \A q \in Participant :
          \/ fetched'[q] = {} /\ last'[q] = Nil
          \/ \E d \in Wanted(q) : last'[q] = PairPoint(d)
    BY <2>1, <2>2
  <2> QED
    BY <2>1, <2>3, <2>4, <2>5
<1>7. ASSUME NEW p \in Participant, FetchUnset(p) PROVE RightInv'
  BY <1>7 DEF FetchUnset
<1>8. ASSUME NEW p \in Participant, Finish(p) PROVE RightInv'
  <2>1. last[p] # Nil => DiffieHellmanStep(p, last[p]) \in Point
    BY PointFacts
  <2>2. secret' \in [Participant -> Point \cup {Nil}]
    BY <1>8, <2>1 DEF Finish
  <2> QED
    BY <1>8, <2>2 DEF Finish
<1>9. CASE UNCHANGED vars
  BY <1>9 DEF vars
<1> QED
  BY <1>1, <1>2, <1>3, <1>4, <1>5, <1>6, <1>7, <1>8, <1>9
     DEF Next, PerformHandshake

LEMMA AlwaysRight == Spec => []RightInv
  BY RightInit, RightStep, PTL DEF Spec

\* The flags of the process and the chain, and the cursors of the upload loops.
FlagsOK ==
    /\ process \in {"up", "panicked", "cut"}
    /\ deployed \in BOOLEAN
    /\ sent \in [Participant -> SUBSET Participant]

LEMMA AlwaysFlags == Spec => []FlagsOK
<1>1. Init => FlagsOK
  <2>1. Init => deployed \in BOOLEAN
    BY Zenon DEF Init
  <2> QED
    BY <2>1 DEF Init, FlagsOK
<1>2. FlagsOK /\ [Next]_vars => FlagsOK'
  <2> SUFFICES ASSUME FlagsOK, [Next]_vars PROVE FlagsOK'
    OBVIOUS
  <2> USE DEF FlagsOK
  <2>1. CASE Deploy
    BY <2>1, Zenon DEF Deploy
  <2>2. CASE Cut
    BY <2>2, Zenon DEF Cut
  <2>3. ASSUME NEW p \in Participant, Upload(p) PROVE FlagsOK'
    <3>1. sent' \in [Participant -> SUBSET Participant]
      BY <2>3 DEF Upload
    <3> QED
      BY <2>3, <3>1, Zenon DEF Upload
  <2>4. ASSUME NEW p \in Participant, FetchUnset(p) PROVE FlagsOK'
    BY <2>4, Zenon DEF FetchUnset
  <2>5. ASSUME NEW p \in Participant, Mine(p) \/ Sleep(p) \/ Wake(p) \/ Fetch(p) \/ Finish(p)
        PROVE  FlagsOK'
    BY <2>5, Zenon DEF Mine, Sleep, Wake, Fetch, Finish
  <2>6. CASE UNCHANGED vars
    BY <2>6, Zenon DEF vars
  <2> QED
    BY <2>1, <2>2, <2>3, <2>4, <2>5, <2>6 DEF Next, PerformHandshake
<1> QED
  BY <1>1, <1>2, PTL DEF Spec

\* Every variable keeps its type, for any number of participants.
THEOREM TypeCorrect == Spec => []TypeOK
<1>1. RightTx \subseteq Transaction
  BY PointFacts DEF RightTx, Transaction
<1>2. RightInv => /\ pool \in [Participant -> Seq(Transaction)]
                  /\ stored \in [Combo -> Point \cup {Nil}]
                  /\ phase \in [Participant -> {"upload", "sleep", "read", "done"}]
                  /\ fetched \in [Participant -> SUBSET Combo]
                  /\ last \in [Participant -> Point \cup {Nil}]
                  /\ secret \in [Participant -> Point \cup {Nil}]
  BY <1>1 DEF RightInv
<1>3. RightInv /\ FlagsOK => TypeOK
  BY <1>2, Zenon DEF FlagsOK, TypeOK
<1> QED
  BY <1>3, AlwaysRight, AlwaysFlags, PTL

\* With three participants or more nobody finishes on its own: each of the
\* others has got a value mined.
THEOREM NobodyAlone ==
    ASSUME N >= 3
    PROVE  Spec => []SecretNeedsAll
<1>1. ASSUME RightInv PROVE SecretNeedsAll
  <2> SUFFICES ASSUME NEW p \in Participant, phase[p] = "done", NEW q \in Others(p)
               PROVE  \E i \in Others(q) : stored[<<q, i>>] # Nil
    BY DEF SecretNeedsAll
  <2>1. /\ {0, 1, 2} \subseteq Participant
        /\ q \in Participant /\ q # p
    BY ParticipantsAssumption DEF Participant, Others
  <2>2. PICK i \in Participant : i # p /\ i # q
    BY <2>1
  <2>3. <<q, i>> \in Wanted(p)
    BY <2>1, <2>2 DEF Wanted, Combo
  <2>4. stored[<<q, i>>] # Nil
    BY <1>1, <2>3 DEF RightInv
  <2> QED
    BY <2>2, <2>4 DEF Others
<1> QED
  BY <1>1, AlwaysRight, PTL

\* However many participants there are, a secret is the product of three keys,
\* for computeFinalSecret drops all products but the last: with more than three
\* it cannot be everybody's.
THEOREM SecretOfThree ==
    Spec => [](\A p \in Participant :
                 phase[p] = "done" /\ secret[p] # Nil =>
                   \E c \in Wanted(p) : secret[p] = Product({p, c[1], c[2]}))
<1> DEFINE Triple(p) == \E c \in Wanted(p) : secret[p] = Product({p, c[1], c[2]})
<1>1. ASSUME RightInv, NEW p \in Participant, phase[p] = "done", secret[p] # Nil
      PROVE  Triple(p)
  <2>1. last[p] # Nil /\ secret[p] = DiffieHellmanStep(p, last[p])
    BY <1>1 DEF RightInv
  <2>2. PICK c \in Wanted(p) : last[p] = PairPoint(c)
    BY <1>1, <2>1 DEF RightInv
  <2>3. c[1] \in Participant /\ c[2] \in Participant /\ c[1] # c[2] /\ c[1] # p /\ c[2] # p
    BY <2>2, PointFacts DEF Wanted, Combo
  <2>4. DiffieHellmanStep(p, PairPoint(c)) = Product({p, c[1], c[2]})
    BY <2>3 DEF DiffieHellmanStep, PairPoint, PublicKey, Generator, Product
  <2> QED
    BY <2>1, <2>2, <2>4
<1>2. RightInv => \A p \in Participant :
                    phase[p] = "done" /\ secret[p] # Nil => Triple(p)
  BY <1>1
<1> QED
  BY <1>2, AlwaysRight, PTL

\* Three participants, the number cmds/handshake-test runs, all come to the one
\* product of their keys, however their uploads and reads are interleaved.
THEOREM ThreeAgree ==
    ASSUME N = 3
    PROVE  Spec => []SecretOfAll
<1>1. ASSUME RightInv PROVE SecretOfAll
  <2> SUFFICES ASSUME NEW p \in Participant, phase[p] = "done"
               PROVE  secret[p] = Product(Participant)
    BY DEF SecretOfAll
  <2>1. Participant = {0, 1, 2}
    BY DEF Participant
  <2>2. PICK i \in Participant, j \in Participant : i # j /\ i # p /\ j # p
    BY <2>1
  <2>3. <<i, j>> \in Wanted(p)
    BY <2>2 DEF Wanted, Combo
  <2>4. fetched[p] # {}
    BY <1>1, <2>3 DEF RightInv
  <2>5. PICK c \in Wanted(p) : last[p] = PairPoint(c)
    BY <1>1, <2>4 DEF RightInv
  <2>6. c \in Combo /\ c[1] # p /\ c[2] # p
    BY <2>5 DEF Wanted
  <2>7. c[1] \in Participant /\ c[2] \in Participant /\ c[1] # c[2]
    BY <2>6, PointFacts DEF Combo
  <2>8. secret[p] = DiffieHellmanStep(p, PairPoint(c))
    BY <1>1, <2>5, <2>6, PointFacts DEF RightInv
  <2>9. DiffieHellmanStep(p, PairPoint(c)) = Product({p, c[1], c[2]})
    BY <2>6, <2>7 DEF DiffieHellmanStep, PairPoint, PublicKey, Generator, Product
  <2>10. {p, c[1], c[2]} = Participant
    BY <2>1, <2>6, <2>7
  <2> QED
    BY <2>8, <2>9, <2>10
<1> QED
  BY <1>1, AlwaysRight, PTL

=============================================================================
