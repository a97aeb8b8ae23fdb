------------------------------- MODULE MCGmimc -------------------------------
(***************************************************************************)
(* States of several lengths, with constants computed for a small field.   *)
(***************************************************************************)
EXTENDS Gmimc

RoundConstants == [i \in 0..799 |-> (i * i + i) % ScalarField]

KeyPairs == {<<0, 0>>, <<1, 2>>, <<2, 1>>, <<4, 3>>, <<5, 0>>}

\* All values of the shortest state, a number that is not in the field, and states
\* of every length up to the last one with enough round constants and beyond.
LongOf(n) == {[j \in 1..n |-> j % ScalarField], [j \in 1..n |-> (j * j) % ScalarField]}
AllLengths == (Field \X Field) \cup {<<1, ScalarField>>} \cup UNION {LongOf(n) : n \in 3..21}
Ten == LongOf(10)
=============================================================================
