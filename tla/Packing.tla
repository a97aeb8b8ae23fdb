------------------------------- MODULE Packing -------------------------------
(***************************************************************************)
(* How the states of all tasks become one number, and the number digits    *)
(* again: compressState and Decompress of pkg/zkp, CompressToFieldElement  *)
(* of the circuit.                                                         *)
(***************************************************************************)
EXTENDS Integers, Sequences

\* The field element has room for so many states of four bits.
MaxStates == 63

\* Four bits per task, the first task in the highest ones.  Nothing keeps a
\* number from having more than four bits: it is added to what the tasks before
\* it are shifted to, and the sum has other readings.
Compress(states) ==
    LET sum[i \in 0..Len(states)] == IF i = 0 THEN 0 ELSE 16 * sum[i - 1] + states[i]
    IN sum[Len(states)]

\* Variant: the digits are not turned round.
DecompressReversed(number) ==
    LET digits[n \in 0..number] == IF n = 0 THEN << >>
                                   ELSE <<n % 16>> \o digits[n \div 16]
    IN digits[number]

Decompress(number) ==
    LET digits[n \in 0..number] == IF n = 0 THEN << >>
                                   ELSE Append(digits[n \div 16], n % 16)
    IN digits[number]

\* The lists of n of the numbers that have this sum, from the last number
\* forwards: lists[<<k, s>>] are those of k numbers with the sum s.
Summing(numbers, n, sum) ==
    LET lists[p \in (0..n) \X (0..sum)] ==
          IF p[1] = 0 THEN IF p[2] = 0 THEN {<< >>} ELSE {}
          ELSE UNION {{Append(q, d) : q \in lists[<<p[1] - 1, (p[2] - d) \div 16>>]} :
                         d \in {d \in numbers : d =< p[2] /\ (p[2] - d) % 16 = 0}}
    IN lists[<<n, sum>>]
=============================================================================
