----------------------------- MODULE MCHandshake -----------------------------
(***************************************************************************)
(* Handshake with fewer interleavings, for more than three participants.   *)
(***************************************************************************)
EXTENDS Handshake

\* The contract is mined first, and the participants upload in turn.
InTurn ==
    /\ (\E p \in Participant : sent[p] # {}) => deployed
    /\ \A p, q \in Participant :
          p < q /\ sent[q] # {} => phase[p] # "upload" /\ pool[p] = << >>
=============================================================================
