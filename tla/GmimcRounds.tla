----------------------------- MODULE GmimcRounds -----------------------------
(***************************************************************************)
(* How many rounds the cipher of the published state has, and constants    *)
(* for them.                                                               *)
(***************************************************************************)
EXTENDS Integers

\* How many round constants generateConstantsData computes.
Tabled91 == 91   \* variant: as many as MiMC5 has rounds
Tabled == 800

GetGMiMCRounds(branches) ==
    LET r1 == 2 * (1 + branches + branches * branches)
        r2 == 181 + 2 * branches
    IN IF r2 > r1 THEN r2 ELSE r1
=============================================================================
