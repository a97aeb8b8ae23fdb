--------------------------- MODULE TaskLifecycle ---------------------------
(***************************************************************************)
(* The life of one task or event of a workflow: the state codes of         *)
(* pkg/common/states.go and the transition relation that the circuit of    *)
(* pkg/circuits/lifecycle computes.                                        *)
(***************************************************************************)
EXTENDS Naturals

INACTIVE     == 0
READY        == 1
ACTIVE       == 2
COMPLETING   == 3
FAILING      == 4
TERMINATING  == 5
COMPENSATING == 6
TERMINATED   == 7
COMPENSATED  == 8
FAILED       == 9
COMPLETED    == 10

TaskState == 0..10

\* The check when its result is dropped instead of asserted.
LifecycleUnchecked(curr, new) == TRUE

\* Every selector of the circuit contributes at most one to the sum that has
\* to be one; a state that is no code at all selects nothing.
LifecycleCheck(curr, new) ==
    \/ curr = INACTIVE     /\ new = READY
    \/ curr = READY        /\ new \in {ACTIVE, FAILING, TERMINATING}
    \/ curr = ACTIVE       /\ new \in {COMPLETING, FAILING, TERMINATING}
    \/ curr = COMPLETING   /\ new \in {COMPLETED, FAILING, TERMINATING}
    \/ curr = FAILING      /\ new = FAILED
    \/ curr = TERMINATING  /\ new \in {TERMINATED, FAILED}
    \/ curr = COMPENSATING /\ new \in {COMPENSATED, FAILED, TERMINATED}
    \/ curr \in {TERMINATED, COMPENSATED, FAILED} /\ new = INACTIVE
    \/ curr = COMPLETED    /\ new \in {INACTIVE, COMPENSATING}

\* The states in which a task holds the token of its branch.
InFlight == {READY, ACTIVE, COMPLETING}
=============================================================================
