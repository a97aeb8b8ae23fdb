-------------------------- MODULE MCClientPipeline --------------------------
(***************************************************************************)
(* Two tasks, two variables, one participant and a message.                *)
(***************************************************************************)
EXTENDS ClientPipeline

\* The first task fails and is reset; the steps of the second, and one that
\* changes nothing.
TaskSteps == {<<<<3, 0>>, <<10, 1>>>>, <<<<3, 0>>, <<4, 0>>>>, <<<<4, 0>>, <<9, 0>>>>,
              <<<<9, 0>>, <<0, 0>>>>, <<<<10, 1>>, <<0, 1>>>>, <<<<0, 1>>, <<0, 1>>>>}

\* Two variables of different values, and no message sent.
NamedValues == {[x |-> 1, y |-> 2, m |-> 0, p |-> 0]}
=============================================================================
