------------------------------ MODULE MCEngine ------------------------------
(***************************************************************************)
(* Instances of Engine for TLC.                                            *)
(***************************************************************************)
EXTENDS Engine
CONSTANTS w1, s1, s2, r1

\* Every thread ends within the 30 s stop waits for it, and the owner starts the
\* engine only when it is stopped.
Orderly == {}

=============================================================================
