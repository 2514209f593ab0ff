---------------------------- MODULE ServiceActors ---------------------------
(* What the components of Services have in common.                         *)
EXTENDS Integers, Sequences, FiniteSets

CONSTANTS
    Workers,                \* requests
    Processes,              \* processes of the server
    Nobody
=============================================================================
