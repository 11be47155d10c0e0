-------------------------- MODULE MCConfiguration --------------------------
(* Finite constants for TLC. *)
EXTENDS Configuration

CONSTANTS night, blue

\* A power loss leaves the most to recover from: with it the process dies twice.
Stops == [f \in FaultSets |-> IF "power" \in f THEN 2 ELSE 1]
=============================================================================
