-------------------------- MODULE MCReconciliation --------------------------
(* Finite constants for TLC. *)
EXTENDS Reconciliation

CONSTANTS k1, k2

Curves == {k1, k2}
Duties == {20, 60}
Windows == [k \in Curves |-> IF k = k1 THEN {20} ELSE {60}]
=============================================================================
