----------------------------- MODULE MCLighting -----------------------------
(* Finite constants for TLC. *)
EXTENDS Lighting

CONSTANTS ring, fan, blue, red
=============================================================================
