----------------------------- MODULE MCDisplay -----------------------------
(* Finite constants for TLC. *)
EXTENDS Display

\* Two frames, shown for one unit of time and for two.
TwoFrames == <<0, 1, 3>>
=============================================================================
