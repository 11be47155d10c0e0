------------------------------ MODULE MCDaemon ------------------------------
(* Finite constants for TLC. *)
EXTENDS Daemon

CONSTANTS night, blue, red

Blue == [s \in Slot |-> blue]
RedPanel == [SafeProfile EXCEPT !["display"] = red]
OneProfile == {Blue}
TwoProfiles == {Blue, RedPanel}
=============================================================================
