-------------------------- MODULE MCCoolingFaults --------------------------
(***************************************************************************)
(* Two machines side by side, under the same invariants: in one, writes    *)
(* fail and are ignored; in the other every write lands, and another       *)
(* program changes a channel between any two steps.                        *)
(***************************************************************************)
EXTENDS MCCooling

VARIABLE machine

\* Every request is the same, and a write is what its attribute then holds.
WritesLand ==
    /\ asked' \in OneFixed \cup {asked}
    /\ phase' # "abort"
    /\ phase = "write" /\ step = "duty" /\ step' = "mode" => dev'[at].stored = asked[at][2]
    /\ phase = "write" /\ step = "mode" /\ step' = "read" => dev'[at].mode = asked[at][1]

EitherInit == machine \in {"faulty", "intruded"} /\ Init

Proceeds ==
    /\ Undisturbed
    /\ machine = "intruded" => WritesLand
    /\ UNCHANGED machine

Intrudes(c) == machine = "intruded" /\ Drift(c) /\ UNCHANGED machine

EitherNext == Proceeds \/ \E c \in Channel : Intrudes(c)

Either == EitherInit /\ [][EitherNext]_<<vars, machine>>
=============================================================================
