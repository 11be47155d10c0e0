----------------------------- MODULE MCCooling -----------------------------
(* Finite constants for TLC. *)
EXTENDS Cooling

CONSTANTS k1, k2

DutyValue == {20, 60}
OneCurve == {k1}
TwoCurves == {k1, k2}
OneWindow == [k \in {k1} |-> {20}]
TwoWindows == [k \in {k1, k2} |-> IF k = k1 THEN {20} ELSE {60}]
Floors == [c \in Channel |-> 20]
AllPrograms == Program
Fixed(p, f) == [c \in Channel |-> <<"fixed", IF c = "pump" THEN p ELSE f>>]
Curves(p, f) == [c \in Channel |-> <<"curve", IF c = "pump" THEN p ELSE f>>]
OneFixed == {Fixed(20, 60)}
OneCurvePair == {Curves(k1, k1)}
TwoCurvePrograms == {Fixed(20, 60), Curves(k1, k1), Curves(k2, k1)}
=============================================================================
