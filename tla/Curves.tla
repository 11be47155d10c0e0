------------------------------- MODULE Curves -------------------------------
(***************************************************************************)
(* Duties, curves and what makes a program valid (crates/core/src/         *)
(* profile.rs and profile/curve.rs): the percent grid of the device, the   *)
(* nodes an operator edits, the points the kernel takes, and the gate      *)
(* every program passes.  A temperature is counted in degrees from the     *)
(* first point of the curve; a duty is a byte.                             *)
(***************************************************************************)
EXTENDS Integers

CONSTANTS
    MaxDuty,    \* 255
    MaxPercent, \* 100: the settings the device tells apart, less one
    PointCount, \* 40: the points of a kernel curve, one per degree
    StepC,      \* 5: degrees between two nodes
    NodeCount,  \* 9: the nodes of the editor
    MinDuty     \* the lowest duty of each channel

ASSUME CurvesAssumption ==
    /\ MaxPercent \in Nat \ {0} /\ MaxDuty \in Nat /\ MaxDuty >= MaxPercent
    /\ StepC \in Nat \ {0} /\ NodeCount \in Nat /\ NodeCount >= 2
    /\ PointCount \in (NodeCount - 2) * StepC + 2 .. (NodeCount - 1) * StepC + 1
    /\ \A c \in DOMAIN MinDuty : MinDuty[c] \in 0..MaxDuty

Duty == 0..MaxDuty
Percent == 0..MaxPercent
Node == 0..(NodeCount - 1)
Point == 0..(PointCount - 1)
Lesser(a, b) == IF a < b THEN a ELSE b
Clamped(x, low, high) == IF x < low THEN low ELSE Lesser(x, high)

\* The quotient rounded to the nearest integer, a half away from zero.
Rounded(n, d) == (2 * n + d) \div (2 * d)

-----------------------------------------------------------------------------
(* The percent grid.                                                       *)

\* duty_from_percent, the driver's kraken3_percent_to_pwm.
DutyFromPercent(percent) == (Lesser(percent, MaxPercent) * MaxDuty + MaxPercent \div 2) \div MaxPercent

\* duty_to_percent, the driver's DIV_ROUND_CLOSEST.
DutyToPercent(duty) == (duty * MaxPercent + MaxDuty \div 2) \div MaxDuty

-----------------------------------------------------------------------------
(* Curves and the nodes they are drawn with.                               *)

\* point_index: the last node sits on the last point there is.
PointIndex(node) == Lesser(node * StepC, PointCount - 1)

\* CurveNodes::set: the nodes stay in order, the ones in the way move along.
SetNode(nodes, node, duty) ==
    [n \in Node |-> CASE n = node -> duty
                      [] n > node /\ nodes[n] < duty -> duty
                      [] n < node /\ nodes[n] > duty -> duty
                      [] OTHER -> nodes[n]]

\* Mutant: the last segment is as wide as the others.
EvenSegments(nodes) ==
    [p \in Point |->
        LET lower == Lesser(p \div StepC, NodeCount - 2)
        IN  Rounded(nodes[lower] * StepC + (nodes[lower + 1] - nodes[lower]) * (p - lower * StepC), StepC)]

\* Linear between the two nodes of a point's segment.  The code computes in f32; the
\* exact value is never nearer to a half than the error unless it is one.
Interpolate(nodes) ==
    [p \in Point |->
        LET lower == Lesser(p \div StepC, NodeCount - 2)
            from == PointIndex(lower)
            width == PointIndex(lower + 1) - from
        IN  Clamped(Rounded(nodes[lower] * width + (nodes[lower + 1] - nodes[lower]) * (p - from), width),
                    0, MaxDuty)]

Sampled(curve) == [n \in Node |-> curve[PointIndex(n)]]

\* Mutant: whatever curve is sampled and shown.
AnyCurve(curve) == TRUE

\* from_curve: a curve the nodes do not describe gives none.
Drawable(curve) == Interpolate(Sampled(curve)) = curve

StartingRamp ==
    [n \in Node |-> DutyFromPercent(Rounded(2 * MaxPercent * (NodeCount - 1) + n * 3 * MaxPercent, 5 * (NodeCount - 1)))]

\* duty_at: the point that governs a temperature given in tenths of a degree above
\* the first point; None of the code is a temperature that is not a number.
PointFor(tenths) == Clamped(Rounded(IF tenths < 0 THEN 0 ELSE tenths, 10), 0, PointCount - 1)
DutyAt(curve, tenths) == curve[PointFor(tenths)]

\* validate_duty and validate_curve: the floor of the channel, and never a step down.
ValidDuty(channel, duty) == duty >= MinDuty[channel]
ValidCurve(channel, curve) ==
    \A p \in Point : ValidDuty(channel, curve[p]) /\ (p > 0 => curve[p] >= curve[p - 1])

ValidProgram(program) ==
    CASE program.mode = "onboard" -> TRUE
      [] program.mode = "fixed" -> \A c \in DOMAIN MinDuty : ValidDuty(c, program.of[c])
      [] program.mode = "curve" -> \A c \in DOMAIN MinDuty : ValidCurve(c, program.of[c])

\* validate_name, over a name given by its length and whether trimming changes it.
ValidName(name) == name.length \in 1..48 /\ ~name.padded

\* validate_profile: the name first, then each value; the first fault is the answer.
Refusal(profile) ==
    CASE ~ValidName(profile.name) -> "name"
      [] ~ValidProgram(profile.program) -> "program"
      [] ~(\A command \in profile.lighting : command.valid) -> "lighting"
      [] ~profile.display.valid -> "display"
      [] OTHER -> "none"

\* required_capabilities and program_incompatibilities: what stops a program from
\* being written to a device whose record says which capabilities are writable.
Required(program) ==
    CASE program.mode = "onboard" -> {}
      [] program.mode = "fixed" -> {"duty"} \X DOMAIN MinDuty
      [] program.mode = "curve" -> {"curve"} \X DOMAIN MinDuty

Incompatible(program, writable) == Required(program) \ writable

-----------------------------------------------------------------------------
\* A percentage survives the trip to the device and back, and no two share a duty, so
\* a control has no dead position (duty_from_percent, duty_to_percent).
SettingSurvives(percent) ==
    /\ DutyToPercent(DutyFromPercent(percent)) = percent
    /\ percent > 0 => DutyFromPercent(percent) > DutyFromPercent(percent - 1)

\* The points go through the nodes, each the nearest byte to the segment of its own two
\* nodes, the short last one included (interpolate); and the nodes are read back out of
\* them (from_curve).
FollowsNodes(nodes) ==
    LET curve == Interpolate(nodes)
    IN  /\ Sampled(curve) = nodes /\ Drawable(curve)
        /\ \A n \in 0..(NodeCount - 2), p \in Point :
            LET from == PointIndex(n)
                to == PointIndex(n + 1)
            IN  p \in from..to =>
                    LET off == (curve[p] - nodes[n]) * (to - from) - (nodes[n + 1] - nodes[n]) * (p - from)
                    IN  2 * off \in -(to - from)..(to - from)
=============================================================================
