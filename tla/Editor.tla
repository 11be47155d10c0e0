------------------------------- MODULE Editor -------------------------------
(***************************************************************************)
(* The Cooling screen's editor (crates/app/src/cooling.rs, the curve plot  *)
(* of components/curve.rs and the gestures of shell/screen/drag.rs): what  *)
(* the operator draws, step by step, and what a confirmed program or a     *)
(* readback does to it.  When it is written is Client's.                   *)
(***************************************************************************)
EXTENDS Curves

CONSTANTS
    Committed,  \* the programs the daemon may report as committed
    Readback,   \* the duties and modes the device may report
    MaxGestures \* how many things the operator does

Channel == DOMAIN MinDuty
CoolingMode == {"onboard", "fixed", "curve"}
CoolingProgram ==
    [mode : {"onboard"}]
    \cup [mode : {"fixed"}, of : [Channel -> Duty]]
    \cup [mode : {"curve"}, of : [Channel -> [Point -> Duty]]]

\* The ramp the editor starts with is above every floor.
ASSUME EditorAssumption ==
    /\ MaxGestures \in Nat
    /\ Committed \subseteq CoolingProgram /\ \A program \in Committed : ValidProgram(program)
    /\ Readback \subseteq [mode : CoolingMode, duty : Duty]
    /\ \A c \in Channel : MinDuty[c] <= StartingRamp[0]

VARIABLES
    mode,     \* CoolingEditor.mode
    duties,   \* pump_duty and fan_duty
    nodes,    \* pump_curve and fan_curve
    applied,  \* the last program this client saw confirmed, or NoProgram
    inFlight, \* the program on its way to the daemon, or NoProgram
    drag,     \* the gesture: none, a duty or a node with the curve at its press
    gestures  \* how many so far

drawn == <<mode, duties, nodes>>
editorVars == <<drawn, applied, inFlight, drag, gestures>>

NoProgram == [mode |-> "onboard"]
NoDrag == [of |-> "none"]

EditorInit ==
    /\ mode = "onboard"
    /\ duties = [c \in Channel |-> Clamped(DutyFromPercent(MaxPercent \div 2), MinDuty[c], MaxDuty)]
    /\ nodes = [c \in Channel |-> StartingRamp]
    /\ applied = NoProgram /\ inFlight = NoProgram
    /\ drag = NoDrag
    /\ gestures = 0

EditorProgram ==
    CASE mode = "onboard" -> NoProgram
      [] mode = "fixed" -> [mode |-> "fixed", of |-> duties]
      [] mode = "curve" -> [mode |-> "curve", of |-> [c \in Channel |-> Interpolate(nodes[c])]]

Gesture == gestures < MaxGestures /\ gestures' = gestures + 1

ClampedDuty(channel, duty) == Clamped(duty, MinDuty[channel], MaxDuty)

SetDuty(channel, duty) == duties' = [duties EXCEPT ![channel] = ClampedDuty(channel, duty)]

SetNodeFrom(channel, base, node, duty) ==
    /\ nodes' = [nodes EXCEPT ![channel] = SetNode(base, node, ClampedDuty(channel, duty))]
    /\ mode' = "curve"

SetMode(to) ==
    /\ Gesture /\ drag = NoDrag
    /\ mode' = to
    /\ UNCHANGED <<duties, nodes, applied, inFlight, drag>>

Stepped(duty, steps) == DutyFromPercent(Clamped(DutyToPercent(duty) + steps, 0, MaxPercent))

AdjustDuty(channel, steps) ==
    /\ Gesture /\ drag = NoDrag
    /\ SetDuty(channel, Stepped(duties[channel], steps))
    /\ UNCHANGED <<mode, nodes, applied, inFlight, drag>>

AdjustNode(channel, node, steps) ==
    /\ Gesture /\ drag = NoDrag
    /\ SetNodeFrom(channel, nodes[channel], node, Stepped(nodes[channel][node], steps))
    /\ UNCHANGED <<duties, applied, inFlight, drag>>

\* begin_drag on a plot: the press is already an edit.  percent is the height read
\* by node_at; node is the nearest one.
PressNode(channel, node, percent) ==
    /\ Gesture /\ drag = NoDrag
    /\ drag' = [of |-> "node", channel |-> channel, node |-> node, base |-> nodes[channel]]
    /\ SetNodeFrom(channel, nodes[channel], node, DutyFromPercent(percent))
    /\ UNCHANGED <<duties, applied, inFlight>>

PressDuty(channel, percent) ==
    /\ Gesture /\ drag = NoDrag
    /\ DutyToPercent(MinDuty[channel]) <= percent
    /\ drag' = [of |-> "duty", channel |-> channel]
    /\ SetDuty(channel, DutyFromPercent(percent))
    /\ UNCHANGED <<mode, nodes, applied, inFlight>>

\* Mutant: every move starts from where the last one left the curve.
DragFromCurrent == nodes[drag.channel]

\* The curve as it stood when the pointer went down.
DragBase == drag.base

DragTo(percent) ==
    /\ Gesture
    /\ \/ /\ drag.of = "node"
          /\ SetNodeFrom(drag.channel, DragBase, drag.node, DutyFromPercent(percent))
          /\ UNCHANGED duties
       \/ /\ drag.of = "duty" /\ DutyToPercent(MinDuty[drag.channel]) <= percent
          /\ SetDuty(drag.channel, DutyFromPercent(percent))
          /\ UNCHANGED <<mode, nodes>>
    /\ UNCHANGED <<applied, inFlight, drag>>

EndDrag ==
    /\ drag # NoDrag
    /\ drag' = NoDrag
    /\ UNCHANGED <<drawn, applied, inFlight, gestures>>

\* adopt: a curve the nodes cannot draw leaves the screen as it stands.
AdoptCommitted(program) ==
    /\ drag = NoDrag /\ inFlight = NoProgram
    /\ \/ /\ program.mode = "onboard"
          /\ mode' = "onboard" /\ applied' = program
          /\ UNCHANGED <<duties, nodes>>
       \/ /\ program.mode = "fixed"
          /\ duties' = [c \in Channel |-> ClampedDuty(c, program.of[c])]
          /\ mode' = "fixed" /\ applied' = program
          /\ UNCHANGED nodes
       \/ /\ program.mode = "curve" /\ \A c \in Channel : Drawable(program.of[c])
          /\ nodes' = [c \in Channel |-> Sampled(program.of[c])]
          /\ mode' = "curve" /\ applied' = program
          /\ UNCHANGED duties
    /\ UNCHANGED <<inFlight, drag, gestures>>

\* send_cooling, and the confirmation that record_applied notes: of the program that
\* was sent, whatever was drawn since.
Sends ==
    /\ drag = NoDrag /\ inFlight = NoProgram /\ mode # "onboard"
    /\ inFlight' = EditorProgram
    /\ UNCHANGED <<drawn, applied, drag, gestures>>

RecordApplied ==
    /\ inFlight # NoProgram
    /\ inFlight' = NoProgram /\ applied' = inFlight
    /\ UNCHANGED <<drawn, drag, gestures>>

\* cancel: the curve of the last confirmed program, the duties and the mode read back.
Cancel(read) ==
    /\ Gesture /\ drag = NoDrag
    /\ nodes' = IF applied.mode = "curve" /\ \A c \in Channel : Drawable(applied.of[c])
                THEN [c \in Channel |-> Sampled(applied.of[c])] ELSE nodes
    /\ duties' = [c \in Channel |-> ClampedDuty(c, read.duty)]
    /\ mode' = read.mode
    /\ UNCHANGED <<applied, inFlight, drag>>

EditorNext ==
    \/ \E to \in CoolingMode : SetMode(to)
    \/ \E c \in Channel, steps \in {-1, 1} :
        \/ AdjustDuty(c, steps)
        \/ \E n \in Node : AdjustNode(c, n, steps)
    \/ \E c \in Channel, percent \in Percent :
        \/ PressDuty(c, percent)
        \/ \E n \in Node : PressNode(c, n, percent)
    \/ \E percent \in Percent : DragTo(percent)
    \/ EndDrag
    \/ \E program \in Committed : AdoptCommitted(program)
    \/ Sends \/ RecordApplied
    \/ \E read \in Readback : Cancel(read)

EditorSpec == EditorInit /\ [][EditorNext]_editorVars

-----------------------------------------------------------------------------
EditorTypeOK ==
    /\ mode \in CoolingMode
    /\ duties \in [Channel -> Duty] /\ nodes \in [Channel -> [Node -> Duty]]
    /\ applied.mode = "onboard" \/ DOMAIN applied.of = Channel
    /\ drag = NoDrag \/ (drag.of \in {"duty", "node"} /\ drag.channel \in Channel)

\* No sequence of edits, adoptions and reverts puts a program on the screen that the
\* daemon's gate refuses (set_duty, set_node, CurveNodes::set and interpolate together).
ScreenIsValid == ValidProgram(EditorProgram)

\* A gesture that brings its node back to where it was brings the whole curve back,
\* whatever it pushed on the way (set_node_from, "the gesture is idempotent").
DragComesBack ==
    drag.of = "node" /\ nodes[drag.channel][drag.node] = drag.base[drag.node]
        => nodes[drag.channel] = drag.base

\* What is adopted is what the screen would write, to the last point: no pending
\* edit is left behind by it (adopt, from_curve as the inverse of interpolate).
AdoptedIsWritten ==
    \A program \in Committed : AdoptCommitted(program) => EditorProgram' = program

\* One press of a stepper is one setting of the device, from wherever a readback left
\* the duty, except at the ends of the range (adjust_duty).
StepIsOneSetting ==
    \A c \in Channel, steps \in {-1, 1} :
        AdjustDuty(c, steps) =>
            LET from == DutyToPercent(duties[c])
                floor == DutyToPercent(MinDuty[c])
            IN  DutyToPercent(duties'[c]) = Clamped(from + steps, floor, MaxPercent)

\* The screen holds a program, one the daemon takes, and a gesture leaves it as drawn.
EditorIsSound == EditorTypeOK /\ ScreenIsValid /\ DragComesBack

\* Neither adopting a program nor stepping a duty moves what nobody moved.
EditorKeepsTheGrid ==
    [][editorVars' # editorVars => AdoptedIsWritten /\ StepIsOneSetting]_editorVars
=============================================================================
