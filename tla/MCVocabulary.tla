--------------------------- MODULE MCVocabulary ---------------------------
(***************************************************************************)
(* The parts of the vocabulary side by side: a behaviour belongs to one    *)
(* part and leaves the others where they begin.  The state machines are    *)
(* their modules'; a pure algorithm takes a sample and is compared with    *)
(* what it is meant to compute, at the size the code uses.                 *)
(***************************************************************************)
EXTENDS Editor, Readouts, Lights, Preview, Probes, Journal, Machine, Window, TLC

CONSTANTS pump, fan, cpu, gpu, red, blue, gif, torn

VARIABLES
    part,   \* which part this behaviour is about
    sample  \* what a pure algorithm is given

machines == <<editorVars, readoutsVars, lightsVars, previewVars, probesVars, journalVars, machineVars, windowVars>>
vars == <<machines, part, sample>>

\* The editor on a small grid: duties 0..6 are percents 0..3, three nodes draw four
\* points, and the pump never stops.
Drawn(a, b, c, d) == 0 :> a @@ 1 :> b @@ 2 :> c @@ 3 :> d
Floors == pump :> 2
Each(p, f) == pump :> p @@ fan :> f
Programs ==
    { [mode |-> "onboard"],
      [mode |-> "fixed", of |-> pump :> 3],
      [mode |-> "curve", of |-> pump :> Drawn(2, 3, 4, 6)],
      [mode |-> "curve", of |-> pump :> Drawn(2, 2, 4, 4)] }
Reports == {[mode |-> "fixed", duty |-> 5], [mode |-> "curve", duty |-> 0]}

\* A slider asked past its ends.
PastEnds == {-5, 105}

\* An animation whose frames stay up for different times, and a file that is
\* refused; and a committed preset of every kind.
Films == gif :> <<1, 2>> @@ torn :> <<>>
Presets ==
    { DefaultInfographic(<<cpu, gpu>>),
      [DefaultInfographic(<<gpu, cpu>>) EXCEPT !.mode = "single_reading", !.colors["fade1"] = NoInk],
      [DefaultInfographic(<<cpu, gpu>>) EXCEPT !.mode = "image", !.image = gif, !.orientation = 90] }

\* Serials of which one is part of another, one is too short to keep and one is a word
\* of the format; and texts that hold them, overlapping and side by side.
Numbers == {<<"a">>, <<"a", "b">>, <<"a", "b", "a">>, <<"b", "b">>}
Told == {<<"a", "b", "a", "b">>, <<"b", "a", "b", "b">>}
Cries == {<<"a", "b", "a">>, <<"b">>}
Words == [k \in {"failed", "disconnected", "applied"} |-> <<"a">>] @@ "recovered" :> <<"a", "b", "b">>

Real == INSTANCE Curves
    WITH MaxDuty <- 255, MaxPercent <- 100, PointCount <- 40, StepC <- 5, NodeCount <- 9,
         MinDuty <- Each(51, 0)

Screen == INSTANCE Plot
    WITH MaxDuty <- 255, MaxPercent <- 100, PointCount <- 40, StepC <- 5, NodeCount <- 9,
         MinDuty <- Each(51, 0)

Glass == INSTANCE Drawing
Gate == INSTANCE Gates

Init ==
    /\ EditorInit /\ ReadoutsInit /\ LightsInit /\ PreviewInit /\ ProbesInit /\ JournalInit
    /\ MachineInit /\ WindowInit
    /\ part \in {"editor", "readouts", "lights", "preview", "probes", "journal", "load", "window", "percent", "nodes", "dial", "lines", "turns", "cover", "files", "gates", "device", "chips", "channel", "series", "fills", "presses", "sliders", "dots"}
    /\ part # "lights" => answer = 0
    /\ part # "journal" => secrets = <<>>
    /\ part # "load" => previous = NoBaseline
    /\ part # "window" => destination = "monitoring" /\ store.active = Safe
    /\ sample = <<>>

Next ==
    \/ part = "editor" /\ EditorNext
       /\ UNCHANGED <<readoutsVars, lightsVars, previewVars, probesVars, journalVars, machineVars, windowVars, part, sample>>
    \/ part = "readouts" /\ ReadoutsNext
       /\ UNCHANGED <<editorVars, lightsVars, previewVars, probesVars, journalVars, machineVars, windowVars, part, sample>>
    \/ part = "lights" /\ LightsNext
       /\ UNCHANGED <<editorVars, readoutsVars, previewVars, probesVars, journalVars, machineVars, windowVars, part, sample>>
    \/ part = "preview" /\ PreviewNext
       /\ UNCHANGED <<editorVars, readoutsVars, lightsVars, probesVars, journalVars, machineVars, windowVars, part, sample>>
    \/ part = "probes" /\ ProbesNext
       /\ UNCHANGED <<editorVars, readoutsVars, lightsVars, previewVars, journalVars, machineVars, windowVars, part, sample>>
    \/ part = "journal" /\ JournalNext
       /\ UNCHANGED <<editorVars, readoutsVars, lightsVars, previewVars, probesVars, machineVars, windowVars, part, sample>>
    \/ part = "load" /\ MachineNext
       /\ UNCHANGED <<editorVars, readoutsVars, lightsVars, previewVars, probesVars, journalVars, windowVars, part, sample>>
    \/ part = "window" /\ WindowNext
       /\ UNCHANGED <<editorVars, readoutsVars, lightsVars, previewVars, probesVars, journalVars, machineVars, part, sample>>
    \/ /\ sample = <<>>
       /\ \/ part = "percent" /\ sample' \in {<<p>> : p \in Real!Percent}
          \/ part = "nodes" /\ sample' \in {[n \in Real!Node |-> three[n % 3]] : three \in [0..2 -> {0, 51, 90, 128, 255}]}
          \/ part = "dial" /\ sample' \in Glass!Measured \X BOOLEAN
          \/ part = "lines" /\ sample' \in Glass!Measured \X Glass!Measured
          \/ part = "turns" /\ sample' \in Glass!Sizes \X Glass!Orientation
          \/ part = "cover" /\ sample' \in Glass!Sizes \X Glass!Sizes
          \/ part = "files" /\ sample' \in {<<f>> : f \in Glass!Files}
          \/ part = "gates" /\ sample' \in {<<m>> : m \in Gate!Machines}
          \/ part = "device" /\ sample' \in {<<d>> : d \in Devices}
          \/ part = "chips" /\ sample' \in Chips \X Chips
          \/ part = "channel" /\ sample' \in {<<f>> : f \in ChannelFiles}
          \/ part = "series" /\ \E n \in 0..7 : sample' \in [1..n -> {<<>>, <<0>>, <<9>>}] \X {0, 3}
          \/ part = "fills" /\ sample' \in {<<k>> : k \in 0..28}
          \/ part = "presses" /\ sample' \in (0..255) \X {60, 100, 180}
          \/ part = "sliders" /\ sample' \in (15..105) \X {1, 10, 200}
          \/ part = "dots" /\ sample' \in {[n \in 0..8 |-> 51], [n \in 0..8 |-> IF n < 8 THEN 51 ELSE 255]} \X (0..39)
       /\ UNCHANGED <<machines, part>>

Spec == Init /\ [][Next]_vars

\* The percent grid and the curve through the nodes, on the real scale (Curves states each).
PercentSurvives == part = "percent" /\ sample # <<>> => Real!SettingSurvives(sample[1])
CurveFollowsNodes == part = "nodes" /\ sample # <<>> => Real!FollowsNodes(sample)

\* The panel is drawn as it is meant to be: its gauges, its lines, the turn, the file and
\* the bytes (lcd-renderer; Drawing states each).
PanelIsDrawn ==
    /\ part = "dial" /\ sample # <<>> => Glass!DialIsRead(sample[1], sample[2])
    /\ part = "lines" /\ sample # <<>> => Glass!LinesFit(sample[1], sample[2])
    /\ part = "turns" /\ sample # <<>> => Glass!TurnsCompose(sample[1], sample[2])
    /\ part = "cover" /\ sample # <<>> => Glass!CoverIsEven(sample[1], sample[2])
    /\ part = "cover" /\ sample = <<>> => Glass!PreviewIsTheGlass
    /\ part = "files" /\ sample # <<>> => Glass!FilesAgree(sample[1])

\* The test an_oblong_panel_keeps_its_readings_inside_its_own_ring asks of both columns
\* what it tries with a temperature: a load of one hundred puts its sign over the right
\* band.
UnitsKeepOffTheRing == part = "lines" /\ sample # <<>> => Glass!UnitsKeepOff(sample[2])

\* A chart, the curve and a slider are drawn where a pointer finds them (app components;
\* Plot states each).
PlotIsRead ==
    /\ part = "series" /\ sample # <<>> => Screen!SeriesIsDrawn(sample[1], sample[2])
    /\ part = "fills" /\ sample = <<>> => Screen!TextureIsEven
    /\ part = "fills" /\ sample # <<>> => Screen!FillStaysUnder(<<sample[1], 28>>)
    /\ part = "presses" /\ sample # <<>> => Screen!PressFindsItsNode(sample[1], sample[2])
    /\ part = "sliders" /\ sample # <<>> => Screen!SliderIsHeld(sample[1], sample[2])

\* What their comments say and they do not do, as Plot tells.
DotMeetsTheCurve == part = "dots" /\ sample # <<>> => Screen!DotMeetsTheCurve(sample[1], sample[2])
HandleHoldsItsValue ==
    part = "sliders" /\ sample # <<>> /\ sample[2] = 200 /\ sample[1] \in 20..100 =>
        Screen!HandleHoldsItsValue(sample[1], sample[2])

\* What the kernel shows is read as it is (hardware-linux; Machine states each).
MachineIsRead ==
    /\ LoadIsMeasured
    /\ part = "device" /\ sample # <<>> => DeviceIsRead(sample[1])
    /\ part = "chips" /\ sample # <<>> => ChipsAreRead(sample)
    /\ part = "channel" /\ sample # <<>> => ChannelIsRead(sample[1])

\* What the interface and its journal tell: the readouts follow the collectors, the
\* figures follow the kernel's files, and the log says what happened and no serial.
WhatIsToldIsTrue == ReadoutsAreHonest /\ MachineIsRead /\ JournalIsHonest

\* What the client offers is what the daemon accepts, and what the daemon accepts has a
\* device to reach that nobody holds (link/gate.rs, daemon state.rs; Gates states each).
GatesAgree == part = "gates" /\ sample # <<>> => Gate!GatesAgree(sample[1])

\* What they do not do, as Gates tells: a conflict about the other device, and two of a kind.
EnabledIsAccepted == part = "gates" /\ sample # <<>> => Gate!EnabledIsAccepted(sample[1])
TwinsAreUncontended == Gate!AloneIsUncontended(Gate!Twins)

\* The duty scale, the curve and the drawing of both, at the size the code uses.
AlgorithmsAgree == PercentSurvives /\ CurveFollowsNodes /\ PlotIsRead
=============================================================================
