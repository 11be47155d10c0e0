-------------------------------- MODULE Probes --------------------------------
(***************************************************************************)
(* The two write probes (crates/daemon rgb_probe.rs, lcd_probe.rs, probe.rs *)
(* and their entry in main.rs): one process, one operator at a terminal,   *)
(* and a device no report reads back.  A panel is a device of one channel. *)
(* A report that fails may have landed.  The operator may interrupt the    *)
(* process, or be away and answer nothing.                                 *)
(***************************************************************************)
EXTENDS Integers, Sequences, FiniteSets

Seqs == INSTANCE SequencesExt

CONSTANTS
    Speed,           \* the speeds an effect is swept at
    ProbeChannels,   \* how many channels a controller may report
    CadenceSteps,    \* the intervals tried, slowest first
    CadenceCommands  \* how many commands each is tried with

ASSUME ProbesAssumption ==
    /\ IsFiniteSet(Speed)
    /\ ProbeChannels \subseteq Nat
    /\ CadenceSteps \in Nat \ {0} /\ CadenceCommands \in Nat \ {0}

VARIABLES
    probeStage,   \* what the process is doing
    probeOf,      \* what it was asked to do: device, scope, how many channels answered
    probeQueue,   \* what it has left to send, each a channel and a program
    probeShows,   \* what each channel may be showing
    probeSent,    \* the programs sent
    probeCadence, \* the measurement: step, commands landed, fastest stable step, the failure
    probeFailed,  \* whether a report of the restoration failed
    probeEnd      \* how it ended

probesVars == <<probeStage, probeOf, probeQueue, probeShows, probeSent, probeCadence, probeFailed, probeEnd>>

Scope == {"fixed_and_off", "with_effects", "effect_sweep"}
Never == 0

-----------------------------------------------------------------------------
(* What a run sends.                                                       *)

Plain(light) == [light |-> light, speed |-> "none", direction |-> "forward"]
Effect(light, speed, direction) == [light |-> light, speed |-> speed, direction |-> direction]
Prior == Plain("prior")
White == Plain("white")
Off == Plain("off")
RestoreTo(device) == IF device = "rgb" THEN Plain("chosen") ELSE Plain("default_view")

Colors == <<Plain("red"), Plain("green"), Plain("blue"), Plain("white")>>

\* ProbeScope::sweep: every value the screen can select, in some order.
Selectable ==
    {Effect("breathing", s, "forward") : s \in Speed}
    \cup {Effect("spectrum_wave", s, d) : s \in Speed, d \in {"forward", "backward"}}
Sweep == Seqs!SetToSeq(Selectable) \o <<Off>>

\* ProbeScope::programs.
ProbePrograms(of) ==
    IF of.device = "lcd" THEN Colors
    ELSE CASE of.scope = "fixed_and_off" -> <<White, Off>>
           [] of.scope = "with_effects" ->
                <<White, Off, Effect("breathing", "normal", "forward"), Effect("spectrum_wave", "normal", "forward"), Off>>
           [] of.scope = "effect_sweep" -> Sweep

\* ProbeScope::channels: a sweep stays on the first.
Addressed(of) == IF of.scope = "effect_sweep" /\ of.channels > 1 THEN 1 ELSE of.channels

\* Every program to every channel, one channel at a time.
Order(channels, programs) ==
    [i \in 1..(channels * Len(programs)) |->
        [channel |-> ((i - 1) \div Len(programs)) + 1, program |-> programs[((i - 1) % Len(programs)) + 1]]]

-----------------------------------------------------------------------------
ProbesInit ==
    /\ probeStage = "idle"
    /\ probeOf = [device |-> "rgb", scope |-> "fixed_and_off", channels |-> 0]
    /\ probeQueue = <<>>
    /\ probeShows = [c \in 1..2 |-> {Prior}]
    /\ probeSent = {}
    /\ probeCadence = [step |-> 1, landed |-> 0, stable |-> Never, failure |-> Never]
    /\ probeFailed = FALSE
    /\ probeEnd = "none"

Ends(how) ==
    /\ probeStage' = "done" /\ probeEnd' = how
    /\ UNCHANGED <<probeOf, probeQueue, probeShows, probeSent, probeCadence, probeFailed>>

Goes(stage) ==
    /\ probeStage' = stage
    /\ UNCHANGED <<probeOf, probeShows, probeSent, probeCadence, probeFailed, probeEnd>>

\* under_device_lock, rgb_write_probe, lcd_write_probe: the lock, then the question only
\* the device can answer; the caller stops where either is refused.
StartProbe(of) ==
    /\ probeStage = "idle"
    /\ probeOf' = of
    /\ probeStage' = IF of.device = "rgb" THEN "authorizing" ELSE "describing"
    /\ UNCHANGED <<probeQueue, probeShows, probeSent, probeCadence, probeFailed, probeEnd>>
ProbeIsRefused == probeStage = "idle" /\ Ends("refused")

\* authorized: the phrase, or anything else.
Authorize ==
    /\ probeStage = "authorizing"
    /\ IF probeOf.device = "rgb" THEN Goes("describing") /\ UNCHANGED probeQueue
       ELSE Goes("sending") /\ probeQueue' = Order(1, ProbePrograms(probeOf))
Decline == probeStage = "authorizing" /\ Ends("refused")

\* The question about the prior state, before the authorization of a panel and after a
\* controller's.
Describe ==
    /\ probeStage = "describing"
    /\ IF probeOf.device = "lcd" THEN Goes("authorizing") /\ UNCHANGED probeQueue
       ELSE Goes("sending") /\ probeQueue' = Order(Addressed(probeOf), ProbePrograms(probeOf))

\* A report: it is accepted, or refused before or after it landed.
SendReport(channel, program, fails, lands) ==
    /\ fails \/ lands
    /\ probeSent' = probeSent \cup {program}
    /\ probeShows' = [probeShows EXCEPT ![channel] = IF ~fails THEN {program} ELSE IF lands THEN @ \cup {program} ELSE @]

\* send and send_step, with the question: a panel is asked about only where it was sent.
SendStep(fails, lands) ==
    /\ probeStage = "sending" /\ probeQueue # <<>>
    /\ SendReport(Head(probeQueue).channel, Head(probeQueue).program, fails, lands)
    /\ probeQueue' = Tail(probeQueue)
    /\ UNCHANGED <<probeStage, probeOf, probeCadence, probeFailed, probeEnd>>

\* After the last step, the cadence of a controller and the restoration of a panel.
EveryChannel == Order(probeOf.channels, <<RestoreTo(probeOf.device)>>)
StepsEnd ==
    /\ probeStage = "sending" /\ probeQueue = <<>>
    /\ IF probeOf.device = "rgb" THEN Goes("cadence") /\ UNCHANGED probeQueue
       ELSE Goes("restoring") /\ probeQueue' = EveryChannel

\* Mutant: an interval is stable at its first command.
MeasuredEarly(fails) ==
    IF fails THEN [probeCadence EXCEPT !.failure = @ + probeCadence.step]
    ELSE IF probeCadence.landed + 1 < CadenceCommands
         THEN [probeCadence EXCEPT !.landed = @ + 1, !.stable = probeCadence.step]
    ELSE [probeCadence EXCEPT !.landed = 0, !.step = @ + 1]

\* An interval is stable when all of its commands were accepted.
Measured(fails) ==
    IF fails THEN [probeCadence EXCEPT !.failure = @ + probeCadence.step]
    ELSE IF probeCadence.landed + 1 < CadenceCommands THEN [probeCadence EXCEPT !.landed = @ + 1]
    ELSE [probeCadence EXCEPT !.landed = 0, !.stable = probeCadence.step, !.step = @ + 1]

\* measure_cadence: on the first channel addressed, or on channel one where there is none;
\* nothing faster after a failure.
MeasureCadence(fails, lands) ==
    /\ probeStage = "cadence" /\ probeCadence.failure = Never /\ probeCadence.step <= CadenceSteps
    /\ SendReport(1, IF probeCadence.landed % 2 = 0 THEN White ELSE Off, fails, lands)
    /\ probeCadence' = Measured(fails)
    /\ UNCHANGED <<probeStage, probeOf, probeQueue, probeFailed, probeEnd>>
CadenceEnds ==
    /\ probeStage = "cadence"
    /\ probeCadence.failure # Never \/ probeCadence.step > CadenceSteps
    /\ Goes("restoring") /\ probeQueue' = EveryChannel

\* restore: a controller's channels are all tried, a panel's failure ends the run.
RestoreChannel(fails, lands) ==
    /\ probeStage = "restoring" /\ probeQueue # <<>>
    /\ SendReport(Head(probeQueue).channel, Head(probeQueue).program, fails, lands)
    /\ probeQueue' = Tail(probeQueue)
    /\ probeFailed' = (probeFailed \/ fails)
    /\ UNCHANGED <<probeStage, probeOf, probeCadence, probeEnd>>

\* Somebody describes what they see, or nobody does.
Look(answers) ==
    /\ probeStage = "restoring" /\ probeQueue = <<>> /\ ~probeFailed
    /\ Ends(IF answers THEN "confirmed" ELSE "unconfirmed")
RestoreFailed ==
    /\ probeStage = "restoring" /\ probeQueue = <<>> /\ probeFailed
    /\ Ends(IF probeOf.device = "rgb" THEN "unconfirmed" ELSE "failed")

\* The operator leaves in the middle; the lock goes with the process.
Interrupted == probeStage \notin {"idle", "done"} /\ Ends("interrupted")

Requests ==
    [device : {"rgb"}, scope : Scope, channels : ProbeChannels]
    \cup [device : {"lcd"}, scope : {"fixed_and_off"}, channels : {1}]

ProbesNext ==
    \/ \E of \in Requests : StartProbe(of)
    \/ ProbeIsRefused \/ Authorize \/ Decline \/ Describe \/ StepsEnd \/ CadenceEnds \/ RestoreFailed \/ Interrupted
    \/ \E fails, lands \in BOOLEAN :
        SendStep(fails, lands) \/ MeasureCadence(fails, lands) \/ RestoreChannel(fails, lands)
    \/ \E answers \in BOOLEAN : Look(answers)

ProbesSpec == ProbesInit /\ [][ProbesNext]_probesVars

-----------------------------------------------------------------------------
\* A probe does not claim more than it did: nothing leaves the process before the phrase,
\* or after a refusal; a restoration that was seen is on every channel the controller
\* reported, whatever failed on the way and whatever an earlier run left there; and the
\* interval it calls stable is slower than the one that failed, all of whose commands were
\* tried (run, measure_cadence, restore).  A controller that reported no channel is
\* UnreportedIsRestored's.
ProbesAreHonest ==
    /\ probeSent # {} => probeStage \notin {"authorizing", "describing"} /\ probeEnd # "refused"
    /\ probeEnd = "confirmed" /\ probeOf.channels > 0 =>
        \A c \in DOMAIN probeShows :
            probeShows[c] = IF c <= probeOf.channels THEN {RestoreTo(probeOf.device)} ELSE {Prior}
    /\ probeCadence.failure # Never => probeCadence.stable = probeCadence.failure - 1
    /\ probeEnd \in {"confirmed", "unconfirmed"} /\ probeOf.device = "rgb" =>
        probeCadence.stable = CadenceSteps \/ probeCadence.failure # Never

\* A controller that reports no channel is sent the cadence on channel one, and nothing
\* puts it back, though the restoration is called seen (rgb_probe.rs:317).
UnreportedIsRestored ==
    probeEnd = "confirmed" => \A c \in DOMAIN probeShows : White \notin probeShows[c] /\ Off \notin probeShows[c]

\* What is authorized is what leaves the process (rgb_probe.rs:177): not the dim white of
\* the cadence after a sweep, nor what a run restores.
AuthorizedIsSent ==
    probeSent \subseteq {ProbePrograms(probeOf)[i] : i \in DOMAIN ProbePrograms(probeOf)}
=============================================================================
