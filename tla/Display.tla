------------------------------ MODULE Display ------------------------------
(***************************************************************************)
(* The display executor (crates/daemon/src/display.rs), the ticker thread  *)
(* that redraws the panel and advances an animation on one clock           *)
(* (crates/daemon/src/server.rs, crates/daemon/src/state.rs tick), and the *)
(* panel they write to.  Everything here runs under the daemon's mutex, so *)
(* an apply and a wake of the ticker are one step each; between them the   *)
(* device comes and goes, the collector publishes samples and time passes. *)
(*                                                                         *)
(* A preset is a kind and a brightness.  A "field" draws one picture, a    *)
(* "gauge" a picture per reading, a "clip" is an animation of as many      *)
(* frames as it has delays, given by the times they add up to (Begin), and *)
(* a "broken" preset names a file that does not decode.  Only images fail  *)
(* to render.  The counter of dropped frames and the event log are left    *)
(* out.                                                                    *)
(***************************************************************************)
EXTENDS Integers, Sequences

CONSTANTS
    Kind,        \* the kinds of preset a client asks for
    Brightness,  \* the levels a preset asks for
    Reading,     \* what the collector reads
    Begin,       \* when each frame of the clip begins, and the clip again
    Interval,    \* the telemetry interval
    None, Torn,  \* no value; a picture that did not arrive whole
    MaxTime,     \* bound: the clock
    MaxPlugs,    \* bound: how often the device is connected
    Faults       \* which misbehaviours a model includes

(* refusal   a transfer over a live connection fails                       *)
(* lands     a failed brightness report may have reached the panel         *)
(* unplug    the device is disconnected and connected again                *)
FaultKinds == {"refusal", "lands", "unplug"}

ASSUME DisplayAssumption ==
    /\ Kind \subseteq {"field", "gauge", "clip", "broken"}
    /\ Begin \in Seq(Nat) /\ Len(Begin) > 2 /\ Begin[1] = 0
    /\ \A i, j \in 1..Len(Begin) : i < j => Begin[j] - Begin[i] >= j - i
    /\ Interval \in Nat \ {0} /\ MaxTime \in Nat /\ MaxPlugs \in Nat \ {0}
    /\ None \notin Brightness
    /\ Faults \subseteq FaultKinds

VARIABLES
    executor,  \* DisplayExecutor: active, committed, brightness, faulted, animation
    link,      \* the connection its descriptors belong to, 0 for none
    plugs,     \* connections so far
    plugged,   \* is the device there
    panel,     \* what the glass shows: picture and brightness
    present,   \* the last sample: is the Kraken there
    reading,   \* the last sample: its reading
    clock,     \* the time
    next,      \* when the ticker's next telemetry pass is due
    (* What the properties compare with; no action reads these.            *)
    tried,     \* did the last step hand the link anything
    refused    \* a wake's transfer failed, and nothing forgave it since

device == <<plugs, plugged>>
sample == <<present, reading>>
vars == <<executor, link, device, panel, sample, clock, next, tried, refused>>

\* The last of Begin is when the clip begins again.
Frames == Len(Begin) - 1
Period == Begin[Frames + 1]

\* How long a frame is shown, and when the n-th picture of the loop, counted from
\* 0, begins after the start of the clip.
Delay(frame) == Begin[frame + 1] - Begin[frame]
At(n) == (n \div Frames) * Period + Begin[(n % Frames) + 1]

Preset == [kind : Kind, brightness : Brightness]
Picture == [kind : Kind, n : Reading \cup (0..Frames)]
Firmware == [kind |-> None, n |-> None]

NoExecutor == [active |-> None, committed |-> None, brightness |-> None,
               faulted |-> FALSE, animation |-> None]

Live == plugged /\ link = plugs

Init ==
    /\ executor = NoExecutor
    /\ link \in {0, 1} /\ plugs = 1 /\ plugged = TRUE
    /\ panel \in [picture : {Firmware}, brightness : Brightness]
    /\ present = TRUE /\ reading \in Reading
    /\ clock = 0 /\ next = Interval
    /\ tried = FALSE /\ refused = FALSE

-----------------------------------------------------------------------------
(* send_bytes, as the set of its results: the executor after it, the glass *)
(* after it, the HardwareState it answers and whether it wrote anything.   *)

Result(e, g, h, t) == [executor |-> e, panel |-> g, hardware |-> h, tried |-> t]

\* Mutant: the record of the picture survives a failed transfer.
UncertainKept(e) == e

\* uncertain: the record of the picture is dropped.
Uncertain(e) == [e EXCEPT !.committed = None]

MayFail == ~Live \/ "refusal" \in Faults

Transfers(e, g, preset, picture, wrote) ==
    IF e.committed # None /\ e.committed.picture = picture
    THEN {Result(e, g, "confirmed", wrote)}
    ELSE (IF Live
          THEN {Result([e EXCEPT !.committed = [preset |-> preset, picture |-> picture]],
                       [g EXCEPT !.picture = picture], "confirmed", TRUE)}
          ELSE {})
         \cup
         (IF MayFail
          THEN {Result(Uncertain(e), [g EXCEPT !.picture = p], "uncertain", TRUE) :
                    p \in {g.picture} \cup (IF Live THEN {Torn} ELSE {})}
          ELSE {})

\* The brightness goes ahead of the picture, and only when it changed.
SendBytes(e, g, preset, picture) ==
    LET level == preset.brightness
        landed == {g.brightness} \cup (IF Live /\ "lands" \in Faults THEN {level} ELSE {})
    IN  CASE link = 0 -> {Result(e, g, "not_applied", FALSE)}
          [] link # 0 /\ e.brightness = level -> Transfers(e, g, preset, picture, FALSE)
          [] OTHER ->
               (IF Live
                THEN Transfers([e EXCEPT !.brightness = level], [g EXCEPT !.brightness = level],
                               preset, picture, TRUE)
                ELSE {})
               \cup
               (IF MayFail
                THEN {Result(Uncertain(e), [g EXCEPT !.brightness = b], "uncertain", TRUE) :
                          b \in landed}
                ELSE {})

\* The picture a preset draws first.
Render(preset) ==
    [kind |-> preset.kind,
     n |-> CASE preset.kind = "gauge" -> reading
             [] preset.kind = "clip"  -> 1
             [] OTHER                 -> 0]

-----------------------------------------------------------------------------
(* apply, from a client, from a profile or from the session at startup.    *)

\* A file that does not decode: nothing is sent and the preset that was active
\* stays active, without its animation.
ApplyBroken(preset) ==
    /\ preset.kind = "broken" /\ link # 0
    /\ executor' = [executor EXCEPT !.faulted = FALSE, !.animation = None]
    /\ tried' = FALSE /\ refused' = FALSE
    /\ UNCHANGED <<link, device, panel, sample, clock, next>>

\* start is when the clip began; no action reads it.
Started == [cursor |-> 1, due |-> clock + Delay(1), start |-> clock]

Apply(preset) ==
    /\ preset.kind = "broken" => link = 0
    /\ \E r \in SendBytes([executor EXCEPT !.faulted = FALSE], panel, preset, Render(preset)) :
         /\ executor' = [r.executor EXCEPT
                           !.active = preset,
                           !.animation = IF preset.kind = "clip" /\ link # 0 THEN Started ELSE None]
         /\ panel' = r.panel
         /\ tried' = r.tried
    /\ refused' = FALSE
    /\ UNCHANGED <<link, device, sample, clock, next>>

-----------------------------------------------------------------------------
(* The ticker.  One wake advances the animation when a frame is due, and   *)
(* when a telemetry interval is over runs one pass of tick.  What a wake   *)
(* did before this point is carried in a Result.                           *)

Streaming(e) ==
    /\ link # 0 /\ ~e.faulted
    /\ e.animation # None \/ (e.active # None /\ e.active.kind = "gauge")

FrameAfter(cursor, k) == ((cursor - 1 + k) % Frames) + 1

\* Mutant: one frame per wake, due a delay after the wake.
AdvancedByOne(a) ==
    {[a EXCEPT !.cursor = FrameAfter(a.cursor, 1),
               !.due = clock + Delay(FrameAfter(a.cursor, 1))]}

\* When the animation is due after k more frames: their delays added to the due time.
DueAfter(a, k) == a.due + At(a.cursor + k) - At(a.cursor)

\* The cursor walks the wall clock: as many frames as were due, up to the first
\* that is still due later.
Advanced(a) ==
    {[a EXCEPT !.cursor = FrameAfter(a.cursor, k), !.due = DueAfter(a, k)] :
        k \in {k \in 1..MaxTime + 1 : /\ DueAfter(a, k) > clock
                                     /\ \A j \in 1..k - 1 : DueAfter(a, j) <= clock}}

\* A stream stops at its first failed transfer.
Faulted(r) ==
    IF r.hardware = "uncertain" THEN [r EXCEPT !.executor.faulted = TRUE] ELSE r

\* advance_animation.
Animate(e) ==
    IF ~Streaming(e) \/ e.animation = None \/ clock < e.animation.due
    THEN {Result(e, panel, "none", FALSE)}
    ELSE UNION {{Faulted(r) : r \in SendBytes([e EXCEPT !.animation = a], panel, e.active,
                                              [kind |-> "clip", n |-> a.cursor])} :
                    a \in Advanced(e.animation)}

\* forget: what the panel shows is unknown, and a stopped stream may go on.
Forget(e) == [e EXCEPT !.committed = None, !.brightness = None, !.faulted = FALSE]

\* refresh, for a preset that reads telemetry.
Refresh(r) ==
    IF ~Streaming(r.executor) \/ r.executor.animation # None
    THEN {r}
    ELSE {Faulted([x EXCEPT !.tried = @ \/ r.tried]) :
              x \in SendBytes(r.executor, r.panel, r.executor.active, Render(r.executor.active))}

\* Mutant: redraws whether or not the device is there.
TickUngated(r) == Refresh(IF present THEN r ELSE [r EXCEPT !.executor = Forget(@)])

\* tick: reconcile, then redraw if the sample has the device.
Tick(r) == IF present THEN Refresh(r) ELSE {[r EXCEPT !.executor = Forget(@)]}

\* The intervals that were missed are skipped over.
NextPass == next + ((clock - next) \div Interval + 1) * Interval

\* This wake runs a pass, and the pass does not find the device.
Misses == clock >= next /\ ~present

Wake ==
    /\ \E first \in Animate(executor) :
       \E last \in (IF clock >= next THEN Tick(first) ELSE {first}) :
         /\ executor' = last.executor
         /\ panel' = last.panel
         /\ tried' = last.tried
         /\ refused' = /\ ~Misses
                       /\ refused \/ "uncertain" \in {first.hardware, last.hardware}
    /\ next' = IF clock >= next THEN NextPass ELSE next
    /\ UNCHANGED <<link, device, sample, clock>>

-----------------------------------------------------------------------------
(* The world around it.                                                    *)

\* The collector's pass over the Kraken, from its own thread.
Collect ==
    /\ present' = plugged
    /\ reading' \in IF plugged THEN Reading ELSE {reading}
    /\ tried' = FALSE
    /\ UNCHANGED <<executor, link, device, panel, clock, next, refused>>

Elapse ==
    /\ clock < MaxTime
    /\ clock' = clock + 1
    /\ tried' = FALSE
    /\ UNCHANGED <<executor, link, device, panel, sample, next, refused>>

Unplug ==
    /\ "unplug" \in Faults /\ plugged
    /\ plugged' = FALSE
    /\ tried' = FALSE
    /\ UNCHANGED <<executor, link, plugs, panel, sample, clock, next, refused>>

\* The descriptors stay those of the connection that is gone.
Plug ==
    /\ ~plugged /\ plugs < MaxPlugs
    /\ plugged' = TRUE /\ plugs' = plugs + 1
    /\ panel' \in [picture : {Firmware}, brightness : Brightness]
    /\ tried' = FALSE /\ refused' = FALSE
    /\ UNCHANGED <<executor, link, sample, clock, next>>

Next ==
    \/ \E preset \in Preset : Apply(preset)
    \/ \E preset \in Preset : ApplyBroken(preset)
    \/ Wake
    \/ Collect \/ Elapse
    \/ Unplug \/ Plug

Spec == Init /\ [][Next]_vars

-----------------------------------------------------------------------------
TypeOK ==
    /\ executor.active \in Preset \cup {None}
    /\ executor.committed # None => /\ executor.committed.preset \in Preset
                                    /\ executor.committed.picture \in Picture
    /\ executor.brightness \in Brightness \cup {None}
    /\ executor.faulted \in BOOLEAN
    /\ executor.animation # None => /\ executor.animation.cursor \in 1..Frames
                                    /\ executor.animation.due > executor.animation.start
    /\ panel.picture \in Picture \cup {Firmware, Torn} /\ panel.brightness \in Brightness
    /\ link \in 0..plugs /\ plugs \in 1..MaxPlugs
    /\ clock \in 0..MaxTime /\ next \in 0..(MaxTime + Interval)

\* As long as its connection lives, the picture the executor deduplicates against
\* is the one on the glass, whatever failed on the way.
CommittedIsShown ==
    Live /\ executor.committed # None => panel.picture = executor.committed.picture

\* A stream whose transfer was refused sends nothing more until the device comes
\* back, a preset is applied or a pass misses the device and forgives the fault
\* (display.rs, faulted: "it stops until something changes").
RefusalEndsStream == [][refused /\ Wake => ~tried']_vars

\* A wake that knows the device is gone hands it nothing (state.rs, tick: "keeps a
\* disconnected Kraken from being handed a frame a second forever").
AbsentStaysQuiet == [][Wake /\ ~present => ~tried']_vars

\* An animation plays on its file's clock whatever the ticker slept through: a
\* wake that finds the stream running leaves the cursor on the frame that the
\* time since the start calls for.
OnSchedule ==
    [][Wake /\ Streaming(executor) /\ Streaming(executor') /\ executor'.animation # None =>
         \E k \in 0..MaxTime :
           LET a == executor'.animation
           IN  /\ a.start + At(k) <= clock /\ clock < a.start + At(k + 1)
               /\ a.cursor = FrameAfter(1, k)]_vars

\* A ticker that was held up never runs passes back to back: after a wake the
\* next one is due later, by one interval at most and on the original grid.
NoBacklog ==
    [][Wake => next' > clock /\ next' <= clock + Interval /\ next' % Interval = 0]_vars

\* The preset published as committed is what the panel is showing, its brightness
\* included (DisplayState: "what the panel is currently showing, as far as the
\* daemon knows"); the client sends nothing when it equals what it would ask for.
PublishedIsShown ==
    Live /\ executor.committed # None =>
        panel.brightness = executor.committed.preset.brightness

\* A failed transfer drops the record of what the panel shows "rather than left
\* claiming" what may not be so (uncertain's comment), the brightness included.
BrightnessIsKnown ==
    Live /\ executor.brightness # None => panel.brightness = executor.brightness

\* The daemon knows what is on the panel, or knows that it does not.
PanelIsKnown == TypeOK /\ CommittedIsShown

\* The ticker keeps time: an animation its file's, the passes their interval's.
KeepsTime == OnSchedule /\ NoBacklog
=============================================================================
