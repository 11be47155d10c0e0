------------------------------ MODULE Preview ------------------------------
(***************************************************************************)
(* The panel's row on the Lighting screen: the editor of a preset          *)
(* (crates/app/src/display/mod.rs, core/src/display.rs), the picture the   *)
(* preview holds (display/film.rs) and the timers that play it             *)
(* (shell/screen/panel.rs).  When an edit is written is Client's, what     *)
(* the panel does with it is Display's.                                    *)
(***************************************************************************)
EXTENDS Integers, Sequences, FiniteSets

CONSTANTS
    PanelMetric,   \* the metrics a slot can show
    Ink,         \* the colors a swatch list offers
    FirstInk,    \* the color every field of the default preset has
    Value,       \* what a collector reads
    Path,        \* the files an operator picks
    Film,        \* Film[p]: how long each picture of file p stays up, <<>> when it is refused
    NoPath, NoInk, Unread, Unsent, Nowhere,  \* the empty options
    Reported,    \* the presets a first status may report
    MaxPanelEdits, \* bound: edits
    MaxTimers,   \* bound: timers armed
    MaxSamples   \* bound: snapshots that arrive

VARIABLES
    form,       \* DisplayEditor
    lastValid,  \* DisplayScreen.last_valid
    preview,    \* DisplayScreen.picture
    failed,     \* DisplayScreen.picture_error
    generation, \* DisplayScreen.film_generation
    timers,     \* the animation timers waiting: their generation, and what is left of them
    rowOpen,    \* is the panel's row open
    status,     \* the status of the link: is a panel there, what it was given last
    readings,   \* the snapshot of the link
    panelSeeded, \* Shell.lcd_seeded
    dialog,     \* is the file dialog open
    panelEdits, samples,
    (* What the properties compare with; no action reads these.            *)
    up          \* how long the picture on screen has been up

screen == <<form, lastValid, preview, failed>>
playing == <<generation, timers, up>>
linked == <<status, readings>>
previewVars == <<screen, playing, rowOpen, linked, panelSeeded, dialog, panelEdits, samples>>

-----------------------------------------------------------------------------
(* The vocabulary.                                                         *)

DisplayMode == {"dual_infographic", "single_reading", "solid", "image"}
Fields == {"reading1", "reading2", "fade1", "fade2", "text1", "text2", "background"}

ReadingSlots(mode) ==
    CASE mode = "dual_infographic" -> 2 [] mode = "single_reading" -> 1 [] OTHER -> 0
UsesImage(mode) == mode = "image"
GradatesBand(mode) == mode = "single_reading"

SlotOf(field) ==
    CASE field \in {"reading1", "fade1", "text1"} -> 1
      [] field \in {"reading2", "fade2", "text2"} -> 2
      [] OTHER -> 0

\* A field is offered when the mode draws it.
IsUsedBy(field, mode) ==
    IF SlotOf(field) = 0 THEN ~UsesImage(mode)
    ELSE /\ SlotOf(field) <= ReadingSlots(mode)
         /\ field \in {"fade1", "fade2"} => GradatesBand(mode)

DefaultInfographic(metrics) ==
    [mode |-> "dual_infographic", metrics |-> metrics, colors |-> [f \in Fields |-> FirstInk],
     orientation |-> 0, brightness |-> 100, image |-> NoPath]

\* DisplayPreset::validate.
ValidPreset(preset) == UsesImage(preset.mode) => preset.image # NoPath

\* DisplayPreset, as far as its picture tells presets apart.
Preset ==
    [mode : DisplayMode, metrics : [1..2 -> PanelMetric], colors : [Fields -> Ink \cup {NoInk}],
     orientation : Nat, brightness : Nat, image : Path \cup {NoPath}]

ASSUME PreviewAssumption ==
    /\ \E first, second \in PanelMetric : first # second
    /\ FirstInk \in Ink
    /\ NoPath \notin Path /\ Film \in [Path -> Seq(Nat)]
    /\ Reported \subseteq Preset
    /\ MaxPanelEdits \in Nat /\ MaxTimers \in Nat /\ MaxSamples \in Nat

\* DisplayEditor::preset: only image mode names a file.
PresetOf(f) ==
    [mode |-> f.mode, metrics |-> f.metrics, colors |-> f.colors, orientation |-> f.orientation,
     brightness |-> f.brightness, image |-> IF UsesImage(f.mode) THEN f.path ELSE NoPath]

\* A slot written without a color to fade to is solid: its band ends where it begins.
BandEnd(preset, fade, reading) ==
    IF preset.colors[fade] = NoInk THEN preset.colors[reading] ELSE preset.colors[fade]

FromPreset(p) ==
    [mode |-> p.mode, metrics |-> p.metrics,
     colors |-> [p.colors EXCEPT !["fade1"] = BandEnd(p, "fade1", "reading1"),
                                 !["fade2"] = BandEnd(p, "fade2", "reading2")],
     orientation |-> p.orientation, brightness |-> p.brightness, path |-> p.image]

\* What the picture of a preset shows: render, with the slots and colors a dial draws.
Rendered(p, readings_) ==
    LET slots == 1..ReadingSlots(p.mode) IN
    [mode   |-> p.mode, orientation |-> p.orientation, background |-> p.colors["background"], file |-> p.image,
     shown  |-> [s \in slots |-> <<p.metrics[s], readings_[p.metrics[s]]>>],
     bands  |-> [s \in slots |-> IF s = 1 THEN p.colors["reading1"] ELSE p.colors["reading2"]],
     heads  |-> IF GradatesBand(p.mode) THEN BandEnd(p, "fade1", "reading1") ELSE NoInk,
     texts  |-> [s \in slots |-> IF s = 1 THEN p.colors["text1"] ELSE p.colors["text2"]]]

-----------------------------------------------------------------------------
(* The picture.                                                            *)

NoPicture == [of |-> "none"]
NoReadings == [m \in PanelMetric |-> Unread]

\* The readings of a link without telemetry are unavailable.
Read(telemetry) == IF telemetry = Nowhere THEN NoReadings ELSE telemetry

\* Mutant: a still picture depends on what its first slot reads.
IdentityOfOneSlot(preset, telemetry) ==
    IF UsesImage(preset.mode)
    THEN [image |-> preset.image, orientation |-> preset.orientation, background |-> preset.colors["background"]]
    ELSE [preset |-> preset, samples |-> <<Read(telemetry)[preset.metrics[1]]>>]

\* Identity::of: what a compiled picture depends on.
Identity(preset, telemetry) ==
    IF UsesImage(preset.mode)
    THEN [image |-> preset.image, orientation |-> preset.orientation, background |-> preset.colors["background"]]
    ELSE [preset |-> preset, samples |-> [s \in 1..2 |-> Read(telemetry)[preset.metrics[s]]]]

Compiles(preset) == UsesImage(preset.mode) => Film[preset.image] # <<>>

\* film::compile.
Compiled(preset, telemetry) ==
    LET it == [identity |-> Identity(preset, telemetry), content |-> Rendered(preset, Read(telemetry))]
    IN  IF UsesImage(preset.mode)
        THEN [of |-> "film", identity |-> it.identity, content |-> it.content,
              delays |-> Film[preset.image], cursor |-> 1]
        ELSE [of |-> "still", identity |-> it.identity, content |-> it.content]

IsAnimated(p) == p.of = "film" /\ Len(p.delays) > 1

HasPanel(s) == s # Unsent /\ s.panel

\* The picture of last_valid is already held.
IsHeld(preset, telemetry) ==
    preview # NoPicture /\ preview.identity = Identity(preset, telemetry)

\* sync_picture: did it replace the picture, and with what.
SyncPicture(preset, s, telemetry, replaced) ==
    IF ~HasPanel(s)
    THEN /\ preview' = NoPicture /\ failed' = FALSE
         /\ replaced = (preview # NoPicture \/ failed)
    ELSE IF IsHeld(preset, telemetry)
    THEN /\ UNCHANGED <<preview, failed>>
         /\ replaced = FALSE
    ELSE /\ preview' = IF Compiles(preset) THEN Compiled(preset, telemetry) ELSE NoPicture
         /\ failed' = ~Compiles(preset)
         /\ replaced = TRUE

\* Mutant: the timer belongs to the generation already running.
PlayInGeneration(open, left) ==
    IF open /\ IsAnimated(preview')
    THEN /\ Len(timers) < MaxTimers
         /\ generation' = generation
         /\ timers' = Append(left, [generation |-> generation', left |-> preview'.delays[preview'.cursor]])
    ELSE generation' = generation /\ timers' = left

\* play_film, with the timers that are left waiting: nothing is armed for a closed row or
\* a picture that holds still.
PlayFilm(open, left) ==
    IF open /\ IsAnimated(preview')
    THEN /\ generation < MaxTimers
         /\ generation' = generation + 1
         /\ timers' = Append(left, [generation |-> generation', left |-> preview'.delays[preview'.cursor]])
    ELSE generation' = generation /\ timers' = left

\* refresh_picture.
RefreshPicture(preset, s, telemetry) ==
    \E replaced \in BOOLEAN :
        /\ SyncPicture(preset, s, telemetry, replaced)
        /\ IF replaced THEN PlayFilm(rowOpen, timers) /\ up' = 0
           ELSE UNCHANGED playing

-----------------------------------------------------------------------------
Metrics == CHOOSE m \in [1..2 -> PanelMetric] : m[1] # m[2]

PreviewInit ==
    /\ lastValid = DefaultInfographic(Metrics)
    /\ form = FromPreset(lastValid)
    /\ preview = NoPicture /\ failed = FALSE
    /\ generation = 0 /\ timers = <<>> /\ up = 0
    /\ rowOpen = TRUE
    /\ status = Unsent /\ readings = Nowhere
    /\ panelSeeded = FALSE /\ dialog = FALSE
    /\ panelEdits = 0 /\ samples = 0

\* DisplayScreen::edit: an entry that is not whole keeps the last picture that was.
EditTo(f) ==
    /\ form' = f
    /\ lastValid' = IF ValidPreset(PresetOf(f)) THEN PresetOf(f) ELSE lastValid

\* A control of the row: the edit, and the picture it changes.
PanelEdit(f) ==
    /\ HasPanel(status)
    /\ panelEdits < MaxPanelEdits /\ panelEdits' = panelEdits + 1
    /\ EditTo(f)
    /\ RefreshPicture(lastValid', status, readings)
    /\ UNCHANGED <<rowOpen, linked, panelSeeded, dialog, samples>>

ChooseDisplayMode == \E mode \in DisplayMode : PanelEdit([form EXCEPT !.mode = mode])

\* The controls of the detail are there while the row is open, those of the mode only.
ChooseMetric ==
    /\ rowOpen
    /\ \E slot \in 1..ReadingSlots(form.mode), metric \in PanelMetric :
         PanelEdit([form EXCEPT !.metrics[slot] = metric])

ChoosePanelColor ==
    /\ rowOpen
    /\ \E field \in Fields, ink \in Ink :
         IsUsedBy(field, form.mode) /\ PanelEdit([form EXCEPT !.colors[field] = ink])

\* A brightness drag edits the form and leaves the picture to the next refresh.
DragPanelBrightness ==
    /\ HasPanel(status)
    /\ panelEdits < MaxPanelEdits /\ panelEdits' = panelEdits + 1
    /\ \E percent \in {0, 100} \ {form.brightness} : EditTo([form EXCEPT !.brightness = percent])
    /\ UNCHANGED <<preview, failed, playing, rowOpen, linked, panelSeeded, dialog, samples>>

\* Its release schedules the write.
ReleaseBrightness ==
    /\ RefreshPicture(lastValid, status, readings)
    /\ UNCHANGED <<form, lastValid, rowOpen, linked, panelSeeded, dialog, panelEdits, samples>>

\* choose_image: the window goes on while the dialog is open.
OpenDialog ==
    /\ HasPanel(status) /\ rowOpen /\ UsesImage(form.mode)
    /\ ~dialog /\ dialog' = TRUE
    /\ UNCHANGED <<screen, playing, rowOpen, linked, panelSeeded, panelEdits, samples>>

CancelDialog ==
    /\ dialog /\ dialog' = FALSE
    /\ UNCHANGED <<screen, playing, rowOpen, linked, panelSeeded, panelEdits, samples>>

\* The answer is an edit whatever became of the mode and the link meanwhile.
ChooseImage ==
    /\ dialog /\ dialog' = FALSE
    /\ \E path \in Path : EditTo([form EXCEPT !.path = path])
    /\ RefreshPicture(lastValid', status, readings)
    /\ UNCHANGED <<rowOpen, linked, panelSeeded, panelEdits, samples>>

\* toggle_lighting_row.
ToggleRow ==
    /\ rowOpen' = ~rowOpen
    /\ UNCHANGED preview
    /\ PlayFilm(rowOpen', timers)
    /\ up' = 0
    /\ UNCHANGED <<form, lastValid, failed, linked, panelSeeded, dialog, panelEdits, samples>>

\* refresh: the first status that arrives seeds the form, and the picture follows.
RefreshLink ==
    /\ samples < MaxSamples /\ samples' = samples + 1
    /\ \E there \in BOOLEAN, committed \in Reported \cup {Unsent} :
         /\ status # Unsent => committed = status.committed
         /\ status' \in {Unsent, [panel |-> there, committed |-> committed]}
    /\ readings' \in {Nowhere} \cup [PanelMetric -> Value \cup {Unread}]
    /\ status' = Unsent <=> readings' = Nowhere
    /\ panelSeeded' = (panelSeeded \/ status' # Unsent)
    /\ IF ~panelSeeded /\ status' # Unsent /\ status'.committed # Unsent
       THEN EditTo(FromPreset(status'.committed))
       ELSE UNCHANGED <<form, lastValid>>
    /\ RefreshPicture(lastValid', status', readings')
    /\ UNCHANGED <<rowOpen, dialog, panelEdits>>

Without(i) == [j \in 1..(Len(timers) - 1) |-> IF j < i THEN timers[j] ELSE timers[j + 1]]

\* A timer of an earlier generation fires into nothing; the one of the current generation
\* shows the next frame and arms its successor.
FilmTimerFires(i) ==
    /\ timers[i].left = 0
    /\ IF timers[i].generation = generation /\ IsAnimated(preview)
       THEN /\ preview' = [preview EXCEPT !.cursor = (@ % Len(preview.delays)) + 1]
            /\ PlayFilm(rowOpen, Without(i))
            /\ up' = 0
       ELSE /\ timers' = Without(i)
            /\ UNCHANGED <<preview, generation, up>>
    /\ UNCHANGED <<form, lastValid, failed, rowOpen, linked, panelSeeded, dialog, panelEdits, samples>>

PreviewTick ==
    /\ \E i \in DOMAIN timers : timers[i].left > 0
    /\ timers' = [i \in DOMAIN timers |-> [timers[i] EXCEPT !.left = IF @ > 0 THEN @ - 1 ELSE 0]]
    /\ up' = up + 1
    /\ UNCHANGED <<screen, generation, rowOpen, linked, panelSeeded, dialog, panelEdits, samples>>

PreviewNext ==
    \/ ChooseDisplayMode \/ ChooseMetric \/ ChoosePanelColor
    \/ DragPanelBrightness \/ ReleaseBrightness
    \/ OpenDialog \/ CancelDialog \/ ChooseImage
    \/ ToggleRow
    \/ RefreshLink
    \/ \E i \in DOMAIN timers : FilmTimerFires(i)
    \/ PreviewTick

PreviewSpec == PreviewInit /\ [][PreviewNext]_previewVars

-----------------------------------------------------------------------------
\* The preview is the picture of the last whole preset, at the last readings, on a panel
\* that is there, and says so when its file is refused; it is never a picture of
\* something edited away, however the edits, the snapshots and the dialog interleave.
PreviewIsHonest ==
    /\ preview # NoPicture <=> HasPanel(status) /\ Compiles(lastValid)
    /\ failed <=> HasPanel(status) /\ ~Compiles(lastValid)
    /\ preview # NoPicture => preview.content = Rendered(lastValid, Read(readings))

\* An animation on an open row has a timer that moves it on, and only one: a second would
\* advance it at twice its cadence.
OpenFilmPlays ==
    rowOpen /\ IsAnimated(preview) =>
        Cardinality({i \in DOMAIN timers : timers[i].generation = generation}) = 1

PreviewIsAlive == PreviewIsHonest /\ OpenFilmPlays

\* A frame of an animation on an open row stays up as long as its file says, whatever
\* timers an earlier picture or an earlier opening left behind; and what the first
\* status seeds replaces nothing the operator entered.
FilmKeepsPace ==
    [][/\ rowOpen /\ rowOpen' /\ IsAnimated(preview) /\ IsAnimated(preview')
            /\ preview'.identity = preview.identity /\ preview'.cursor # preview.cursor
          => up >= preview.delays[preview.cursor]
       /\ panelSeeded' # panelSeeded => panelEdits = 0]_previewVars
=============================================================================
