------------------------------- MODULE Window -------------------------------
(***************************************************************************)
(* The window around the screens (crates/app/src/shell.rs, shell/screen):  *)
(* the destination, the one list that may be open, the rows, the gesture   *)
(* and the profile buttons of the Cooling screen, while the link comes and *)
(* goes.  What an edit writes is Client's; what it does to a curve, to a   *)
(* row and to the panel is Editor's, Lights' and Preview's.  A change is   *)
(* painted before the next input: the toolkit redraws a view that notified.*)
(***************************************************************************)
EXTENDS Integers, FiniteSets

CONSTANTS
    LightingChannels, \* the channels a controller may answer
    MaxInputs,        \* bound: what the operator does
    MaxNews           \* bound: how often the link changes

ASSUME WindowAssumption ==
    /\ IsFiniteSet(LightingChannels)
    /\ LightingChannels \cap {"pump", "fan", "lcd", "head"} = {}
    /\ MaxInputs \in Nat /\ MaxNews \in Nat

VARIABLES
    destination,  \* Shell.destination
    popover,      \* Interaction.popover: the list that is open
    held,         \* Interaction.drag: the control the pointer holds
    open,         \* Disclosure: the rows that are open
    modes,        \* the cooling mode and the panel's display mode
    linkState,    \* LinkState: what the gates let through, the channels, the profiles
    armed,        \* Shell.confirm_delete
    store,        \* the daemon: its profiles and the active one
    seed,         \* Shell.lcd_seeded
    asked,        \* the last command a profile control sent, for the properties
    aimed,        \* the profile the operator armed since entering the screen, for them
    inputs, news

windowVars == <<destination, popover, held, open, modes, linkState, armed, store, asked, aimed, seed, inputs, news>>

Safe == <<"safe", 0>>
NoOne == <<"none", 0>>
NoList == [list |-> "none"]
NoHold == [track |-> "none"]

Library == {Safe, <<"onboard", 1>>, <<"fixed", 2>>}
Destinations == {"monitoring", "cooling", "lighting", "settings"}
CoolingRows == {"pump", "fan"}
DisplayModes == {"infographic", "image"}
CoolingModes == {"onboard", "fixed", "curve"}

-----------------------------------------------------------------------------
(* Where each control is drawn, and the gate it is built with.             *)

List(kind, of) == [list |-> kind, of |-> of]
Track(kind, of) == [track |-> kind, of |-> of]

ScreenOf(row) == IF row \in CoolingRows THEN "cooling" ELSE "lighting"
\* The gate of each row.  The link judges every capability of every device on its own
\* (module Gates); what matters here is that a gate may shut while a list or a gesture
\* is on its screen, so the capabilities of one device are taken together.
GateOf(row) == IF row \in CoolingRows THEN "cooling" ELSE IF row = "lcd" THEN "frame" ELSE "channel"

RowsOf(l) == [cooling |-> CoolingRows, lighting |-> l.channels \cup {"lcd"}, monitoring |-> {}, settings |-> {}]

\* On the line of a row, whether or not it is open.
OnLine(row) ==
    IF row \in CoolingRows THEN {}
    ELSE {Track("brightness", row), List("mode", row)}

\* In its detail.
InDetail(row) ==
    IF row \in CoolingRows
    THEN {Track("curve", row)} \cup (IF modes.cooling = "fixed" THEN {Track("duty", row)} ELSE {})
    ELSE IF row # "lcd" THEN {List("swatches", row), List("speed", row)}
    ELSE IF modes.panel = "infographic" THEN {List("metric", row), List("swatches", row)}
    ELSE {}

\* A select or a slider whose gate refuses carries no handler and publishes no rectangle.
Operable ==
    LET rows == {row \in RowsOf(linkState)[destination] : GateOf(row) \in linkState.gates}
    IN  (UNION {OnLine(row) \cup (IF row \in open THEN InDetail(row) ELSE {}) : row \in rows})
        \cup (IF destination = "cooling" /\ "write" \in linkState.gates
              THEN {List("cooling", "head"), List("profile", "head")} ELSE {})

-----------------------------------------------------------------------------
Offline == [gates |-> {}, channels |-> {}, active |-> NoOne, profiles |-> {}]

\* A client opens on the Monitoring screen; here wherever its operator has gone, with
\* profiles an earlier session saved.
WindowInit ==
    /\ destination \in Destinations
    /\ popover = NoList /\ held = NoHold
    /\ open = {"lcd"}
    /\ modes = [cooling |-> "onboard", panel |-> "infographic"]
    /\ linkState = Offline
    /\ armed = FALSE /\ aimed = NoOne
    /\ \E active \in Library : store = [profiles |-> Library, active |-> active]
    /\ seed = FALSE /\ asked = [asked |-> "nothing"]
    /\ inputs = 0 /\ news = 0

Input == inputs < MaxInputs /\ inputs' = inputs + 1

HoldsCooling == held # NoHold /\ held.track # "brightness"

\* A status, or its loss.  Each gate answers for itself; without a daemon none is open.
\* The first status seeds the panel's mode, and a committed program the cooling mode.
LinkMoves ==
    /\ news < MaxNews /\ news' = news + 1
    /\ \/ linkState' = Offline /\ UNCHANGED <<modes, seed>>
       \/ \E gates \in SUBSET {"cooling", "channel", "frame"}, channels \in SUBSET LightingChannels,
            cooling \in {modes.cooling, "fixed"}, panel \in DisplayModes :
            /\ linkState' = [gates |-> IF gates = {} THEN {} ELSE gates \cup {"write"}, channels |-> channels,
                        active |-> store.active, profiles |-> store.profiles]
            /\ HoldsCooling => cooling = modes.cooling
            /\ seed => panel = modes.panel
            /\ modes' = [cooling |-> cooling, panel |-> panel]
            /\ seed' = TRUE
    /\ UNCHANGED <<destination, popover, held, open, armed, store, asked, aimed, inputs>>

\* Leaving without disarming the deletion.
LeaveArmed ==
    /\ popover' = NoList
    /\ UNCHANGED armed

Leave ==
    /\ popover' = NoList
    /\ armed' = FALSE

\* The rail, or its key binding, which reaches the window whatever is open.
GoTo(to) ==
    /\ Input
    /\ destination' = to
    /\ Leave /\ aimed' = NoOne
    /\ UNCHANGED <<held, open, modes, linkState, store, asked, news, seed>>

Toggled(set, x) == IF x \in set THEN set \ {x} ELSE set \cup {x}

\* toggle_cooling, toggle_lighting_row: a row opens or closes whatever the gates say.
ToggleOpen(row) ==
    /\ Input
    /\ row \in RowsOf(linkState)[destination]
    /\ open' = Toggled(open, row)
    /\ popover' = NoList
    /\ UNCHANGED <<destination, held, modes, linkState, armed, store, asked, aimed, news, seed>>

\* A select or a color field, by pointer or from the keyboard.
ToggleList(control) ==
    /\ Input
    /\ control \in Operable /\ "list" \in DOMAIN control
    /\ popover' = IF popover = control THEN NoList ELSE control
    /\ UNCHANGED <<destination, held, open, modes, linkState, armed, store, asked, aimed, news, seed>>

\* on_close_popover
Escape ==
    /\ Input
    /\ popover # NoList /\ popover' = NoList
    /\ UNCHANGED <<destination, held, open, modes, linkState, armed, store, asked, aimed, news, seed>>

\* What an option does besides the edit of its own screen.
Chosen(value) ==
    CASE popover.list = "cooling" -> modes' = [modes EXCEPT !.cooling = value] /\ UNCHANGED <<store, asked>>
      [] popover.list = "profile" ->
            /\ store' = IF value \in store.profiles THEN [store EXCEPT !.active = value] ELSE store
            /\ asked' = [asked |-> "activate", name |-> value]
            /\ UNCHANGED modes
      [] popover = List("mode", "lcd") -> modes' = [modes EXCEPT !.panel = value] /\ UNCHANGED <<store, asked>>
      [] OTHER -> UNCHANGED <<modes, store, asked>>

Options ==
    CASE popover.list = "cooling" -> CoolingModes
      [] popover.list = "profile" -> linkState.profiles
      [] popover = List("mode", "lcd") -> DisplayModes
      [] OTHER -> {"another"}

\* An option of the list, which is painted only under an operable control.
Choose ==
    /\ Input
    /\ popover \in Operable
    /\ \E value \in Options : Chosen(value)
    /\ popover' = NoList
    /\ UNCHANGED <<destination, held, open, linkState, armed, aimed, news, seed>>

-----------------------------------------------------------------------------
(* The pointer.  The window's own handler hears every press before the     *)
(* controls do, and an open list owns it.                                  *)

\* Grabbing a curve is already an edit of it, which selects the curve mode.
Grab(control) ==
    /\ held' = control
    /\ modes' = IF control.track = "curve" THEN [modes EXCEPT !.cooling = "curve"] ELSE modes

PressOn(control) ==
    /\ Input /\ held = NoHold
    /\ control \in Operable /\ "track" \in DOMAIN control
    /\ popover' = NoList
    /\ IF popover = NoList THEN Grab(control) ELSE UNCHANGED <<held, modes>>
    /\ UNCHANGED <<destination, open, linkState, armed, store, asked, aimed, seed, news>>

ReleaseHold ==
    /\ held # NoHold /\ held' = NoHold
    /\ UNCHANGED <<destination, popover, open, modes, linkState, armed, store, asked, aimed, inputs, news, seed>>

-----------------------------------------------------------------------------
(* The profile buttons.  The daemon answers a command before the next; the *)
(* client hears of it with the next status.                                *)

\* next_deletion: the flag to keep, and whether to send.
NextDeletion(active, flag) ==
    IF active \in {NoOne, Safe} THEN [armed |-> FALSE, sends |-> FALSE]
    ELSE [armed |-> ~flag, sends |-> flag]

Forgotten(name) ==
    [profiles |-> store.profiles \ {name},
     active |-> IF store.active = name THEN Safe ELSE store.active]

DeleteProfile ==
    /\ Input
    /\ destination = "cooling"
    /\ LET next == NextDeletion(linkState.active, armed) IN
       /\ armed' = next.armed
       /\ aimed' = IF next.armed THEN linkState.active ELSE aimed
       /\ IF next.sends
          THEN /\ asked' = [asked |-> "delete", name |-> linkState.active, aimed |-> aimed]
               /\ store' = Forgotten(linkState.active)
          ELSE UNCHANGED <<asked, store>>
    /\ UNCHANGED <<destination, popover, held, open, modes, linkState, news, seed>>

\* save_profile: the mode, and how many profiles the last status listed.
NewName == <<modes.cooling, Cardinality(linkState.profiles)>>

SaveProfile ==
    /\ Input
    /\ destination = "cooling" /\ "write" \in linkState.gates
    /\ asked' = [asked |-> "save", name |-> NewName, over |-> NewName \in store.profiles]
    /\ store' = [store EXCEPT !.profiles = @ \cup {NewName}]
    /\ UNCHANGED <<destination, popover, held, open, modes, linkState, armed, aimed, news, seed>>

WindowNext ==
    \/ LinkMoves \/ Escape \/ Choose \/ ReleaseHold \/ DeleteProfile \/ SaveProfile
    \/ \E to \in Destinations : GoTo(to)
    \/ \E row \in CoolingRows \cup LightingChannels \cup {"lcd"} : ToggleOpen(row)
    \/ \E control \in Operable : ToggleList(control) \/ PressOn(control)

WindowSpec == WindowInit /\ [][WindowNext]_windowVars

-----------------------------------------------------------------------------
\* The list that is open hangs from a control of the screen shown, in a row that is
\* open if the control is in its detail: leaving a screen, moving a row and choosing a
\* mode all close it (go, toggle_lighting_row, select).
ListHasItsAnchor ==
    popover # NoList =>
        IF popover.of = "head" THEN destination = "cooling"
        ELSE /\ ScreenOf(popover.of) = destination
             /\ popover.list = "mode" \/ popover.of \in open
             /\ popover.list = "metric" => modes.panel = "infographic"

\* A profile is deleted after the button was armed on this visit of the screen, and
\* never the built-in one (next_deletion, go).
DeletionIsDeliberate ==
    asked.asked = "delete" => asked.name # Safe /\ asked.aimed # NoOne

\* The window's part: nothing hangs from a control that is elsewhere, and nothing is
\* deleted by one press.
WindowIsSound == ListHasItsAnchor /\ DeletionIsDeliberate

\* What the comments say and the window does not do: a list stays open, unseen, when its
\* gate shuts or its row goes, and takes the next press; a gesture goes on when its control
\* left the screen; an armed deletion follows the active profile; a generated name may be
\* another profile's.
ListIsShown == popover # NoList => popover \in Operable
HoldIsOnScreen == held # NoHold => held \in Operable
DeletionNamesItsProfile == asked.asked = "delete" => asked.name = asked.aimed
SaveAddsAProfile == asked.asked = "save" => ~asked.over
=============================================================================
