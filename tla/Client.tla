------------------------------- MODULE Client -------------------------------
(***************************************************************************)
(* The window (crates/app/src/shell.rs, shell/screen/, cooling.rs) on top  *)
(* of its worker thread: an editor per device, a schedule of writes that   *)
(* wait out a quiet period, the cooling program in flight, and what a      *)
(* refresh takes from the worker.                                          *)
(*                                                                         *)
(* Two targets stand for all: the cooling program, and the panel for the   *)
(* rows of the Lighting screen, which share the schedule and the           *)
(* comparison with what the daemon reports as committed.  Every edit       *)
(* starts a timer; a write that is held back, and an edit inside a drag,   *)
(* move the deadline without one.                                          *)
(***************************************************************************)
EXTENDS Feed

CONSTANT
    MaxEdits    \* how many times the operator does something

ASSUME ClientAssumption == MaxEdits \in Nat

Target == {"cooling", "panel"}

VARIABLES
    editor,     \* CoolingEditor: mode, and the duties and nodes kept under it
    applied,    \* the last program this client saw confirmed
    picture,    \* the preset the panel's editor holds
    seeded,     \* lcd_seeded
    view,       \* Shell.link
    committed,  \* the committed program the last adoption took
    sent,       \* the cooling program in flight
    seen,       \* sequence of the outcome shown
    due,        \* the schedule: "no", "timed", "bare" (no timer), or "past"
    drag,       \* the gesture the pointer holds
    edits       \* edits so far

window == <<editor, applied, picture, seeded, view, committed, sent, seen, due, drag>>
moving == <<feedVars, window, edits>>
vars == <<moving, day>>

ClientInit ==
    /\ editor = [mode |-> "onboard", fixed |-> CHOOSE f \in Fixed : TRUE, curve |-> CHOOSE c \in Curve : TRUE]
    /\ applied = None /\ picture = (CHOOSE p \in Picture : TRUE) /\ seeded = FALSE
    /\ view = Down /\ committed = None /\ sent = None /\ seen = 0
    /\ due = [t \in Target |-> "no"] /\ drag = None
    /\ edits = 0

Init == FeedInit /\ ClientInit

Worker == WorkerStep /\ UNCHANGED <<window, edits>>
Daemon == DaemonStep /\ UNCHANGED <<window, edits>>

-----------------------------------------------------------------------------
(* Writing what has come due.                                              *)

\* CoolingEditor::program, and whether the device is known to run it.
Screen(e) == IF e.mode = "onboard" THEN None ELSE e[e.mode]

\* Mutant: the mode alone confirms a curve.
PendingByMode(e, a, v) ==
    CASE e.mode = "onboard" -> FALSE
      [] e.mode = "fixed" -> v.reading # e.fixed
      [] e.mode = "curve" -> v.reading \notin Curve

Pending(e, a, v) ==
    CASE e.mode = "onboard" -> FALSE
      [] e.mode = "fixed" -> v.reading # e.fixed
      [] e.mode = "curve" -> a # e.curve \/ v.reading \notin Curve

CoolingDrag == drag \in {"duty", "node"}

\* write_is_held_back
HeldBack(t, s) == IF t = "cooling" THEN CoolingDrag \/ s # None ELSE drag = "brightness"

Writes(w, t) ==
    IF t = "cooling"
    THEN IF Pending(editor', applied', w) THEN <<[kind |-> "apply", what |-> Screen(editor')]>> ELSE <<>>
    ELSE IF w.glass # picture' THEN <<[kind |-> "show", what |-> picture']>> ELSE <<>>

\* flush_writes takes what has come due, in the order it was first touched, and
\* sees the window as w and the write in flight as s.
Flush(S, w, s) ==
    LET ready(t) == t \in S /\ ~HeldBack(t, s)
        out(t) == IF ready(t) THEN Writes(w, t) ELSE <<>>
    IN  /\ due' = [t \in Target |-> IF t \notin S THEN due[t] ELSE IF ready(t) THEN "no" ELSE "bare"]
        /\ sent' = IF out("cooling") # <<>> THEN Screen(editor') ELSE s
        /\ inbox' \in {inbox \o out("cooling") \o out("panel"), inbox \o out("panel") \o out("cooling")}

Past == {t \in Target : due[t] = "past"}
Timed == {t \in Target : due[t] = "timed"}

TimerFires ==
    /\ UNCHANGED <<pending, pc, current, touched, session, line, published, korid, orphan, faults>>
    /\ UNCHANGED <<editor, applied, picture, seeded, view, committed, seen, drag, edits>>
    /\ \E S \in SUBSET Timed : S # {} /\ Flush(S \cup Past, view, sent)

\* A deadline nobody holds a timer for goes by.
Passes ==
    /\ \E t \in Target : due[t] = "bare" /\ due' = [due EXCEPT ![t] = "past"]
    /\ UNCHANGED <<feedVars, editor, applied, picture, seeded, view, committed, sent, seen, drag, edits>>

-----------------------------------------------------------------------------
(* Taking what the worker published.                                       *)

Adopt(p) ==
    editor' = IF p \in Fixed THEN [editor EXCEPT !.mode = "fixed", !.fixed = p]
                             ELSE [editor EXCEPT !.mode = "curve", !.curve = p]

Editing == CoolingDrag \/ due["cooling"] # "no" \/ sent # None

\* adopt_committed_program, then what a confirmation records.
AdoptProgram(confirmed) ==
    LET taken == link.ran # None /\ link.ran # committed /\ ~Editing
    IN  /\ IF taken THEN Adopt(link.ran) /\ committed' = link.ran
                    ELSE UNCHANGED <<editor, committed>>
        /\ applied' = IF confirmed /\ sent # None THEN sent
                      ELSE IF taken THEN link.ran ELSE applied

SeedPanel ==
    /\ seeded' = (seeded \/ link.up)
    /\ picture' = IF ~seeded /\ link.up /\ link.glass # None THEN link.glass ELSE picture

News == outcome # None /\ outcome.seq # seen

\* Mutant: a refusal leaves the write in flight.
SettledByConfirmation == News /\ outcome.subject = "cooling" /\ outcome.severity = "confirmed"

\* Only a cooling outcome resolves the cooling write in flight.
SettlesCooling == News /\ outcome.subject = "cooling"

\* refresh: the link, the panel once, the committed program, the outcome by
\* its sequence, then everything that has come due.
Refresh ==
    /\ rung /\ rung' = FALSE
    /\ view' = link
    /\ SeedPanel
    /\ AdoptProgram(SettlesCooling /\ outcome.severity = "confirmed")
    /\ seen' = IF News THEN outcome.seq ELSE seen
    /\ \E S \in SUBSET Timed :
        Flush(S \cup Past, link, IF SettlesCooling THEN None ELSE sent)
    /\ UNCHANGED <<pending, pc, current, touched, session, line, link, outcome, korid, orphan, faults, drag, edits>>

-----------------------------------------------------------------------------
(* The operator.                                                           *)

Does(g) == g \in day.habit /\ edits < MaxEdits /\ edits' = edits + 1

Schedule(t) == due' = [due EXCEPT ![t] = "timed"]

\* The mode select, the duty and the node keys.
EditCooling ==
    /\ view.up
    /\ \/ /\ Does("mode")
          /\ \E m \in {"onboard", "fixed", "curve"} : editor' = [editor EXCEPT !.mode = m]
       \/ /\ Does("fixed") /\ editor.mode = "fixed"
          /\ \E f \in Fixed : editor' = [editor EXCEPT !.fixed = f]
       \/ /\ Does("curve")
          /\ \E c \in Curve : editor' = [editor EXCEPT !.mode = "curve", !.curve = c]
    /\ Schedule("cooling")
    /\ UNCHANGED <<feedVars, applied, picture, seeded, view, committed, sent, seen, drag>>

EditPanel ==
    /\ view.up /\ Does("panel")
    /\ \E p \in Picture : picture' = p
    /\ Schedule("panel")
    /\ UNCHANGED <<feedVars, editor, applied, seeded, view, committed, sent, seen, drag>>

\* What a drag makes of a pointer position: a duty or a preset silently, a node
\* with its deadline pushed out when it changes anything.
DragTo(g) ==
    \/ /\ g = "duty" /\ UNCHANGED <<picture, due>>
       /\ \E f \in Fixed : editor' = [editor EXCEPT !.fixed = f]
    \/ /\ g = "node" /\ UNCHANGED picture
       /\ \E c \in Curve : editor' = [editor EXCEPT !.mode = "curve", !.curve = c]
       /\ due' = [due EXCEPT !["cooling"] = "bare"]
    \/ /\ g = "brightness" /\ UNCHANGED <<editor, due>>
       /\ \E p \in Picture : picture' = p

\* A press grabs one control, and is a move of its own.
Press ==
    /\ view.up /\ drag = None
    /\ \E g \in {"duty", "node", "brightness"} :
        /\ Does(g) /\ drag' = g /\ (g = "duty" => editor.mode = "fixed")
        /\ DragTo(g)
    /\ UNCHANGED <<feedVars, applied, seeded, view, committed, sent, seen>>

Move ==
    /\ DragTo(drag) /\ <<editor, picture>>' # <<editor, picture>>
    /\ UNCHANGED <<feedVars, applied, seeded, view, committed, sent, seen, drag, edits>>

Release ==
    /\ drag # None /\ drag' = None
    /\ Schedule(IF drag = "brightness" THEN "panel" ELSE "cooling")
    /\ UNCHANGED <<feedVars, editor, applied, picture, seeded, view, committed, sent, seen, edits>>

\* The profile select writes at once.
Activate ==
    /\ view.up /\ Does("activate")
    /\ inbox' = Append(inbox, [kind |-> "activate", what |-> Stored])
    /\ UNCHANGED <<pending, pc, current, touched, session, line, published, korid, orphan, faults, window>>

\* "Revert to hardware": cancel, and forget the write in flight.
Revert ==
    /\ Does("revert")
    /\ editor' =
        [mode |-> IF view.reading = None THEN "onboard" ELSE IF view.reading \in Fixed THEN "fixed" ELSE "curve",
         fixed |-> IF view.reading \in Fixed THEN view.reading ELSE editor.fixed,
         curve |-> IF applied \in Curve THEN applied ELSE editor.curve]
    /\ sent' = None
    /\ Schedule("cooling")
    /\ UNCHANGED <<feedVars, applied, picture, seeded, view, committed, seen, drag>>

Edit == EditCooling \/ EditPanel \/ Press \/ Activate \/ Revert

Step == Worker \/ Daemon \/ TimerFires \/ Passes \/ Refresh \/ Edit \/ Move \/ Release

Next == Step /\ UNCHANGED day

\* Timers and notifications are delivered; the pointer is let go of some time.
Fairness ==
    /\ FeedFairness
    /\ WF_moving(TimerFires) /\ WF_moving(Passes) /\ WF_moving(Refresh) /\ WF_moving(Release)

Spec == Init /\ [][Next]_vars /\ Fairness

-----------------------------------------------------------------------------
(* Properties.                                                             *)

(* Everything holds a value of its kind; only cooling writes are in flight. *)
TypeOK ==
    /\ inbox \in Seq(Command) /\ pending \in Command \cup {None} /\ current \in Command \cup {None}
    /\ pc \in {"top", "drain", "ask", "list", "poll", "wait"} /\ touched \in BOOLEAN
    /\ session \in {"none", "open", "broken"} /\ rung \in BOOLEAN
    /\ editor.mode \in {"onboard", "fixed", "curve"} /\ editor.fixed \in Fixed /\ editor.curve \in Curve
    /\ {applied, committed, sent} \subseteq Program \cup {None} /\ picture \in Picture
    /\ due \in [Target -> {"no", "timed", "bare", "past"}]
    /\ drag \in {None, "duty", "node", "brightness"} /\ faults \in 0..MaxFaults /\ edits \in 0..MaxEdits

IsApply(c) == c # None /\ c.kind = "apply"

\* The commands on their way, by their place: under way, ended the wait, queued.
Places == -1..Len(inbox)
CommandAt(i) == IF i = -1 THEN current ELSE IF i = 0 THEN pending ELSE inbox[i]

(* One cooling write at a time is queued or under way, whatever the timers, *)
(* the refreshes and the releases do: the next would take its outcome       *)
(* (shell/screen/write.rs:82).  Reverting gives the guard up.               *)
OneCoolingWrite ==
    "revert" \notin day.habit =>
        \A i, j \in Places : IsApply(CommandAt(i)) /\ IsApply(CommandAt(j)) => i = j

(* A connection is never polled while the answer to an earlier poll is      *)
(* still due on it, so the status shown is never a cycle old.               *)
StatusIsOwn ==
    pc \in {"wait", "top", "drain", "ask"} => \A i \in DOMAIN line : line[i].ask.kind # "status"

(* Nothing is queued, due, held or asked, and the window has seen it all.   *)
Quiet ==
    /\ inbox = <<>> /\ pending = None /\ pc = "wait" /\ ~rung /\ drag = None /\ orphan = None
    /\ sent = None /\ \A t \in Target : due[t] = "no"
    /\ korid.alive /\ view = Status(korid) /\ korid.reading = korid.device

Honest ==
    Quiet /\ view.ran = committed /\ editor.mode = "curve" /\ ~Pending(editor, applied, view)
        => Screen(editor) = korid.device

\* What leaves the client's record of the last confirmed program as good as the
\* daemon's: nothing is written past the screen, no write in flight is given up, and
\* every write is answered with what became of it.
NothingElseWrites ==
    day.habit \cap {"activate", "revert"} = {} /\ day.weather \subseteq {"refuse"}

(* Once all is quiet and the daemon reports the program it committed, a     *)
(* curve the Cooling screen shows without "Saving" is the one on the cooler *)
(* (cooling.rs:258), refused writes included.                               *)
ScreenIsHonest == NothingElseWrites => Honest

(* "Saving. The hardware holds its previous program until this clears"      *)
(* (shell/screen/cooling.rs:77), with nothing left to adopt, also when a    *)
(* write may end as uncertain.                                              *)
SavingIsSaid ==
    /\ Quiet /\ view.ran \in {None, committed} /\ day.weather \subseteq {"uncertain"}
    /\ editor.mode = "curve" /\ ~Pending(editor, applied, view)
    => Screen(editor) = korid.device

(* Following the committed program is what puts a newly activated profile's *)
(* curve on the plot (shell.rs:169), whatever was edited before.            *)
ScreenFollowsProfile == "elsewhere" \notin day.weather => Honest

(* An edit reaches the hardware once the operator stops moving it           *)
(* (shell/screen/write.rs:6): a quiet screen shows what the panel shows.    *)
EditLands == Quiet /\ edits > 0 /\ day.weather = {} => picture = korid.glass

(* A write that is due is written, dropped, or waits for the write in       *)
(* flight: never for the operator to touch the screen again (shell.rs:271). *)
DueIsWritten ==
    \A t \in Target : due[t] # "no" ~> (due[t] = "no" \/ (t = "cooling" /\ sent # None))

(* A daemon that comes back is shown again, whatever the outage cut short.  *)
RecoveryIsShown == []<>view.up

OnlyCooling == day.habit \cap {"panel", "brightness", "activate"} = {}

(* With nothing but cooling edits and no outage, a write in flight comes    *)
(* back to the window that sent it (feed.rs:274).                           *)
CoolingIsAnswered ==
    (sent # None /\ OnlyCooling /\ day.weather \cap {"late", "crash"} = {}) ~> sent = None

(* A write in flight is answered, whatever else the operator does: no       *)
(* outcome is taken for one already seen (feed.rs:274).                     *)
InFlightIsAnswered == (sent # None /\ day.weather = {}) ~> sent = None

(* The client keeps its own books: one cooling write at a time, and no      *)
(* status, outcome or answer taken for that of another request.             *)
OneAtATime == TypeOK /\ OneCoolingWrite /\ StatusIsOwn

(* What the operator asked for does not hang: neither in the schedule nor   *)
(* on its way to the daemon and back.                                       *)
WritesEnd == DueIsWritten /\ CoolingIsAnswered
=============================================================================
