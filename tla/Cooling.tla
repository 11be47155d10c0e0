------------------------------ MODULE Cooling ------------------------------
(***************************************************************************)
(* The serialized cooling executor (crates/daemon/src/cooling.rs) over the *)
(* attribute writer (crates/hardware-linux/src/control.rs).                *)
(*                                                                         *)
(* A transaction is a sequence of attribute writes that the device, other  *)
(* programs, the bus and a crash of the daemon can interrupt anywhere, so  *)
(* each write is one step.  The daemon's mutex keeps a second transaction, *)
(* Forget and VerifyCurves out while one is under way (phase # "idle").    *)
(***************************************************************************)
EXTENDS KrakenHwmon

CONSTANTS
    MinInterval,  \* MIN_PROGRAM_INTERVAL_MS, in ticks of the model's clock
    CurveSettle,  \* CURVE_SETTLE_MS, in ticks
    Requests,     \* the programs clients ask for
    MaxPlugs      \* bound: how many times the device is bound to a driver

VARIABLES
    dev,        \* the channels of the device
    path,       \* hwmon instance bound right now, 0 when there is none
    plugs,      \* instances bound so far: a rebind never reuses a path
    control,    \* the executor's cached instance, 0 for None
    committed,  \* the last target confirmed on each channel
    age,        \* ticks since each commit, up to CurveSettle
    elapsed,    \* ticks since last_write, up to MinInterval; MinInterval for None
    phase,      \* "idle", or the part of apply that is running
    at,         \* the channel being written or restored
    step,       \* the next attribute of that channel
    asked,      \* the targets of the latest transaction
    snap,       \* the snapshots it captured
    settled,    \* the channels it found already applied
    good,       \* writing: no mismatch so far; aborting: all restored so far
    outcome,    \* the hardware state last reported
    (* What the properties compare with; no action reads these.            *)
    before,     \* the program of each channel when the transaction began
    strayed,    \* has anyone else touched the channel since its record was made
    quiet       \* ticks since any attribute was last written, up to MinInterval

executor == <<control, committed, age, elapsed>>
transaction == <<phase, at, step, asked, snap, settled, good, outcome>>
ghosts == <<before, strayed, quiet>>
vars == <<dev, path, plugs, executor, transaction, ghosts>>

NoTarget == <<"none", None>>
FixedTarget == {<<"fixed", d>> : d \in Duty}
CurveTarget == {<<"curve", k>> : k \in Curve}
Target == FixedTarget \cup CurveTarget

Snapshot == [mode: Mode \cup {None}, duty: Duty \cup {None}, curve: Curve \cup {None}]

NoSnapshots == [c \in Channel |-> [mode |-> None, duty |-> None, curve |-> None]]

Step == {"enter", "hold", "leave", "points", "rest", "duty", "mode", "read"}

\* Both channels on the same kind of target, values validated against the floor.
Program ==
    {t \in [Channel -> FixedTarget] : \A c \in Channel : t[c][2] >= MinDuty[c]}
        \cup [Channel -> CurveTarget]

ASSUME CoolingAssumption ==
    /\ MinInterval \in Nat /\ CurveSettle \in Nat /\ MaxPlugs \in Nat \ {0}
    /\ Requests \subseteq Program

-----------------------------------------------------------------------------
(* Reads through the cached path.                                          *)

Reads(ctl) == ctl # 0 /\ ctl = path
Alive == Reads(control)

ReadMode(c) == IF Alive THEN dev[c].mode ELSE None
ReadDuty(c) == IF Alive THEN dev[c].reported ELSE None

Resolve == IF control = 0 THEN path ELSE control

\* The snapshot of a channel, with the recorded curve folded in.
Capture(c, ctl) ==
    [mode  |-> IF Reads(ctl) THEN dev[c].mode ELSE None,
     duty  |-> IF Reads(ctl) THEN dev[c].reported ELSE None,
     curve |-> IF committed[c][1] = "curve" THEN committed[c][2] ELSE None]

\* Mutant: trusts the record without asking the device.
AppliedOnRecord(c, target, ctl) == committed[c] = target

\* The record and the device both say the channel already holds the target.
AlreadyApplied(c, target, ctl) ==
    /\ committed[c] = target
    /\ Reads(ctl)
    /\ dev[c].mode = target[1]
    /\ target[1] = "fixed" => dev[c].reported = target[2]

\* transition_duty: hold what the channel reports, never below its floor.
HoldDuty(c) ==
    IF dev[c].reported >= MinDuty[c] THEN dev[c].reported ELSE MinDuty[c]

RestoresBehavior(s) ==
    CASE s.mode = None    -> FALSE
      [] s.mode = "full"  -> TRUE
      [] s.mode = "fixed" -> s.duty # None
      [] s.mode = "curve" -> s.curve # None

-----------------------------------------------------------------------------
Init ==
    /\ dev = [c \in Channel |-> FreshChannel]
    /\ path = 1 /\ plugs = 1 /\ control = 1
    /\ committed = [c \in Channel |-> NoTarget]
    /\ age = [c \in Channel |-> CurveSettle]
    /\ elapsed = MinInterval
    /\ phase = "idle" /\ at = "pump" /\ step = "enter"
    /\ asked = [c \in Channel |-> NoTarget]
    /\ snap = NoSnapshots /\ settled = {} /\ good = TRUE
    /\ outcome = "none"
    /\ before = [c \in Channel |-> NoTarget]
    /\ strayed = [c \in Channel |-> "no"]
    /\ quiet = MinInterval

-----------------------------------------------------------------------------
(* apply: everything before the first write.                               *)

\* What a new transaction makes of the ghosts: interference is now in the past.
Opening(targets) ==
    /\ asked' = targets
    /\ before' = [c \in Channel |->
                    IF strayed[c] = "no" THEN Programmed(dev[c]) ELSE NoTarget]
    /\ strayed' = [c \in Channel |->
                     IF strayed[c] = "since" THEN "before" ELSE strayed[c]]
    /\ UNCHANGED <<dev, path, plugs, quiet, committed, age>>

\* Onboard leaves the device on whatever it is running.
ApplyOnboard ==
    /\ phase = "idle"
    /\ outcome' = "Onboard"
    /\ UNCHANGED <<dev, path, plugs, executor, phase, at, step, asked, snap, settled,
                   good, ghosts>>

\* No instance to resolve.
ApplyUnbound(targets) ==
    /\ phase = "idle"
    /\ Resolve = 0
    /\ outcome' = "NotApplied"
    /\ Opening(targets)
    /\ UNCHANGED <<control, elapsed, phase, at, step, snap, settled, good>>

SettledChannels(targets, ctl) ==
    {c \in Channel : AlreadyApplied(c, targets[c], ctl)}

\* refuse_for_cadence: too soon after the last stamped write.
TooSoon == elapsed < MinInterval

ApplyRefused(targets) ==
    /\ phase = "idle"
    /\ Resolve # 0
    /\ SettledChannels(targets, Resolve) # Channel
    /\ TooSoon
    /\ control' = Resolve
    /\ outcome' = "NotApplied"
    /\ Opening(targets)
    /\ UNCHANGED <<elapsed, phase, at, step, snap, settled, good>>

\* Every channel is settled: confirmed without a write.
ApplyDeduplicated(targets) ==
    /\ phase = "idle"
    /\ Resolve # 0
    /\ SettledChannels(targets, Resolve) = Channel
    /\ control' = Resolve
    /\ outcome' = "Confirmed"
    /\ Opening(targets)
    /\ UNCHANGED <<elapsed, phase, at, step, snap, settled, good>>

ApplyStart(targets) ==
    LET done == SettledChannels(targets, Resolve) IN
    /\ phase = "idle"
    /\ Resolve # 0
    /\ done # Channel
    /\ ~TooSoon
    /\ control' = Resolve
    /\ elapsed' = 0
    /\ phase' = "write"
    /\ at' = IF "pump" \in done THEN "fan" ELSE "pump"
    /\ step' = "enter"
    /\ snap' = [c \in Channel |-> Capture(c, Resolve)]
    /\ settled' = done
    /\ good' = TRUE
    /\ Opening(targets)
    /\ UNCHANGED outcome

-----------------------------------------------------------------------------
(* The attribute writes of one channel.                                    *)

\* The curve the running part stages, when it stages one.
Staged == IF phase = "write" THEN asked[at][2] ELSE snap[at].curve

Stages == IF phase = "write" THEN asked[at][1] = "curve"
          ELSE snap[at].mode = "curve" /\ snap[at].curve # None

\* Mutant: stages the points without leaving curve mode.
EnterInCurveMode ==
    /\ phase # "idle" /\ step = "enter"
    /\ step' = IF Stages THEN "points" ELSE "duty"
    /\ strayed' = [strayed EXCEPT ![at] = "no"]
    /\ UNCHANGED <<dev, path, plugs, executor, phase, at, asked, snap, settled, good,
                   outcome, before, quiet>>

\* stage_curve leaves curve mode first when the channel is in it.
Enter ==
    /\ phase # "idle" /\ step = "enter"
    /\ step' = CASE ~Stages                          -> "duty"
                 [] Stages /\ ReadMode(at) = "curve" -> "hold"
                 [] OTHER                            -> "points"
    /\ strayed' = [strayed EXCEPT ![at] = "no"]
    /\ UNCHANGED <<dev, path, plugs, executor, phase, at, asked, snap, settled, good,
                   outcome, before, quiet>>

DutyToWrite == IF phase = "write" THEN asked[at][2] ELSE snap[at].duty
ModeToWrite == IF phase = "write" THEN asked[at][1] ELSE snap[at].mode

\* restore writes only what it can name and what differs.
Needed ==
    \/ phase = "write"
    \/ step = "duty" /\ snap[at].duty # None /\ ReadDuty(at) # snap[at].duty
    \/ step = "mode" /\ snap[at].mode # None /\ ReadMode(at) # snap[at].mode
    \/ step \in {"hold", "leave", "points", "rest"}

\* The states an attribute write may leave its channel in when it lands.
Landed ==
    LET r == dev[at] IN
    CASE step = "hold"   -> OrIgnored(r, StoreDuty(r, HoldDuty(at)))
      [] step = "leave"  -> OrIgnored(r, StoreMode(r, "fixed"))
      [] step = "points" -> StorePoints(r, IF r.points = Staged THEN Staged ELSE Torn)
      [] step = "rest"   -> StorePoints(r, Staged)
      [] step = "duty"   -> OrIgnored(r, StoreDuty(r, DutyToWrite))
      [] step = "mode"   -> OrIgnored(r, StoreMode(r, ModeToWrite))

\* apply_fixed: duty, mode.  apply_curve: [duty, direct mode,] points, mode.
\* restore: [duty, direct mode,] points, then duty, then mode.
Following ==
    CASE step = "hold"   -> "leave"
      [] step = "leave"  -> "points"
      [] step = "points" -> "rest"
      [] step = "rest"   -> IF phase = "write" THEN "mode" ELSE "duty"
      [] step = "duty"   -> "mode"
      [] step = "mode"   -> "read"

WriteAttribute ==
    /\ phase # "idle" /\ step \notin {"enter", "read"}
    /\ Needed
    /\ Alive
    /\ \E r \in Landed : dev' = [dev EXCEPT ![at] = r]
    /\ step' = Following
    /\ quiet' = 0
    /\ UNCHANGED <<path, plugs, executor, phase, at, asked, snap, settled, good, outcome,
                   before, strayed>>

SkipAttribute ==
    /\ phase # "idle" /\ step \notin {"enter", "read"}
    /\ ~Needed
    /\ step' = Following
    /\ UNCHANGED <<dev, path, plugs, executor, phase, at, asked, snap, settled, good,
                   outcome, ghosts>>

-----------------------------------------------------------------------------
(* The end of one channel, and of the transaction.                         *)

\* apply returns: its locals are gone.
Return(result) ==
    /\ outcome' = result
    /\ phase' = "idle" /\ at' = "pump" /\ step' = "enter"
    /\ snap' = NoSnapshots /\ settled' = {} /\ good' = TRUE

\* On to the next channel.
Continue(ok) ==
    /\ at' = "fan" /\ step' = "enter"
    /\ good' = (good /\ ok)
    /\ UNCHANGED <<phase, outcome, snap, settled>>

\* Record target on the channel just restored, then restore the next one or report.
Restored(target, ok) ==
    /\ committed' = [committed EXCEPT ![at] = target]
    /\ age' = [age EXCEPT ![at] = 0]
    /\ \/ at = "pump" /\ Continue(ok)
       \/ at = "fan" /\ Return(IF good /\ ok THEN "NotApplied" ELSE "Uncertain")

\* An attribute refused: the channel's writes stop.  A write starts the abort,
\* a restoration gives its channel up.
WriteFails ==
    /\ phase # "idle" /\ step \notin {"enter", "read"}
    /\ Needed
    /\ "fail" \in Faults \/ ~Alive
    /\ \/ UNCHANGED dev
       \/ Alive /\ \E r \in Landed : dev' = [dev EXCEPT ![at] = r]
    /\ quiet' = IF Alive THEN 0 ELSE quiet
    /\ \/ /\ phase = "write"
          /\ phase' = "abort" /\ at' = "pump" /\ step' = "enter" /\ good' = TRUE
          /\ UNCHANGED <<committed, age, outcome, snap, settled>>
       \/ phase = "abort" /\ Restored(NoTarget, FALSE)
    /\ UNCHANGED <<path, plugs, control, elapsed, asked, before, strayed>>

\* The readback of a written channel agrees with its target.
Matches ==
    /\ ReadMode(at) = asked[at][1]
    /\ asked[at][1] = "fixed" => ReadDuty(at) = asked[at][2]

\* Mutant: the targets stay on record after a mismatch.
SettleKeepingRecord(record, agrees) ==
    /\ committed' = record
    /\ Return(IF agrees THEN "Confirmed" ELSE "Uncertain")

\* settle: one mismatch takes every target out of the record.
Settle(record, agrees) ==
    /\ committed' = IF agrees THEN record ELSE [c \in Channel |-> NoTarget]
    /\ Return(IF agrees THEN "Confirmed" ELSE "Uncertain")

ReadBack ==
    LET record == [committed EXCEPT ![at] = asked[at]] IN
    /\ phase = "write" /\ step = "read"
    /\ age' = [age EXCEPT ![at] = 0]
    /\ \/ at = "pump" /\ "fan" \notin settled /\ committed' = record /\ Continue(Matches)
       \/ (at = "fan" \/ "fan" \in settled) /\ Settle(record, good /\ Matches)
    /\ UNCHANGED <<dev, path, plugs, control, elapsed, asked, ghosts>>

\* Mutant: restore is satisfied when the mode reads back.
ConfirmedByMode(s) == RestoresBehavior(s) /\ ReadMode(at) = s.mode

\* restore's verdict: the snapshot names a program and the device reads it back.
Confirmed(s) ==
    /\ RestoresBehavior(s)
    /\ ReadMode(at) = s.mode
    /\ s.mode = "fixed" => ReadDuty(at) = s.duty

\* abort's record of a channel it put back.
RestoredTarget(s) ==
    CASE s.mode = "curve" -> <<"curve", s.curve>>
      [] s.mode = "fixed" -> <<"fixed", s.duty>>
      [] OTHER            -> NoTarget

CheckRestored ==
    LET s == snap[at] IN
    /\ phase = "abort" /\ step = "read"
    /\ Restored(IF Confirmed(s) THEN RestoredTarget(s) ELSE NoTarget, Confirmed(s))
    /\ UNCHANGED <<dev, path, plugs, control, elapsed, asked, ghosts>>

-----------------------------------------------------------------------------
(* The other calls into the executor.                                      *)

\* Called by reconcile after a sample that found no device.
Forget ==
    /\ "unplug" \in Faults
    /\ phase = "idle"
    /\ committed' = [c \in Channel |-> NoTarget]
    /\ control' = 0
    /\ UNCHANGED <<dev, path, plugs, age, elapsed, transaction, ghosts>>

\* The committed curves that a report tele contradicts.
Diverged(tele) ==
    {c \in Channel : /\ committed[c][1] = "curve"
                     /\ age[c] >= CurveSettle
                     /\ tele[c].mode = "curve"
                     /\ tele[c].duty # None
                     /\ tele[c].duty \notin Window[committed[c][2]]}

VerifyCurves(tele) ==
    /\ phase = "idle"
    /\ committed' = [c \in Channel |->
                       IF c \in Diverged(tele) THEN NoTarget ELSE committed[c]]
    /\ UNCHANGED <<dev, path, plugs, control, age, elapsed, transaction, ghosts>>

-----------------------------------------------------------------------------
(* The environment.                                                        *)

\* The firmware's status report publishes the duty it runs each channel at.
StatusReport ==
    /\ path # 0
    /\ \E d \in [Channel -> Duty] :
         /\ \A c \in Channel : d[c] \in Running(dev[c])
         /\ dev' = [c \in Channel |-> [dev[c] EXCEPT !.reported = d[c]]]
    /\ UNCHANGED <<path, plugs, executor, transaction, ghosts>>

\* Another program, or a reset of the firmware, changes a channel.
Intruded(r) ==
    {[r EXCEPT !.mode = "fixed", !.stored = d, !.reported = d] : d \in Duty}
        \cup {[r EXCEPT !.mode = "full", !.reported = FullSpeed]}
        \cup {[r EXCEPT !.mode = "curve", !.points = k, !.loaded = k] : k \in Curve}
        \cup {[r EXCEPT !.loaded = Factory]}

Drift(c) ==
    /\ "drift" \in Faults
    /\ path # 0
    /\ \E r \in Intruded(dev[c]) : dev' = [dev EXCEPT ![c] = r]
    /\ strayed' = [strayed EXCEPT ![c] = "since"]
    /\ UNCHANGED <<path, plugs, executor, transaction, before, quiet>>

Unplug ==
    /\ "unplug" \in Faults
    /\ path # 0
    /\ path' = 0
    /\ dev' = [c \in Channel |-> FreshChannel]
    /\ strayed' = [c \in Channel |-> "since"]
    /\ UNCHANGED <<plugs, executor, transaction, before, quiet>>

Plug ==
    /\ path = 0
    /\ plugs < MaxPlugs
    /\ plugs' = plugs + 1
    /\ path' = plugs + 1
    /\ UNCHANGED <<dev, executor, transaction, ghosts>>

Bump(n, limit) == IF n < limit THEN n + 1 ELSE limit

TimePasses ==
    /\ elapsed' = Bump(elapsed, MinInterval)
    /\ age' = [c \in Channel |-> Bump(age[c], CurveSettle)]
    /\ quiet' = Bump(quiet, MinInterval)
    /\ UNCHANGED <<dev, path, plugs, control, committed, transaction, before, strayed>>

\* The process dies, possibly inside a transaction, and open runs again.
Restart ==
    /\ "crash" \in Faults
    /\ control' = path
    /\ committed' = [c \in Channel |-> NoTarget]
    /\ elapsed' = MinInterval
    /\ Return("none")
    /\ UNCHANGED <<dev, path, plugs, age, asked, ghosts>>

-----------------------------------------------------------------------------
Apply(targets) ==
    \/ ApplyUnbound(targets)
    \/ ApplyRefused(targets)
    \/ ApplyDeduplicated(targets)
    \/ ApplyStart(targets)

Proceed ==
    \/ Enter
    \/ WriteAttribute
    \/ SkipAttribute
    \/ WriteFails
    \/ ReadBack
    \/ CheckRestored

Environment ==
    \/ StatusReport
    \/ Unplug
    \/ Plug
    \/ TimePasses
    \/ Restart

Telemetry == [Channel -> [mode: Mode \cup {None}, duty: Duty \cup {None}]]

\* Nobody else writes to the device.
Undisturbed ==
    \/ ApplyOnboard
    \/ \E t \in Requests : Apply(t)
    \/ Proceed
    \/ Forget
    \/ \E tele \in Telemetry : VerifyCurves(tele)
    \/ Environment

Next == Undisturbed \/ \E c \in Channel : Drift(c)

Spec == Init /\ [][Next]_vars

\* The same on a machine no other program touches.
Alone == Init /\ [][Undisturbed]_vars

-----------------------------------------------------------------------------
TypeOK ==
    /\ dev \in [Channel -> ChannelState]
    /\ path \in 0..MaxPlugs /\ plugs \in 1..MaxPlugs /\ control \in 0..MaxPlugs
    /\ committed \in [Channel -> Target \cup {NoTarget}]
    /\ age \in [Channel -> 0..CurveSettle]
    /\ elapsed \in 0..MinInterval
    /\ phase \in {"idle", "write", "abort"}
    /\ at \in Channel
    /\ step \in Step
    /\ asked \in [Channel -> Target \cup {NoTarget}]
    /\ snap \in [Channel -> Snapshot]
    /\ settled \in SUBSET Channel
    /\ good \in BOOLEAN
    /\ outcome \in {"none", "Onboard", "Confirmed", "NotApplied", "Uncertain"}
    /\ before \in [Channel -> Target \cup {NoTarget, <<"full", None>>, <<"curve", Torn>>}]
    /\ strayed \in [Channel -> {"no", "before", "since"}]
    /\ quiet \in 0..MinInterval

\* The record never lies: while no transaction is under way, a channel nobody
\* else has touched was programmed with exactly the target the executor has on
\* record for it, whatever writes failed, were ignored or were rolled back on
\* the way.  A false record would let a later Apply deduplicate into nothing.
RecordIsTrue ==
    phase = "idle" =>
        \A c \in Channel :
            (strayed[c] = "no" /\ committed[c] # NoTarget)
                => Programmed(dev[c]) = committed[c]

\* NotApplied means nothing changed: a transaction that reports it has left
\* every channel on the program it was on before, although it may have written
\* and rolled back both.
RollbackIsExact ==
    (phase = "idle" /\ outcome = "NotApplied") =>
        \A c \in Channel :
            (strayed[c] = "no" /\ before[c] # NoTarget)
                => Programmed(dev[c]) = before[c]

\* Confirmed means applied: both channels are in the mode that was asked for
\* and on its duty unless somebody interfered after the Apply began, and a
\* channel nobody interfered with holds the curve too.  This covers the Apply
\* that wrote nothing because it was deduplicated.
ConfirmedIsApplied ==
    (phase = "idle" /\ outcome = "Confirmed") =>
        \A c \in Channel :
            /\ strayed[c] # "since" =>
                 /\ dev[c].mode = asked[c][1]
                 /\ asked[c][1] = "fixed" => dev[c].stored = asked[c][2]
            /\ strayed[c] = "no" => Programmed(dev[c]) = asked[c]

\* Half a curve never runs: whatever interrupts a transaction between two of its
\* attribute writes, the firmware is not executing a point array that mixes the
\* old curve with the new one (apply_curve: "the device never runs a half-updated
\* curve").
NoHalfCurve ==
    \A c \in Channel : dev[c].mode = "curve" => dev[c].loaded # Torn

\* The module comment of cooling.rs: "an uncertain state stops further writes
\* until a readback succeeds".  Read charitably: after an uncertain outcome no
\* transaction starts writing while the channels cannot even be read.
UncertainStopsWrites ==
    [][(phase = "idle" /\ outcome = "Uncertain" /\ phase' = "write") => Reads(control')]_vars

\* The module comment of cooling.rs: a request "arriving sooner than
\* MIN_PROGRAM_INTERVAL_MS after the last write, is refused", last_write being
\* "when an attribute was last written".
FloorCountsFromLastWrite ==
    [][(phase = "idle" /\ phase' = "write") => quiet >= MinInterval]_vars
=============================================================================
