--------------------------- MODULE CoolingProofs ---------------------------
(***************************************************************************)
(* What the cooling executor promises, proved for every set of duties,     *)
(* curves and requests, every timing constant and every combination of     *)
(* faults except a duty report that lags behind a write; that half a curve *)
(* never runs needs more of the device, and says so.                       *)
(***************************************************************************)
EXTENDS Cooling, TLAPS

-----------------------------------------------------------------------------
(* The inductive invariant.                                                *)

\* In direct mode the duty a channel reports is the one it was given.
Echoed == \A c \in Channel : dev[c].mode = "fixed" => dev[c].reported = dev[c].stored

\* The steps of a channel belong to what it is being put on.
StepFits ==
    phase # "idle" =>
        /\ asked \in [Channel -> Target]
        /\ step \in {"hold", "leave", "points", "rest"} => Stages
        /\ (phase = "write" /\ step = "duty") => asked[at][1] = "fixed"

\* Once its points are staged, an untouched channel's array is the whole curve.
PointsStaged ==
    (/\ phase # "idle" /\ Stages /\ strayed[at] = "no"
     /\ step \in (IF phase = "write" THEN {"mode", "read"} ELSE {"duty", "mode", "read"}))
       => dev[at].points = Staged

\* The channels whose record a running transaction may have overtaken.
InFlux(c) ==
    \/ phase = "write" /\ (c = at \/ ~good)
    \/ phase = "abort" /\ (c = at \/ at = "pump")

RecordHolds ==
    \A c \in Channel :
        (strayed[c] = "no" /\ committed[c] # NoTarget /\ ~InFlux(c))
            => Programmed(dev[c]) = committed[c]

\* A snapshot that names a program names the one the channel was on.
SnapshotHolds ==
    phase # "idle" =>
        \A c \in Channel :
            (before[c] # NoTarget /\ RestoresBehavior(snap[c])) =>
                /\ snap[c].mode = "full" => before[c] = <<"full", None>>
                /\ snap[c].mode = "fixed" => before[c] = <<"fixed", snap[c].duty>>
                /\ snap[c].mode = "curve" => before[c] = <<"curve", snap[c].curve>>

BackOn(c) ==
    (strayed[c] = "no" /\ before[c] # NoTarget) => Programmed(dev[c]) = before[c]

\* The pump is back before the fan is restored.
PumpRestored == (phase = "abort" /\ at = "fan" /\ good) => BackOn("pump")

AppliedOn(c) ==
    /\ strayed[c] # "since" =>
         /\ dev[c].mode = asked[c][1]
         /\ asked[c][1] = "fixed" => dev[c].stored = asked[c][2]
    /\ strayed[c] = "no" => Programmed(dev[c]) = asked[c]

\* The channels a writing transaction is done with are where it wants them.
DoneApplied ==
    phase = "write" =>
        /\ at \notin settled
        /\ good => \A c \in Channel :
                     (c \in settled \/ (c = "pump" /\ at = "fan")) => AppliedOn(c)

IInv ==
    /\ TypeOK
    /\ Echoed
    /\ StepFits
    /\ PointsStaged
    /\ RecordHolds
    /\ SnapshotHolds
    /\ PumpRestored
    /\ DoneApplied
    /\ RollbackIsExact
    /\ ConfirmedIsApplied

-----------------------------------------------------------------------------
(* The attribute writes.                                                   *)

\* A channel record whose report, in direct mode, echoes its duty.
Sound(r) == r \in ChannelState /\ (r.mode = "fixed" => r.reported = r.stored)

\* A pwmN write keeps a channel sound and leaves its points alone.
LEMMA StoreDutySound ==
    ASSUME "lag" \notin Faults, NEW r, Sound(r), NEW d \in Duty, NEW q \in StoreDuty(r, d)
    PROVE  Sound(q) /\ q.points = r.points
<1>1. Echo(r, d) = {d}
  BY DEF Echo
<1>2. CASE r.mode = "fixed"
  <2>1. q = [r EXCEPT !.stored = d, !.reported = d]
    BY <1>1, <1>2 DEF StoreDuty
  <2>2. QED
    BY <2>1 DEF Sound, ChannelState
<1>3. CASE r.mode # "fixed"
  <2>1. q = [r EXCEPT !.stored = d]
    BY <1>3 DEF StoreDuty
  <2>2. QED
    BY <1>3, <2>1 DEF Sound, ChannelState
<1>4. QED
  BY <1>2, <1>3

\* A pwmN_enable write keeps a channel sound and leaves its points alone.
LEMMA StoreModeSound ==
    ASSUME "lag" \notin Faults, NEW r, Sound(r), NEW m \in Mode, NEW q \in StoreMode(r, m)
    PROVE  Sound(q) /\ q.points = r.points
<1>1. CASE m = "fixed"
  <2>1. q = [r EXCEPT !.mode = "fixed", !.reported = r.stored]
    BY <1>1 DEF StoreMode, Echo
  <2>2. QED
    BY <2>1 DEF Sound, ChannelState, Mode
<1>2. CASE m = "full"
  <2>1. q = [r EXCEPT !.mode = "full", !.reported = FullSpeed]
    BY <1>2 DEF StoreMode, Echo
  <2>2. QED
    BY <2>1, DutyAssumption DEF Sound, ChannelState, Mode
<1>3. CASE m = "curve"
  BY <1>3 DEF StoreMode, Transferred, Sound, ChannelState, Mode
<1>4. QED
  BY <1>1, <1>2, <1>3 DEF Mode

\* Point writes keep a channel sound and leave the array they name.
LEMMA StorePointsSound ==
    ASSUME NEW r, Sound(r), NEW p \in Curve \cup {Torn}, NEW q \in StorePoints(r, p)
    PROVE  Sound(q) /\ q.points = p
BY DEF StorePoints, Transferred, Sound, ChannelState

\* Whatever attribute a transaction writes next, its channel stays sound, a
\* complete array is complete, and only point writes change the array.
LEMMA LandedSound ==
    ASSUME "lag" \notin Faults, IInv, phase # "idle", step \notin {"enter", "read"}, Needed,
           NEW r \in Landed
    PROVE  /\ Sound(r)
           /\ step = "rest" => r.points = Staged
           /\ step \in {"hold", "leave", "duty", "mode"} => r.points = dev[at].points
<1>1. Sound(dev[at])
  BY DEF IInv, TypeOK, Echoed, Sound
<1>2. CASE step = "hold"
  <2>1. HoldDuty(at) \in Duty
    BY <1>1, DutyAssumption DEF HoldDuty, Sound, ChannelState, IInv, TypeOK
  <2>2. r = dev[at] \/ r \in StoreDuty(dev[at], HoldDuty(at))
    BY <1>2 DEF Landed, OrIgnored
  <2>3. QED
    BY <1>1, <1>2, <2>1, <2>2, StoreDutySound
<1>3. CASE step = "leave"
  <2>1. r = dev[at] \/ r \in StoreMode(dev[at], "fixed")
    BY <1>3 DEF Landed, OrIgnored
  <2>2. QED
    BY <1>1, <1>3, <2>1, StoreModeSound DEF Mode
<1>4. CASE step \in {"points", "rest"}
  <2>1. Staged \in Curve
    BY <1>4 DEF IInv, StepFits, Stages, Staged, TypeOK, Snapshot, Target, FixedTarget, CurveTarget
  <2>2. CASE step = "points"
    <3>1. r \in StorePoints(dev[at], IF dev[at].points = Staged THEN Staged ELSE Torn)
      BY <2>2 DEF Landed
    <3>2. QED
      BY <1>1, <2>1, <2>2, <3>1, StorePointsSound
  <2>3. CASE step = "rest"
    <3>1. r \in StorePoints(dev[at], Staged)
      BY <2>3 DEF Landed
    <3>2. QED
      BY <1>1, <2>1, <2>3, <3>1, StorePointsSound
  <2>4. QED
    BY <1>4, <2>2, <2>3
<1>5. CASE step = "duty"
  <2>1. DutyToWrite \in Duty
    BY <1>5 DEF IInv, StepFits, DutyToWrite, Needed, TypeOK, Snapshot, Target, FixedTarget, CurveTarget
  <2>2. r = dev[at] \/ r \in StoreDuty(dev[at], DutyToWrite)
    BY <1>5 DEF Landed, OrIgnored
  <2>3. QED
    BY <1>1, <1>5, <2>1, <2>2, StoreDutySound
<1>6. CASE step = "mode"
  <2>1. ModeToWrite \in Mode
    BY <1>6 DEF IInv, StepFits, ModeToWrite, Needed, TypeOK, Snapshot, Target, FixedTarget, CurveTarget, Mode
  <2>2. r = dev[at] \/ r \in StoreMode(dev[at], ModeToWrite)
    BY <1>6 DEF Landed, OrIgnored
  <2>3. QED
    BY <1>1, <1>6, <2>1, <2>2, StoreModeSound
<1>7. QED
  BY <1>2, <1>3, <1>4, <1>5, <1>6 DEF IInv, TypeOK, Step

-----------------------------------------------------------------------------
(* The executor starts with an empty record.                               *)

\* The inductive invariant holds when the daemon opens the executor.
LEMMA InitInv == Init => IInv
<1> SUFFICES ASSUME Init PROVE IInv
  OBVIOUS
<1> USE DutyAssumption, CoolingAssumption
<1>1. TypeOK
  BY DEF Init, TypeOK, FreshChannel, ChannelState, Channel, Mode, Step, Snapshot, NoSnapshots
<1>2. Echoed
  BY DEF Init, Echoed, FreshChannel
<1>3. StepFits /\ PointsStaged /\ SnapshotHolds /\ PumpRestored /\ DoneApplied
  BY DEF Init, StepFits, PointsStaged, SnapshotHolds, PumpRestored, DoneApplied
<1>4. RecordHolds
  BY DEF Init, RecordHolds
<1>5. RollbackIsExact /\ ConfirmedIsApplied
  BY DEF Init, RollbackIsExact, ConfirmedIsApplied
<1>6. QED
  BY <1>1, <1>2, <1>3, <1>4, <1>5 DEF IInv

-----------------------------------------------------------------------------
(* apply, up to its first write.                                           *)

\* The ghosts a transaction opens with are well typed, and interference is past.
LEMMA OpeningSound ==
    ASSUME IInv, NEW t \in Requests, Opening(t)
    PROVE  /\ asked' \in [Channel -> Target]
           /\ before' \in [Channel -> Target \cup {NoTarget, <<"full", None>>, <<"curve", Torn>>}]
           /\ strayed' \in [Channel -> {"no", "before", "since"}]
           /\ \A c \in Channel :
                /\ strayed'[c] = "no" => strayed[c] = "no"
                /\ strayed[c] = "no" => before'[c] = Programmed(dev[c])
                /\ strayed[c] # "no" => before'[c] = NoTarget
<1>1. asked' \in [Channel -> Target]
  BY CoolingAssumption DEF Opening, Program, Target
<1>2. \A c \in Channel : Programmed(dev[c]) \in Target \cup {NoTarget, <<"full", None>>, <<"curve", Torn>>}
  BY DEF IInv, TypeOK, Programmed, ChannelState, Mode, Target, FixedTarget, CurveTarget
<1>3. before' \in [Channel -> Target \cup {NoTarget, <<"full", None>>, <<"curve", Torn>>}]
  BY <1>2 DEF Opening
<1>4. strayed' \in [Channel -> {"no", "before", "since"}]
  BY DEF Opening, IInv, TypeOK
<1>5. QED
  BY <1>1, <1>3, <1>4 DEF Opening

\* Onboard reports without touching anything.
LEMMA OnboardInv == ASSUME IInv, ApplyOnboard PROVE IInv'
<1> USE DEF ApplyOnboard, executor, ghosts
<1>1. TypeOK'
  BY DEF IInv, TypeOK
<1>2. Echoed' /\ RecordHolds'
  BY DEF IInv, Echoed, RecordHolds, InFlux, Programmed
<1>3. StepFits' /\ PointsStaged' /\ SnapshotHolds' /\ PumpRestored' /\ DoneApplied'
  BY DEF StepFits, PointsStaged, SnapshotHolds, PumpRestored, DoneApplied
<1>4. RollbackIsExact' /\ ConfirmedIsApplied'
  BY DEF RollbackIsExact, ConfirmedIsApplied
<1>5. QED
  BY <1>1, <1>2, <1>3, <1>4 DEF IInv

\* A request refused before it wrote changed nothing.
LEMMA RefusedInv ==
    ASSUME IInv, NEW t \in Requests, ApplyUnbound(t) \/ ApplyRefused(t)
    PROVE  IInv'
<1>1. /\ Opening(t) /\ phase = "idle" /\ outcome' = "NotApplied"
      /\ UNCHANGED <<elapsed, phase, at, step, snap, settled, good>>
      /\ UNCHANGED <<dev, path, plugs, quiet, committed, age>>
      /\ control' \in {control, Resolve}
  BY DEF ApplyUnbound, ApplyRefused, Opening
<1>2. TypeOK'
  BY <1>1, OpeningSound DEF IInv, TypeOK, Resolve
<1>3. Echoed'
  BY <1>1 DEF IInv, Echoed
<1>4. RecordHolds'
  BY <1>1, OpeningSound DEF IInv, RecordHolds, InFlux, Programmed
<1>5. StepFits' /\ PointsStaged' /\ SnapshotHolds' /\ PumpRestored' /\ DoneApplied'
  BY <1>1 DEF StepFits, PointsStaged, SnapshotHolds, PumpRestored, DoneApplied
<1>6. RollbackIsExact'
  BY <1>1, OpeningSound DEF RollbackIsExact, Programmed
<1>7. ConfirmedIsApplied'
  BY <1>1 DEF ConfirmedIsApplied
<1>8. QED
  BY <1>2, <1>3, <1>4, <1>5, <1>6, <1>7 DEF IInv

\* A channel found already applied is on its target.
LEMMA SettledSound ==
    ASSUME IInv, phase = "idle", NEW t \in Requests, Opening(t),
           NEW c \in SettledChannels(t, Resolve)
    PROVE  AppliedOn(c)'
<1>1. c \in Channel /\ AlreadyApplied(c, t[c], Resolve)
  BY DEF SettledChannels
<1>2. asked'[c] = t[c] /\ dev' = dev /\ t[c] \in Target
  BY <1>1, OpeningSound DEF Opening
<1>3. dev[c].mode = t[c][1] /\ (t[c][1] = "fixed" => dev[c].stored = t[c][2])
  BY <1>1 DEF AlreadyApplied, IInv, Echoed
<1>4. strayed'[c] = "no" => Programmed(dev[c]) = t[c]
  <2>1. t[c] # NoTarget
    BY <1>2 DEF Target, NoTarget, FixedTarget, CurveTarget
  <2>2. QED
    BY <1>1, <2>1, OpeningSound DEF AlreadyApplied, IInv, RecordHolds, InFlux
<1>5. QED
  BY <1>1, <1>2, <1>3, <1>4 DEF AppliedOn, Programmed

\* A deduplicated request is applied although it wrote nothing.
LEMMA DeduplicatedInv ==
    ASSUME IInv, NEW t \in Requests, ApplyDeduplicated(t)
    PROVE  IInv'
<1>1. /\ Opening(t) /\ phase = "idle" /\ outcome' = "Confirmed"
      /\ UNCHANGED <<elapsed, phase, at, step, snap, settled, good>>
      /\ UNCHANGED <<dev, path, plugs, quiet, committed, age>>
      /\ control' = Resolve
      /\ SettledChannels(t, Resolve) = Channel
  BY DEF ApplyDeduplicated, Opening
<1>2. TypeOK'
  BY <1>1, OpeningSound DEF IInv, TypeOK, Resolve
<1>3. Echoed'
  BY <1>1 DEF IInv, Echoed
<1>4. RecordHolds'
  BY <1>1, OpeningSound DEF IInv, RecordHolds, InFlux, Programmed
<1>5. StepFits' /\ PointsStaged' /\ SnapshotHolds' /\ PumpRestored' /\ DoneApplied'
  BY <1>1 DEF StepFits, PointsStaged, SnapshotHolds, PumpRestored, DoneApplied
<1>6. RollbackIsExact'
  BY <1>1 DEF RollbackIsExact
<1>7. ConfirmedIsApplied'
  <2>1. \A c \in Channel : AppliedOn(c)'
    BY <1>1, SettledSound
  <2>2. QED
    BY <2>1 DEF ConfirmedIsApplied, AppliedOn
<1>8. QED
  BY <1>2, <1>3, <1>4, <1>5, <1>6, <1>7 DEF IInv
\* Snapshots taken as a transaction starts are well typed and name the program
\* their channel is on.
LEMMA CaptureSound ==
    ASSUME IInv, phase = "idle", NEW t \in Requests, Opening(t), NEW c \in Channel
    PROVE  LET s == Capture(c, Resolve) IN
           /\ s \in Snapshot
           /\ (before'[c] # NoTarget /\ RestoresBehavior(s)) =>
                /\ s.mode = "full" => before'[c] = <<"full", None>>
                /\ s.mode = "fixed" => before'[c] = <<"fixed", s.duty>>
                /\ s.mode = "curve" => before'[c] = <<"curve", s.curve>>
<1> DEFINE s == Capture(c, Resolve)
<1>1. dev[c] \in ChannelState /\ committed[c] \in Target \cup {NoTarget}
  BY DEF IInv, TypeOK
<1>2. s \in Snapshot
  BY <1>1 DEF Capture, Snapshot, ChannelState, Target, FixedTarget, CurveTarget, NoTarget
<1>3. ASSUME before'[c] # NoTarget, RestoresBehavior(s)
      PROVE  /\ s.mode = "full" => before'[c] = <<"full", None>>
             /\ s.mode = "fixed" => before'[c] = <<"fixed", s.duty>>
             /\ s.mode = "curve" => before'[c] = <<"curve", s.curve>>
  <2>1. strayed[c] = "no" /\ before'[c] = Programmed(dev[c])
    BY <1>3, OpeningSound
  <2>2. s.mode # None
    BY <1>3, DutyAssumption DEF RestoresBehavior, Mode
  <2>3. s.mode = dev[c].mode /\ s.duty = dev[c].reported
    BY <2>2 DEF Capture
  <2>4. CASE s.mode = "full"
    BY <2>1, <2>3, <2>4 DEF Programmed
  <2>5. CASE s.mode = "fixed"
    BY <2>1, <2>3, <2>5 DEF Programmed, IInv, Echoed
  <2>6. CASE s.mode = "curve"
    <3>1. s.curve # None
      BY <1>3, <2>6, DutyAssumption DEF RestoresBehavior, Mode
    <3>2. committed[c][1] = "curve" /\ s.curve = committed[c][2]
      BY <3>1 DEF Capture
    <3>3. committed[c] = <<"curve", s.curve>> /\ committed[c] # NoTarget
      BY <1>1, <3>2 DEF Target, FixedTarget, CurveTarget, NoTarget
    <3>4. Programmed(dev[c]) = committed[c]
      BY <2>1, <3>3 DEF IInv, RecordHolds, InFlux
    <3>5. QED
      BY <2>1, <2>6, <3>3, <3>4
  <2>7. QED
    BY <2>4, <2>5, <2>6
<1>4. QED
  BY <1>2, <1>3

\* A transaction starts with faithful snapshots, its settled channels applied.
LEMMA StartInv == ASSUME IInv, NEW t \in Requests, ApplyStart(t) PROVE IInv'
<1> DEFINE done == SettledChannels(t, Resolve)
<1>1. /\ Opening(t) /\ phase = "idle" /\ phase' = "write" /\ step' = "enter" /\ good' = TRUE
      /\ UNCHANGED <<outcome, dev, path, plugs, quiet, committed, age>>
      /\ control' = Resolve /\ elapsed' = 0
      /\ snap' = [c \in Channel |-> Capture(c, Resolve)]
      /\ settled' = done /\ done # Channel
      /\ at' = IF "pump" \in done THEN "fan" ELSE "pump"
  BY DEF ApplyStart, Opening
<1>2. done \subseteq Channel /\ at' \in Channel /\ at' \notin done
  BY <1>1 DEF SettledChannels, Channel
<1>3. TypeOK'
  <2>1. snap' \in [Channel -> Snapshot]
    BY <1>1, CaptureSound
  <2>2. QED
    BY <1>1, <1>2, <2>1, OpeningSound, CoolingAssumption DEF IInv, TypeOK, Resolve, Step
<1>4. Echoed'
  BY <1>1 DEF IInv, Echoed
<1>5. StepFits' /\ PointsStaged' /\ PumpRestored'
  BY <1>1, OpeningSound DEF StepFits, PointsStaged, PumpRestored
<1>6. RecordHolds'
  BY <1>1, OpeningSound DEF IInv, RecordHolds, InFlux, Programmed
<1>7. SnapshotHolds'
  <2>1. \A c \in Channel : snap'[c] = Capture(c, Resolve)
    BY <1>1
  <2>2. SUFFICES ASSUME NEW c \in Channel, before'[c] # NoTarget, RestoresBehavior(snap'[c])
                 PROVE  /\ snap'[c].mode = "full" => before'[c] = <<"full", None>>
                        /\ snap'[c].mode = "fixed" => before'[c] = <<"fixed", snap'[c].duty>>
                        /\ snap'[c].mode = "curve" => before'[c] = <<"curve", snap'[c].curve>>
    BY DEF SnapshotHolds, RestoresBehavior
  <2>3. QED
    BY <1>1, <2>1, <2>2, CaptureSound
<1>8. DoneApplied'
  <2>1. \A c \in done : AppliedOn(c)'
    BY <1>1, SettledSound
  <2>2. at' = "fan" => "pump" \in done
    BY <1>1
  <2>3. QED
    BY <1>1, <1>2, <2>1, <2>2 DEF DoneApplied
<1>9. RollbackIsExact' /\ ConfirmedIsApplied'
  BY <1>1 DEF RollbackIsExact, ConfirmedIsApplied
<1>10. QED
  BY <1>3, <1>4, <1>5, <1>6, <1>7, <1>8, <1>9 DEF IInv

-----------------------------------------------------------------------------
(* The attribute writes of one channel.                                    *)

\* Choosing where a channel's writes begin.
LEMMA EnterInv == ASSUME IInv, Enter PROVE IInv'
<1>1. /\ phase # "idle"
      /\ step' \in {"duty", "hold", "points"}
      /\ step' = "duty" => ~Stages
      /\ step' # "duty" => Stages
      /\ strayed' = [strayed EXCEPT ![at] = "no"]
      /\ UNCHANGED <<dev, path, plugs, control, committed, age, elapsed, phase, at, asked,
                     snap, settled, good, outcome, before, quiet>>
  BY DEF Enter, executor
<1>2. at \in Channel /\ strayed \in [Channel -> {"no", "before", "since"}]
      /\ asked \in [Channel -> Target]
  BY <1>1 DEF IInv, TypeOK, StepFits
<1>3. \A c \in Channel \ {at} : strayed'[c] = strayed[c]
  BY <1>1, <1>2
<1>4. TypeOK'
  BY <1>1, <1>2 DEF IInv, TypeOK, Step
<1>5. Echoed' /\ SnapshotHolds'
  BY <1>1 DEF IInv, Echoed, SnapshotHolds, RestoresBehavior
<1>6. Stages' = Stages
  BY <1>1 DEF Stages
<1>7. StepFits' /\ PointsStaged'
  BY <1>1, <1>2, <1>6 DEF StepFits, PointsStaged, Stages, Target, FixedTarget, CurveTarget
<1>8. RecordHolds'
  BY <1>1, <1>3 DEF IInv, RecordHolds, InFlux, Programmed, TypeOK
<1>9. PumpRestored'
  BY <1>1, <1>3 DEF IInv, PumpRestored, BackOn, Programmed, Channel
<1>10. DoneApplied'
  <2>1. \A c \in Channel \ {at} : AppliedOn(c)' = AppliedOn(c)
    BY <1>1, <1>3 DEF AppliedOn, Programmed
  <2>2. QED
    BY <1>1, <2>1 DEF IInv, DoneApplied
<1>11. RollbackIsExact' /\ ConfirmedIsApplied'
  BY <1>1 DEF RollbackIsExact, ConfirmedIsApplied
<1>12. QED
  BY <1>4, <1>5, <1>7, <1>8, <1>9, <1>10, <1>11 DEF IInv
\* A write that leaves one sound state of its channel leaves the others alone.
LEMMA OneChannel ==
    ASSUME IInv, NEW r, Sound(r), dev' = [dev EXCEPT ![at] = r]
    PROVE  /\ dev' \in [Channel -> ChannelState]
           /\ Echoed'
           /\ dev'[at] = r
           /\ \A c \in Channel \ {at} : dev'[c] = dev[c]
<1>1. dev \in [Channel -> ChannelState] /\ at \in Channel
  BY DEF IInv, TypeOK
<1>2. dev' \in [Channel -> ChannelState]
  BY <1>1 DEF Sound
<1>3. Echoed'
  BY <1>1 DEF IInv, Echoed, Sound
<1>4. QED
  BY <1>1, <1>2, <1>3

\* An attribute that landed, acknowledged or not, within its transaction.
LEMMA WriteInv == ASSUME "lag" \notin Faults, IInv, WriteAttribute PROVE IInv'
<1>1. /\ phase # "idle" /\ step \notin {"enter", "read"} /\ Needed
      /\ step' = Following /\ quiet' = 0
      /\ UNCHANGED <<path, plugs, control, committed, age, elapsed, phase, at, asked, snap,
                     settled, good, outcome, before, strayed>>
  BY DEF WriteAttribute, executor
<1>2. PICK r \in Landed : dev' = [dev EXCEPT ![at] = r]
  BY DEF WriteAttribute
<1>3. /\ Sound(r)
      /\ step = "rest" => r.points = Staged
      /\ step \in {"hold", "leave", "duty", "mode"} => r.points = dev[at].points
  BY <1>1, LandedSound
<1>4. /\ dev' \in [Channel -> ChannelState] /\ Echoed' /\ dev'[at] = r
      /\ \A c \in Channel \ {at} : dev'[c] = dev[c]
  BY <1>2, <1>3, OneChannel
<1>5. step \in Step \ {"enter", "read"} /\ at \in Channel
  BY <1>1 DEF IInv, TypeOK
<1>6. TypeOK'
  <2>1. step' \in Step
    BY <1>1, <1>5 DEF Following, Step
  <2>2. QED
    BY <1>1, <1>4, <2>1, CoolingAssumption DEF IInv, TypeOK
<1>7. Stages' = Stages /\ Staged' = Staged
  BY <1>1 DEF Stages, Staged
<1>8. StepFits'
  BY <1>1, <1>5, <1>7 DEF IInv, StepFits, Following, Step
<1>9. PointsStaged'
  <2>1. SUFFICES ASSUME Stages, strayed[at] = "no",
                        step' \in (IF phase = "write" THEN {"mode", "read"}
                                                      ELSE {"duty", "mode", "read"})
                 PROVE  r.points = Staged
    BY <1>1, <1>4, <1>7 DEF PointsStaged
  <2>2. CASE step = "rest"
    BY <1>3, <2>2
  <2>3. CASE phase = "write" /\ step = "duty"
    BY <2>1, <2>3 DEF IInv, StepFits, Stages
  <2>4. CASE step = "mode" \/ (phase # "write" /\ step = "duty")
    BY <1>1, <1>3, <2>1, <2>4 DEF IInv, PointsStaged
  <2>5. QED
    BY <1>1, <1>5, <2>1, <2>2, <2>3, <2>4 DEF Following, Step
<1>10. RecordHolds'
  BY <1>1, <1>4 DEF IInv, RecordHolds, InFlux, Programmed, TypeOK
<1>11. SnapshotHolds'
  BY <1>1 DEF IInv, SnapshotHolds, RestoresBehavior
<1>12. PumpRestored'
  BY <1>1, <1>4 DEF IInv, PumpRestored, BackOn, Programmed, Channel
<1>13. DoneApplied'
  <2>1. \A c \in Channel \ {at} : AppliedOn(c)' = AppliedOn(c)
    BY <1>1, <1>4 DEF AppliedOn, Programmed
  <2>2. QED
    BY <1>1, <2>1 DEF IInv, DoneApplied
<1>14. RollbackIsExact' /\ ConfirmedIsApplied'
  BY <1>1 DEF RollbackIsExact, ConfirmedIsApplied
<1>15. QED
  BY <1>4, <1>6, <1>8, <1>9, <1>10, <1>11, <1>12, <1>13, <1>14 DEF IInv

\* An attribute a restoration has no reason to write.
LEMMA SkipInv == ASSUME IInv, SkipAttribute PROVE IInv'
<1>1. /\ phase # "idle" /\ step \notin {"enter", "read"} /\ ~Needed
      /\ step' = Following
      /\ UNCHANGED <<dev, path, plugs, control, committed, age, elapsed, phase, at, asked, snap,
                     settled, good, outcome, before, strayed, quiet>>
  BY DEF SkipAttribute, executor, ghosts
<1>2. phase = "abort" /\ step \in {"duty", "mode"}
  BY <1>1 DEF Needed, IInv, TypeOK, Step
<1>3. step' \in {"mode", "read"}
  BY <1>1, <1>2 DEF Following
<1>4. TypeOK'
  BY <1>1, <1>3 DEF IInv, TypeOK, Step
<1>5. Stages' = Stages /\ Staged' = Staged
  BY <1>1 DEF Stages, Staged
<1>6. StepFits' /\ PointsStaged'
  BY <1>1, <1>2, <1>3, <1>5 DEF IInv, StepFits, PointsStaged
<1>7. Echoed' /\ RecordHolds'
  BY <1>1 DEF IInv, Echoed, RecordHolds, InFlux, Programmed
<1>8. SnapshotHolds' /\ PumpRestored' /\ DoneApplied'
  BY <1>1, <1>2 DEF IInv, SnapshotHolds, RestoresBehavior, PumpRestored, BackOn, Programmed, DoneApplied
<1>9. RollbackIsExact' /\ ConfirmedIsApplied'
  BY <1>1 DEF RollbackIsExact, ConfirmedIsApplied
<1>10. QED
  BY <1>4, <1>6, <1>7, <1>8, <1>9 DEF IInv

\* A refused write starts the abort; a refused restoration gives its channel up.
LEMMA FailsInv == ASSUME "lag" \notin Faults, IInv, WriteFails PROVE IInv'
<1>1. /\ phase # "idle" /\ step \notin {"enter", "read"} /\ Needed
      /\ quiet' \in {0, quiet}
      /\ UNCHANGED <<path, plugs, control, elapsed, asked, before, strayed>>
  BY DEF WriteFails
<1>2. /\ dev' \in [Channel -> ChannelState] /\ Echoed'
      /\ \A c \in Channel \ {at} : dev'[c] = dev[c]
  <2>1. CASE UNCHANGED dev
    BY <2>1 DEF IInv, TypeOK, Echoed
  <2>2. CASE \E r \in Landed : dev' = [dev EXCEPT ![at] = r]
    BY <1>1, <2>2, LandedSound, OneChannel
  <2>3. QED
    BY <2>1, <2>2 DEF WriteFails
<1>3. asked \in [Channel -> Target] /\ at \in Channel
  BY <1>1 DEF IInv, StepFits, TypeOK
<1>4. CASE /\ phase = "write" /\ phase' = "abort" /\ at' = "pump" /\ step' = "enter" /\ good' = TRUE
           /\ UNCHANGED <<committed, age, outcome, snap, settled>>
  <2>1. TypeOK'
    BY <1>1, <1>2, <1>4, CoolingAssumption DEF IInv, TypeOK, Channel, Step
  <2>2. StepFits' /\ PointsStaged' /\ PumpRestored' /\ DoneApplied'
    BY <1>1, <1>3, <1>4 DEF StepFits, PointsStaged, PumpRestored, DoneApplied
  <2>3. RecordHolds'
    BY <1>4 DEF RecordHolds, InFlux
  <2>4. SnapshotHolds'
    BY <1>1, <1>4 DEF IInv, SnapshotHolds, RestoresBehavior
  <2>5. RollbackIsExact' /\ ConfirmedIsApplied'
    BY <1>4 DEF RollbackIsExact, ConfirmedIsApplied
  <2>6. QED
    BY <1>2, <2>1, <2>2, <2>3, <2>4, <2>5 DEF IInv
<1>5. CASE phase = "abort" /\ Restored(NoTarget, FALSE)
  <2>1. /\ committed' = [committed EXCEPT ![at] = NoTarget]
        /\ age' = [age EXCEPT ![at] = 0]
        /\ committed' \in [Channel -> Target \cup {NoTarget}]
        /\ age' \in [Channel -> 0..CurveSettle]
    BY <1>5, CoolingAssumption DEF Restored, IInv, TypeOK
  <2>2. CASE at = "pump" /\ Continue(FALSE)
    <3>1. /\ at' = "fan" /\ step' = "enter" /\ good' = FALSE
          /\ UNCHANGED <<phase, outcome, snap, settled>>
      BY <2>2 DEF Continue
    <3>2. TypeOK'
      <4>1. quiet' \in 0..MinInterval /\ at' \in Channel /\ step' \in Step
        BY <1>1, <3>1, CoolingAssumption DEF IInv, TypeOK, Channel, Step
      <4>2. good' \in BOOLEAN
        BY <3>1
      <4>3. QED
        BY <1>1, <1>2, <2>1, <3>1, <4>1, <4>2 DEF IInv, TypeOK
    <3>3. StepFits' /\ PointsStaged' /\ PumpRestored' /\ DoneApplied'
      BY <1>1, <1>3, <1>5, <3>1 DEF StepFits, PointsStaged, PumpRestored, DoneApplied
    <3>4. RecordHolds'
      BY <1>5, <2>1, <2>2, <3>1 DEF IInv, TypeOK, RecordHolds, InFlux, Channel
    <3>5. SnapshotHolds'
      BY <1>1, <3>1 DEF IInv, SnapshotHolds, RestoresBehavior
    <3>6. RollbackIsExact' /\ ConfirmedIsApplied'
      BY <1>5, <3>1 DEF RollbackIsExact, ConfirmedIsApplied
    <3>7. QED
      BY <1>2, <3>2, <3>3, <3>4, <3>5, <3>6 DEF IInv
  <2>3. CASE at = "fan" /\ Return("Uncertain")
    <3>1. /\ outcome' = "Uncertain" /\ phase' = "idle" /\ at' = "pump" /\ step' = "enter"
          /\ snap' = NoSnapshots /\ settled' = {} /\ good' = TRUE
      BY <2>3 DEF Return
    <3>2. TypeOK'
      <4>1. snap' \in [Channel -> Snapshot]
        BY <3>1 DEF NoSnapshots, Snapshot
      <4>2. QED
        BY <1>1, <1>2, <2>1, <3>1, <4>1, CoolingAssumption DEF IInv, TypeOK, Channel, Step
    <3>3. StepFits' /\ PointsStaged' /\ SnapshotHolds' /\ PumpRestored' /\ DoneApplied'
      BY <3>1 DEF StepFits, PointsStaged, SnapshotHolds, PumpRestored, DoneApplied
    <3>4. RecordHolds'
      BY <1>1, <1>2, <1>5, <2>1, <2>3 DEF IInv, TypeOK, RecordHolds, InFlux, Programmed, Channel
    <3>5. RollbackIsExact' /\ ConfirmedIsApplied'
      BY <3>1 DEF RollbackIsExact, ConfirmedIsApplied
    <3>6. QED
      BY <1>2, <3>2, <3>3, <3>4, <3>5 DEF IInv
  <2>4. QED
    BY <1>5, <2>2, <2>3 DEF Restored
<1>6. QED
  BY <1>4, <1>5 DEF WriteFails
-----------------------------------------------------------------------------
(* The end of a channel and of the transaction.                            *)

\* A channel whose readback matches its target is on it.
LEMMA MatchedApplied ==
    ASSUME IInv, phase = "write", step = "read", Matches
    PROVE  AppliedOn(at)
<1>1. asked[at] \in Target /\ at \in Channel /\ dev[at] \in ChannelState
  BY DEF IInv, StepFits, TypeOK
<1>2. asked[at][1] \in Mode
  BY <1>1 DEF Target, FixedTarget, CurveTarget, Mode
<1>3. Alive
  BY <1>2, DutyAssumption DEF Matches, ReadMode
<1>4. dev[at].mode = asked[at][1] /\ (asked[at][1] = "fixed" => dev[at].stored = asked[at][2])
  BY <1>1, <1>3 DEF Matches, ReadMode, ReadDuty, IInv, Echoed
<1>5. ASSUME strayed[at] = "no" PROVE Programmed(dev[at]) = asked[at]
  <2>1. CASE asked[at][1] = "fixed"
    BY <1>1, <1>4, <2>1 DEF Programmed, Target, FixedTarget, CurveTarget
  <2>2. CASE asked[at][1] = "curve"
    <3>1. dev[at].points = asked[at][2]
      BY <1>5, <2>2 DEF IInv, PointsStaged, Stages, Staged
    <3>2. QED
      BY <1>1, <1>4, <2>2, <3>1 DEF Programmed, Target, FixedTarget, CurveTarget
  <2>3. QED
    BY <1>1, <2>1, <2>2 DEF Target, FixedTarget, CurveTarget
<1>6. QED
  BY <1>4, <1>5 DEF AppliedOn

\* The readback of a channel, and the verdict after the last one.
LEMMA ReadBackInv == ASSUME IInv, ReadBack PROVE IInv'
<1> DEFINE record == [committed EXCEPT ![at] = asked[at]]
<1>1. /\ phase = "write" /\ step = "read"
      /\ age' = [age EXCEPT ![at] = 0]
      /\ UNCHANGED <<dev, path, plugs, control, elapsed, asked, before, strayed, quiet>>
  BY DEF ReadBack, ghosts
<1>2. /\ asked \in [Channel -> Target] /\ at \in Channel /\ at \notin settled
      /\ settled \in SUBSET Channel /\ good \in BOOLEAN
      /\ committed \in [Channel -> Target \cup {NoTarget}]
  BY <1>1 DEF IInv, StepFits, TypeOK, DoneApplied
<1>3. /\ record \in [Channel -> Target \cup {NoTarget}]
      /\ record[at] = asked[at]
      /\ \A c \in Channel \ {at} : record[c] = committed[c]
  BY <1>2
<1>4. Echoed'
  BY <1>1 DEF IInv, Echoed
<1>5. \A c \in Channel : AppliedOn(c)' = AppliedOn(c)
  BY <1>1 DEF AppliedOn, Programmed
<1>6. CASE at = "pump" /\ "fan" \notin settled /\ committed' = record /\ Continue(Matches)
  <2>1. /\ at' = "fan" /\ step' = "enter" /\ good' = (good /\ Matches)
        /\ UNCHANGED <<phase, outcome, snap, settled>>
    BY <1>6 DEF Continue
  <2>2. TypeOK'
    BY <1>1, <1>2, <1>3, <1>6, <2>1, CoolingAssumption DEF IInv, TypeOK, Channel, Step, Matches
  <2>3. StepFits' /\ PointsStaged' /\ PumpRestored'
    BY <1>1, <1>2, <2>1 DEF StepFits, PointsStaged, PumpRestored
  <2>4. RecordHolds'
    <3>1. SUFFICES ASSUME good'
                   PROVE  strayed["pump"] = "no" => Programmed(dev["pump"]) = asked["pump"]
      BY <1>1, <1>3, <1>6, <2>1 DEF RecordHolds, InFlux, Programmed, Channel
    <3>2. Matches
      BY <2>1, <3>1
    <3>3. QED
      BY <1>1, <1>6, <3>2, MatchedApplied DEF AppliedOn
  <2>5. SnapshotHolds'
    BY <1>1, <2>1 DEF IInv, SnapshotHolds, RestoresBehavior
  <2>6. DoneApplied'
    <3>1. settled = {}
      BY <1>2, <1>6 DEF Channel
    <3>2. good' => AppliedOn("pump")'
      BY <1>1, <1>2, <1>5, <1>6, <2>1, MatchedApplied
    <3>3. QED
      BY <2>1, <3>1, <3>2 DEF DoneApplied
  <2>7. RollbackIsExact' /\ ConfirmedIsApplied'
    BY <1>1, <2>1 DEF RollbackIsExact, ConfirmedIsApplied
  <2>8. QED
    BY <1>4, <2>2, <2>3, <2>4, <2>5, <2>6, <2>7 DEF IInv
<1>7. CASE (at = "fan" \/ "fan" \in settled) /\ Settle(record, good /\ Matches)
  <2>1. /\ phase' = "idle" /\ at' = "pump" /\ step' = "enter"
        /\ snap' = NoSnapshots /\ settled' = {} /\ good' = TRUE
    BY <1>7 DEF Settle, Return
  <2>2. StepFits' /\ PointsStaged' /\ SnapshotHolds' /\ PumpRestored' /\ DoneApplied'
    BY <2>1 DEF StepFits, PointsStaged, SnapshotHolds, PumpRestored, DoneApplied
  <2>3. snap' \in [Channel -> Snapshot]
    BY <2>1 DEF NoSnapshots, Snapshot
  <2>4. CASE good /\ Matches
    <3>1. committed' = record /\ outcome' = "Confirmed"
      BY <1>7, <2>4 DEF Settle, Return
    <3>2. TypeOK'
      BY <1>1, <1>2, <1>3, <2>1, <2>3, <3>1, CoolingAssumption DEF IInv, TypeOK, Channel, Step
    <3>3. \A c \in Channel : AppliedOn(c)
      <4>1. AppliedOn(at)
        BY <1>1, <2>4, MatchedApplied
      <4>2. \A c \in Channel \ {at} : AppliedOn(c)
        BY <1>1, <1>2, <1>7, <2>4 DEF IInv, DoneApplied, Channel
      <4>3. QED
        BY <4>1, <4>2
    <3>4. RecordHolds'
      <4>1. ASSUME NEW c \in Channel, strayed[c] = "no", record[c] # NoTarget
            PROVE  Programmed(dev[c]) = record[c]
        <5>1. CASE c = at
          BY <1>3, <3>3, <4>1, <5>1 DEF AppliedOn
        <5>2. CASE c # at
          BY <1>1, <1>3, <2>4, <4>1, <5>2 DEF IInv, RecordHolds, InFlux
        <5>3. QED
          BY <5>1, <5>2
      <4>2. QED
        BY <1>1, <3>1, <4>1 DEF RecordHolds, Programmed
    <3>5. RollbackIsExact'
      BY <3>1 DEF RollbackIsExact
    <3>6. ConfirmedIsApplied'
      BY <1>5, <3>3 DEF ConfirmedIsApplied, AppliedOn
    <3>7. QED
      BY <1>4, <2>2, <3>2, <3>4, <3>5, <3>6 DEF IInv
  <2>5. CASE ~(good /\ Matches)
    <3>1. committed' = [c \in Channel |-> NoTarget] /\ outcome' = "Uncertain"
      BY <1>7, <2>5 DEF Settle, Return
    <3>2. TypeOK'
      BY <1>1, <1>2, <2>1, <2>3, <3>1, CoolingAssumption DEF IInv, TypeOK, Channel, Step
    <3>3. RecordHolds' /\ RollbackIsExact' /\ ConfirmedIsApplied'
      BY <3>1 DEF RecordHolds, RollbackIsExact, ConfirmedIsApplied
    <3>4. QED
      BY <1>4, <2>2, <3>2, <3>3 DEF IInv
  <2>6. QED
    BY <2>4, <2>5
<1>8. QED
  BY <1>6, <1>7 DEF ReadBack
\* A channel that reads back its snapshot is on the program it had before, and
\* what abort records for it is that program.
LEMMA RestoredSound ==
    ASSUME IInv, phase = "abort", step = "read", Confirmed(snap[at])
    PROVE  /\ BackOn(at)
           /\ RestoredTarget(snap[at]) \in Target \cup {NoTarget}
           /\ (strayed[at] = "no" /\ RestoredTarget(snap[at]) # NoTarget)
                => Programmed(dev[at]) = RestoredTarget(snap[at])
<1> DEFINE s == snap[at]
<1>1. at \in Channel /\ s \in Snapshot /\ dev[at] \in ChannelState
  BY DEF IInv, TypeOK
<1>2. RestoresBehavior(s) /\ s.mode \in Mode
  BY <1>1, DutyAssumption DEF Confirmed, RestoresBehavior, Snapshot, Mode
<1>3. Alive
  BY <1>2, DutyAssumption DEF Confirmed, ReadMode
<1>4. dev[at].mode = s.mode /\ (s.mode = "fixed" => dev[at].stored = s.duty)
  BY <1>1, <1>2, <1>3 DEF Confirmed, ReadMode, ReadDuty, IInv, Echoed
<1>5. /\ before[at] # NoTarget /\ s.mode = "full" => before[at] = <<"full", None>>
      /\ before[at] # NoTarget /\ s.mode = "fixed" => before[at] = <<"fixed", s.duty>>
      /\ before[at] # NoTarget /\ s.mode = "curve" => before[at] = <<"curve", s.curve>>
  BY <1>1, <1>2 DEF IInv, SnapshotHolds
<1>6. CASE s.mode = "full"
  <2>1. Programmed(dev[at]) = <<"full", None>>
    BY <1>4, <1>6 DEF Programmed
  <2>2. RestoredTarget(s) = NoTarget
    BY <1>6 DEF RestoredTarget
  <2>3. QED
    BY <1>5, <1>6, <2>1, <2>2 DEF BackOn
<1>7. CASE s.mode = "fixed"
  <2>1. s.duty \in Duty
    BY <1>1, <1>2, <1>7, DutyAssumption DEF RestoresBehavior, Snapshot, Mode
  <2>2. Programmed(dev[at]) = <<"fixed", s.duty>>
    BY <1>4, <1>7 DEF Programmed
  <2>3. RestoredTarget(s) = <<"fixed", s.duty>>
    BY <1>7 DEF RestoredTarget
  <2>4. QED
    BY <1>5, <1>7, <2>1, <2>2, <2>3 DEF BackOn, Target, FixedTarget
<1>8. CASE s.mode = "curve"
  <2>1. s.curve \in Curve
    BY <1>1, <1>2, <1>8, DutyAssumption DEF RestoresBehavior, Snapshot, Mode
  <2>2. strayed[at] = "no" => dev[at].points = s.curve
    BY <1>8, <2>1, DutyAssumption DEF IInv, PointsStaged, Stages, Staged
  <2>3. strayed[at] = "no" => Programmed(dev[at]) = <<"curve", s.curve>>
    BY <1>4, <1>8, <2>2 DEF Programmed
  <2>4. RestoredTarget(s) = <<"curve", s.curve>>
    BY <1>8 DEF RestoredTarget
  <2>5. QED
    BY <1>5, <1>8, <2>1, <2>3, <2>4 DEF BackOn, Target, CurveTarget
<1>9. QED
  BY <1>2, <1>6, <1>7, <1>8 DEF Mode

\* The verdict on a restored channel, and after the fan's on the rollback.
LEMMA CheckInv == ASSUME IInv, CheckRestored PROVE IInv'
<1> DEFINE ok == Confirmed(snap[at])
           target == IF ok THEN RestoredTarget(snap[at]) ELSE NoTarget
<1>1. /\ phase = "abort" /\ step = "read" /\ Restored(target, ok)
      /\ UNCHANGED <<dev, path, plugs, control, elapsed, asked, before, strayed, quiet>>
  BY DEF CheckRestored, ghosts
<1>2. /\ target \in Target \cup {NoTarget}
      /\ (strayed[at] = "no" /\ target # NoTarget) => Programmed(dev[at]) = target
      /\ ok => BackOn(at)
  BY <1>1, RestoredSound
<1>3. asked \in [Channel -> Target] /\ at \in Channel /\ good \in BOOLEAN
  BY <1>1 DEF IInv, StepFits, TypeOK
<1>4. /\ committed' = [committed EXCEPT ![at] = target]
      /\ age' = [age EXCEPT ![at] = 0]
      /\ committed' \in [Channel -> Target \cup {NoTarget}]
      /\ age' \in [Channel -> 0..CurveSettle]
      /\ committed'[at] = target
      /\ \A c \in Channel \ {at} : committed'[c] = committed[c]
  BY <1>1, <1>2, <1>3, CoolingAssumption DEF Restored, IInv, TypeOK
<1>5. Echoed'
  BY <1>1 DEF IInv, Echoed
<1> HIDE DEF ok, target
<1>6. CASE at = "pump" /\ Continue(ok)
  <2>1. /\ at' = "fan" /\ step' = "enter" /\ good' = (good /\ ok)
        /\ UNCHANGED <<phase, outcome, snap, settled>>
    BY <1>6 DEF Continue
  <2>2. TypeOK'
    <3>1. good' \in BOOLEAN
      BY <2>1
    <3>2. at' \in Channel /\ step' \in Step
      BY <2>1 DEF Channel, Step
    <3>3. QED
      BY <1>1, <1>4, <2>1, <3>1, <3>2 DEF IInv, TypeOK
  <2>3. StepFits' /\ PointsStaged' /\ DoneApplied'
    BY <1>1, <1>3, <2>1 DEF StepFits, PointsStaged, DoneApplied
  <2>4. RecordHolds'
    BY <1>1, <1>2, <1>4, <1>6, <2>1 DEF RecordHolds, InFlux, Programmed, Channel
  <2>5. SnapshotHolds'
    BY <1>1, <2>1 DEF IInv, SnapshotHolds, RestoresBehavior
  <2>6. PumpRestored'
    BY <1>1, <1>2, <1>6, <2>1 DEF PumpRestored, BackOn, Programmed
  <2>7. RollbackIsExact' /\ ConfirmedIsApplied'
    BY <1>1, <2>1 DEF RollbackIsExact, ConfirmedIsApplied
  <2>8. QED
    BY <1>5, <2>2, <2>3, <2>4, <2>5, <2>6, <2>7 DEF IInv
<1>7. CASE at = "fan" /\ Return(IF good /\ ok THEN "NotApplied" ELSE "Uncertain")
  <2>1. /\ outcome' = (IF good /\ ok THEN "NotApplied" ELSE "Uncertain")
        /\ phase' = "idle" /\ at' = "pump" /\ step' = "enter"
        /\ snap' = NoSnapshots /\ settled' = {} /\ good' = TRUE
    BY <1>7 DEF Return
  <2>2. TypeOK'
    <3>1. snap' \in [Channel -> Snapshot]
      BY <2>1 DEF NoSnapshots, Snapshot
    <3>2. at' \in Channel /\ step' \in Step /\ outcome' \in {"NotApplied", "Uncertain"}
      BY <2>1 DEF Channel, Step
    <3>3. QED
      BY <1>1, <1>4, <2>1, <3>1, <3>2 DEF IInv, TypeOK
  <2>3. StepFits' /\ PointsStaged' /\ SnapshotHolds' /\ PumpRestored' /\ DoneApplied'
    BY <2>1 DEF StepFits, PointsStaged, SnapshotHolds, PumpRestored, DoneApplied
  <2>4. RecordHolds'
    <3>1. ASSUME NEW c \in Channel, strayed[c] = "no", committed'[c] # NoTarget
          PROVE  Programmed(dev[c]) = committed'[c]
      <4>1. CASE c = at
        BY <1>2, <1>4, <3>1, <4>1
      <4>2. CASE c # at
        BY <1>1, <1>4, <1>7, <3>1, <4>2 DEF IInv, RecordHolds, InFlux
      <4>3. QED
        BY <4>1, <4>2
    <3>2. QED
      BY <1>1, <3>1 DEF RecordHolds, Programmed
  <2>5. RollbackIsExact'
    <3>1. ASSUME good, ok PROVE \A c \in Channel : BackOn(c)
      BY <1>1, <1>2, <1>7, <3>1 DEF IInv, PumpRestored, Channel
    <3>2. QED
      BY <1>1, <2>1, <3>1 DEF RollbackIsExact, BackOn, Programmed
  <2>6. ConfirmedIsApplied'
    BY <2>1 DEF ConfirmedIsApplied
  <2>7. QED
    BY <1>5, <2>2, <2>3, <2>4, <2>5, <2>6 DEF IInv
<1>8. QED
  BY <1>1, <1>6, <1>7 DEF Restored

-----------------------------------------------------------------------------
(* The other calls, and the environment.                                   *)

\* Steps that only take targets out of the record.
LEMMA RecordShrinks ==
    ASSUME IInv,
           UNCHANGED <<dev, path, plugs, age, elapsed, phase, at, step, asked, snap, settled,
                       good, outcome, before, strayed, quiet>>,
           control' \in {0, control},
           committed' \in [Channel -> Target \cup {NoTarget}],
           \A c \in Channel : committed'[c] \in {committed[c], NoTarget}
    PROVE  IInv'
<1>1. TypeOK'
  BY CoolingAssumption DEF IInv, TypeOK
<1>2. Echoed' /\ RecordHolds'
  BY DEF IInv, Echoed, RecordHolds, InFlux, Programmed
<1>3. StepFits' /\ PointsStaged' /\ SnapshotHolds'
  BY DEF IInv, StepFits, PointsStaged, SnapshotHolds, Stages, Staged, RestoresBehavior
<1>4. PumpRestored' /\ DoneApplied'
  BY DEF IInv, PumpRestored, BackOn, DoneApplied, AppliedOn, Programmed
<1>5. RollbackIsExact' /\ ConfirmedIsApplied'
  BY DEF IInv, RollbackIsExact, ConfirmedIsApplied, Programmed
<1>6. QED
  BY <1>1, <1>2, <1>3, <1>4, <1>5 DEF IInv

\* forget and verify_curves.
LEMMA ForgetVerifyInv ==
    ASSUME IInv, Forget \/ \E tele \in Telemetry : VerifyCurves(tele)
    PROVE  IInv'
<1>1. CASE Forget
  BY <1>1, RecordShrinks DEF Forget, transaction, ghosts
<1>2. ASSUME NEW tele \in Telemetry, VerifyCurves(tele) PROVE IInv'
  <2>1. /\ \A c \in Channel : committed'[c] \in {committed[c], NoTarget}
        /\ committed' \in [Channel -> Target \cup {NoTarget}]
    BY <1>2 DEF VerifyCurves, IInv, TypeOK
  <2>2. QED
    BY <1>2, <2>1, RecordShrinks DEF VerifyCurves, transaction, ghosts
<1>3. QED
  BY <1>1, <1>2
\* A status report shows what the channels do and changes nothing else.
LEMMA ReportInv == ASSUME IInv, StatusReport PROVE IInv'
<1>1. UNCHANGED <<path, plugs, control, committed, age, elapsed, phase, at, step, asked, snap,
                  settled, good, outcome, before, strayed, quiet>>
  BY DEF StatusReport, executor, transaction, ghosts
<1>2. PICK d \in [Channel -> Duty] :
        /\ \A c \in Channel : d[c] \in Running(dev[c])
        /\ dev' = [c \in Channel |-> [dev[c] EXCEPT !.reported = d[c]]]
  BY DEF StatusReport
<1>3. \A c \in Channel :
        /\ dev[c] \in ChannelState
        /\ dev'[c] = [dev[c] EXCEPT !.reported = d[c]]
  BY <1>2 DEF IInv, TypeOK
<1>4. \A c \in Channel :
        /\ dev'[c] \in ChannelState
        /\ dev'[c].mode = dev[c].mode /\ dev'[c].stored = dev[c].stored
        /\ dev'[c].points = dev[c].points /\ dev'[c].reported = d[c]
  BY <1>2, <1>3 DEF ChannelState
<1>5. Echoed'
  BY <1>2, <1>4 DEF Echoed, Running
<1>6. dev' \in [Channel -> ChannelState]
  BY <1>2, <1>4
<1>7. TypeOK'
  BY <1>1, <1>6 DEF IInv, TypeOK
<1>8. \A c \in Channel : Programmed(dev'[c]) = Programmed(dev[c])
  BY <1>4 DEF Programmed
<1>9. RecordHolds'
  BY <1>1, <1>8 DEF IInv, RecordHolds, InFlux
<1>10. StepFits' /\ SnapshotHolds'
  BY <1>1 DEF IInv, StepFits, SnapshotHolds, Stages, RestoresBehavior
<1>11. PointsStaged'
  BY <1>1, <1>4 DEF IInv, TypeOK, PointsStaged, Stages, Staged
<1>12. PumpRestored'
  BY <1>1, <1>8 DEF IInv, PumpRestored, BackOn, Channel
<1>13. DoneApplied'
  <2>1. \A c \in Channel : AppliedOn(c)' = AppliedOn(c)
    BY <1>1, <1>4, <1>8 DEF AppliedOn
  <2>2. QED
    BY <1>1, <2>1 DEF IInv, DoneApplied
<1>14. RollbackIsExact' /\ ConfirmedIsApplied'
  BY <1>1, <1>4, <1>8 DEF IInv, RollbackIsExact, ConfirmedIsApplied
<1>15. QED
  BY <1>5, <1>7, <1>9, <1>10, <1>11, <1>12, <1>13, <1>14 DEF IInv

\* Interference spoils only channels it marks as strayed.
LEMMA StraysInv ==
    ASSUME IInv,
           UNCHANGED <<plugs, control, committed, age, elapsed, phase, at, step, asked, snap,
                       settled, good, outcome, before, quiet>>,
           path' \in 0..MaxPlugs,
           dev' \in [Channel -> ChannelState], Echoed',
           strayed' \in [Channel -> {"no", "before", "since"}],
           \A c \in Channel : \/ strayed'[c] = "since"
                              \/ strayed'[c] = strayed[c] /\ dev'[c] = dev[c]
    PROVE  IInv'
<1>1. TypeOK'
  BY DEF IInv, TypeOK
<1>2. RecordHolds'
  BY DEF IInv, RecordHolds, InFlux, Programmed
<1>3. StepFits' /\ SnapshotHolds'
  BY DEF IInv, StepFits, SnapshotHolds, Stages, RestoresBehavior
<1>4. PointsStaged'
  BY DEF IInv, TypeOK, PointsStaged, Stages, Staged
<1>5. PumpRestored'
  BY DEF IInv, PumpRestored, BackOn, Programmed, Channel
<1>6. DoneApplied'
  <2>1. \A c \in Channel : AppliedOn(c) => AppliedOn(c)'
    BY DEF AppliedOn, Programmed
  <2>2. QED
    BY <2>1 DEF IInv, DoneApplied
<1>7. RollbackIsExact' /\ ConfirmedIsApplied'
  BY DEF IInv, RollbackIsExact, ConfirmedIsApplied, Programmed
<1>8. QED
  BY <1>1, <1>2, <1>3, <1>4, <1>5, <1>6, <1>7 DEF IInv

\* Another program's writes leave a channel that is well typed and echoes.
LEMMA IntrudedSound ==
    ASSUME NEW r, Sound(r), NEW q \in Intruded(r)
    PROVE  Sound(q)
<1>1. CASE \E d \in Duty : q = [r EXCEPT !.mode = "fixed", !.stored = d, !.reported = d]
  BY <1>1 DEF Sound, ChannelState, Mode
<1>2. CASE q = [r EXCEPT !.mode = "full", !.reported = FullSpeed]
  BY <1>2, DutyAssumption DEF Sound, ChannelState, Mode
<1>3. CASE \E k \in Curve : q = [r EXCEPT !.mode = "curve", !.points = k, !.loaded = k]
  BY <1>3 DEF Sound, ChannelState, Mode
<1>4. CASE q = [r EXCEPT !.loaded = Factory]
  BY <1>4 DEF Sound, ChannelState
<1>5. QED
  BY <1>1, <1>2, <1>3, <1>4 DEF Intruded

\* Drift and unplugging.
LEMMA InterferenceInv ==
    ASSUME IInv, Unplug \/ \E c \in Channel : Drift(c)
    PROVE  IInv'
<1>1. dev \in [Channel -> ChannelState] /\ strayed \in [Channel -> {"no", "before", "since"}]
      /\ path \in 0..MaxPlugs
  BY DEF IInv, TypeOK
<1>2. CASE Unplug
  <2>1. /\ UNCHANGED <<plugs, control, committed, age, elapsed, phase, at, step, asked, snap,
                       settled, good, outcome, before, quiet>>
        /\ path' = 0 /\ strayed' = [c \in Channel |-> "since"]
        /\ dev' = [c \in Channel |-> FreshChannel]
    BY <1>2 DEF Unplug, executor, transaction
  <2>2. FreshChannel \in ChannelState /\ FreshChannel.mode = "full"
    BY DutyAssumption DEF FreshChannel, ChannelState, Mode
  <2>3. dev' \in [Channel -> ChannelState] /\ Echoed'
    BY <2>1, <2>2 DEF Echoed
  <2>4. path' \in 0..MaxPlugs
    BY <2>1, CoolingAssumption
  <2>5. QED
    BY <2>1, <2>3, <2>4, StraysInv
<1>3. ASSUME NEW c \in Channel, Drift(c) PROVE IInv'
  <2>1. /\ UNCHANGED <<path, plugs, control, committed, age, elapsed, phase, at, step, asked,
                       snap, settled, good, outcome, before, quiet>>
        /\ strayed' = [strayed EXCEPT ![c] = "since"]
    BY <1>3 DEF Drift, executor, transaction
  <2>2. PICK q \in Intruded(dev[c]) : dev' = [dev EXCEPT ![c] = q]
    BY <1>3 DEF Drift
  <2>3. Sound(q)
    BY <1>1, IntrudedSound DEF Sound, IInv, Echoed
  <2>4. dev' \in [Channel -> ChannelState] /\ Echoed'
    BY <1>1, <2>2, <2>3 DEF Sound, IInv, Echoed
  <2>5. QED
    BY <1>1, <2>1, <2>2, <2>4, StraysInv
<1>4. QED
  BY <1>2, <1>3

\* A driver instance appears, or time passes.
LEMMA ClockInv == ASSUME IInv, Plug \/ TimePasses PROVE IInv'
<1>1. /\ UNCHANGED <<dev, control, committed, phase, at, step, asked, snap, settled, good,
                     outcome, before, strayed>>
      /\ path' \in 0..MaxPlugs /\ plugs' \in 1..MaxPlugs
  BY CoolingAssumption DEF Plug, TimePasses, executor, transaction, ghosts, IInv, TypeOK
<1>2. /\ elapsed' \in 0..MinInterval /\ quiet' \in 0..MinInterval
      /\ age' \in [Channel -> 0..CurveSettle]
  BY CoolingAssumption DEF Plug, TimePasses, executor, transaction, ghosts, IInv, TypeOK, Bump
<1>3. TypeOK'
  BY <1>1, <1>2 DEF IInv, TypeOK
<1>4. Echoed' /\ RecordHolds'
  BY <1>1 DEF IInv, Echoed, RecordHolds, InFlux, Programmed
<1>5. StepFits' /\ PointsStaged' /\ SnapshotHolds'
  BY <1>1 DEF IInv, StepFits, PointsStaged, SnapshotHolds, Stages, Staged, RestoresBehavior
<1>6. PumpRestored' /\ DoneApplied'
  BY <1>1 DEF IInv, PumpRestored, BackOn, DoneApplied, AppliedOn, Programmed
<1>7. RollbackIsExact' /\ ConfirmedIsApplied'
  BY <1>1 DEF IInv, RollbackIsExact, ConfirmedIsApplied, Programmed
<1>8. QED
  BY <1>3, <1>4, <1>5, <1>6, <1>7 DEF IInv

\* A restarted daemon has an empty record and no transaction.
LEMMA RestartInv == ASSUME IInv, Restart PROVE IInv'
<1>1. /\ control' = path /\ committed' = [c \in Channel |-> NoTarget] /\ elapsed' = MinInterval
      /\ outcome' = "none" /\ phase' = "idle" /\ at' = "pump" /\ step' = "enter"
      /\ snap' = NoSnapshots /\ settled' = {} /\ good' = TRUE
      /\ UNCHANGED <<dev, path, plugs, age, asked, before, strayed, quiet>>
  BY DEF Restart, Return, ghosts
<1>2. TypeOK'
  <2>1. snap' \in [Channel -> Snapshot]
    BY <1>1 DEF NoSnapshots, Snapshot
  <2>2. QED
    BY <1>1, <2>1, CoolingAssumption DEF IInv, TypeOK, Channel, Step
<1>3. Echoed'
  BY <1>1 DEF IInv, Echoed
<1>4. StepFits' /\ PointsStaged' /\ SnapshotHolds' /\ PumpRestored' /\ DoneApplied'
  BY <1>1 DEF StepFits, PointsStaged, SnapshotHolds, PumpRestored, DoneApplied
<1>5. RecordHolds' /\ RollbackIsExact' /\ ConfirmedIsApplied'
  BY <1>1 DEF RecordHolds, RollbackIsExact, ConfirmedIsApplied
<1>6. QED
  BY <1>2, <1>3, <1>4, <1>5 DEF IInv

\* Nothing changes.
LEMMA StutterInv == ASSUME IInv, UNCHANGED vars PROVE IInv'
<1> USE DEF vars, executor, transaction, ghosts
<1>1. TypeOK' /\ Echoed'
  BY DEF IInv, TypeOK, Echoed
<1>2. StepFits' /\ PointsStaged' /\ SnapshotHolds'
  BY DEF IInv, StepFits, PointsStaged, SnapshotHolds, Stages, Staged, RestoresBehavior
<1>3. RecordHolds' /\ PumpRestored' /\ DoneApplied'
  BY DEF IInv, RecordHolds, InFlux, PumpRestored, BackOn, DoneApplied, AppliedOn, Programmed
<1>4. RollbackIsExact' /\ ConfirmedIsApplied'
  BY DEF IInv, RollbackIsExact, ConfirmedIsApplied, Programmed
<1>5. QED
  BY <1>1, <1>2, <1>3, <1>4 DEF IInv
-----------------------------------------------------------------------------
(* The theorems.                                                           *)

\* Every step of the executor, of the device and of the environment preserves
\* the inductive invariant, as long as pwmN does not lag behind a write.
LEMMA NextInv == ASSUME "lag" \notin Faults, IInv, [Next]_vars PROVE IInv'
<1>1. CASE ApplyOnboard
  BY <1>1, OnboardInv
<1>2. ASSUME NEW t \in Requests, Apply(t) PROVE IInv'
  BY <1>2, RefusedInv, DeduplicatedInv, StartInv DEF Apply
<1>3. CASE Proceed
  BY <1>3, EnterInv, WriteInv, SkipInv, FailsInv, ReadBackInv, CheckInv DEF Proceed
<1>4. CASE Forget \/ \E tele \in Telemetry : VerifyCurves(tele)
  BY <1>4, ForgetVerifyInv
<1>5. CASE Environment
  BY <1>5, ReportInv, InterferenceInv, ClockInv, RestartInv DEF Environment
<1>6. CASE \E c \in Channel : Drift(c)
  BY <1>6, InterferenceInv
<1>7. CASE UNCHANGED vars
  BY <1>7, StutterInv
<1>8. QED
  BY <1>1, <1>2, <1>3, <1>4, <1>5, <1>6, <1>7 DEF Next, Undisturbed

\* The inductive invariant holds throughout.
THEOREM Inductive == ASSUME "lag" \notin Faults PROVE Spec => []IInv
<1>1. Init => IInv
  BY InitInv
<1>2. IInv /\ [Next]_vars => IInv'
  BY NextInv
<1>3. QED
  BY <1>1, <1>2, PTL DEF Spec

\* The executor's variables and the device keep their types (cooling.rs, control.rs).
THEOREM TypesHold == ASSUME "lag" \notin Faults PROVE Spec => []TypeOK
<1>1. IInv => TypeOK
  BY DEF IInv
<1>2. QED
  BY <1>1, Inductive, PTL

\* The record never lies (commit and uncommit in cooling.rs): a committed target
\* is what an undisturbed channel was programmed with, for any duties, curves,
\* requests and timing, and any faults but a lagging report.
THEOREM RecordNeverLies == ASSUME "lag" \notin Faults PROVE Spec => []RecordIsTrue
<1>1. IInv => RecordIsTrue
  BY DEF IInv, RecordHolds, InFlux, RecordIsTrue
<1>2. QED
  BY <1>1, Inductive, PTL

\* NotApplied is honest (abort in cooling.rs, restore in control.rs): every
\* undisturbed channel is back on the program it had before.
THEOREM RollbackRestores == ASSUME "lag" \notin Faults PROVE Spec => []RollbackIsExact
<1>1. IInv => RollbackIsExact
  BY DEF IInv
<1>2. QED
  BY <1>1, Inductive, PTL

\* Confirmed is honest (settle and the deduplication of apply in cooling.rs).
THEOREM ConfirmationHolds == ASSUME "lag" \notin Faults PROVE Spec => []ConfirmedIsApplied
<1>1. IInv => ConfirmedIsApplied
  BY DEF IInv
<1>2. QED
  BY <1>1, Inductive, PTL

-----------------------------------------------------------------------------
(* Half a curve never runs.                                                *)

\* No channel was ever handed an incomplete array.
LoadedWhole == \A c \in Channel : dev[c].loaded # Torn

\* The paths in use are among those given out.
PathsGivenOut == control <= plugs /\ path <= plugs

\* A running transaction that lost a channel, or gave up, has lost its path:
\* nothing it still writes lands.
LostForGood ==
    /\ phase = "abort" => ~Alive
    /\ (phase # "idle" /\ step # "enter" /\ strayed[at] # "no") => ~Alive

\* Points are only written to a channel that left curve mode.
LeftCurveMode ==
    (phase = "write" /\ step \in {"points", "rest"} /\ Alive) => dev[at].mode # "curve"

WholeInv == IInv /\ LoadedWhole /\ PathsGivenOut /\ LostForGood /\ LeftCurveMode

\* The firmware and the bus may do what they like, but an attribute write that
\* reaches a bound device is neither refused nor ignored, and its duty report
\* does not lag.
WritesLand == Faults \cap {"fail", "ignore", "lag"} = {}

\* What a step leaves alone of what the strengthening reads.
LEMMA OtherWhole ==
    ASSUME WholeInv, IInv',
           UNCHANGED <<plugs, path, control>>,
           \A c \in Channel : dev'[c].loaded = dev[c].loaded /\ dev'[c].mode = dev[c].mode,
           \/ phase' = "idle"
           \/ UNCHANGED <<phase, at, step, strayed>>
    PROVE  WholeInv'
<1>1. LoadedWhole' /\ PathsGivenOut'
  BY DEF WholeInv, LoadedWhole, PathsGivenOut
<1>2. LostForGood' /\ LeftCurveMode'
  BY DEF WholeInv, LostForGood, LeftCurveMode, Alive, Reads, IInv, TypeOK
<1>3. QED
  BY <1>1, <1>2 DEF WholeInv

\* A transaction opens before anything is written.
LEMMA ApplyWhole == ASSUME WholeInv, IInv', NEW t \in Requests, Apply(t) PROVE WholeInv'
<1>1. /\ UNCHANGED <<dev, path, plugs>> /\ phase = "idle" /\ control' \in {control, Resolve}
      /\ phase' # "idle" => (phase' = "write" /\ step' = "enter")
  BY DEF Apply, ApplyUnbound, ApplyRefused, ApplyDeduplicated, ApplyStart, Opening
<1>2. LoadedWhole' /\ PathsGivenOut'
  BY <1>1 DEF WholeInv, LoadedWhole, PathsGivenOut, Resolve
<1>3. LostForGood' /\ LeftCurveMode'
  BY <1>1 DEF LostForGood, LeftCurveMode
<1>4. QED
  BY <1>2, <1>3 DEF WholeInv

\* stage_curve leaves curve mode before it stages (control.rs).
LEMMA EnterWhole == ASSUME WholeInv, IInv', Enter PROVE WholeInv'
<1>1. /\ UNCHANGED <<dev, path, plugs, control, phase, at>> /\ strayed' = [strayed EXCEPT ![at] = "no"]
      /\ step' \in {"duty", "hold", "points"}
      /\ step' = "points" => ReadMode(at) # "curve"
  BY DEF Enter, executor
<1>2. strayed'[at'] = "no"
  BY <1>1 DEF WholeInv, IInv, TypeOK
<1>3. LostForGood'
  BY <1>1, <1>2 DEF WholeInv, LostForGood, Alive, Reads
<1>4. LeftCurveMode'
  BY <1>1 DEF LeftCurveMode, ReadMode, Alive, Reads
<1>5. LoadedWhole' /\ PathsGivenOut'
  BY <1>1 DEF WholeInv, LoadedWhole, PathsGivenOut
<1>6. QED
  BY <1>3, <1>4, <1>5 DEF WholeInv

\* An attribute write that lands hands the firmware a complete array or none.
LEMMA WriteWhole == ASSUME WritesLand, WholeInv, IInv', WriteAttribute PROVE WholeInv'
<1>1. /\ phase # "idle" /\ step \notin {"enter", "read"} /\ Alive
      /\ UNCHANGED <<path, plugs, control, phase, at, strayed>>
      /\ step' = Following
  BY DEF WriteAttribute, executor
<1>2. PICK r \in Landed : dev' = [dev EXCEPT ![at] = r]
  BY DEF WriteAttribute
<1>3. phase = "write" /\ strayed[at] = "no"
  BY <1>1 DEF WholeInv, LostForGood, IInv, TypeOK
<1>4. dev[at] \in ChannelState /\ dev \in [Channel -> ChannelState] /\ at \in Channel
  BY DEF WholeInv, IInv, TypeOK
<1>5. dev[at].loaded # Torn
  BY <1>4 DEF WholeInv, LoadedWhole
<1>6. \A p, q : OrIgnored(p, q) = q
  BY DEF OrIgnored, WritesLand
<1>7. r.loaded # Torn /\ (step' \in {"points", "rest"} => r.mode # "curve")
  <2>1. CASE step = "hold"
    <3>1. r \in StoreDuty(dev[at], HoldDuty(at)) /\ step' = "leave"
      BY <1>1, <1>2, <1>6, <2>1 DEF Landed, Following
    <3>2. QED
      BY <1>4, <1>5, <3>1 DEF StoreDuty, ChannelState
  <2>2. CASE step = "leave"
    <3>1. r \in StoreMode(dev[at], "fixed")
      BY <1>2, <1>6, <2>2 DEF Landed
    <3>2. QED
      BY <1>4, <1>5, <3>1 DEF StoreMode, ChannelState
  <2>3. CASE step \in {"points", "rest"}
    <3>1. dev[at].mode # "curve"
      BY <1>1, <1>3, <2>3 DEF WholeInv, LeftCurveMode
    <3>2. PICK p : r \in StorePoints(dev[at], p)
      BY <1>2, <2>3 DEF Landed
    <3>3. r = [dev[at] EXCEPT !.points = p]
      BY <3>1, <3>2 DEF StorePoints
    <3>4. QED
      BY <1>4, <1>5, <3>1, <3>3 DEF ChannelState
  <2>4. CASE step = "duty"
    <3>1. r \in StoreDuty(dev[at], DutyToWrite) /\ step' = "mode"
      BY <1>1, <1>2, <1>6, <2>4 DEF Landed, Following
    <3>2. QED
      BY <1>4, <1>5, <3>1 DEF StoreDuty, ChannelState
  <2>5. CASE step = "mode"
    <3>1. r \in StoreMode(dev[at], asked[at][1]) /\ step' = "read"
      BY <1>1, <1>2, <1>3, <1>6, <2>5 DEF Landed, Following, ModeToWrite
    <3>2. CASE asked[at][1] = "curve"
      <4>1. Staged \in Curve /\ Stages
        BY <1>3, <1>4, <3>2 DEF WholeInv, IInv, StepFits, Staged, Stages, Target, FixedTarget, CurveTarget
      <4>2. dev[at].points = Staged
        BY <1>3, <2>5, <4>1 DEF WholeInv, IInv, PointsStaged
      <4>3. dev[at].points # Torn
        BY <4>1, <4>2, DutyAssumption
      <4>4. QED
        BY <1>4, <1>5, <3>1, <3>2, <4>3 DEF StoreMode, Transferred, ChannelState
    <3>3. CASE asked[at][1] # "curve"
      <4>1. asked[at][1] = "fixed"
        BY <1>3, <1>4, <3>3 DEF WholeInv, IInv, StepFits, Target, FixedTarget, CurveTarget
      <4>2. QED
        BY <1>4, <1>5, <3>1, <4>1 DEF StoreMode, ChannelState
    <3>4. QED
      BY <3>2, <3>3
  <2>6. QED
    BY <1>1, <2>1, <2>2, <2>3, <2>4, <2>5 DEF WholeInv, IInv, TypeOK, Step
<1>8. LoadedWhole' /\ LeftCurveMode'
  BY <1>1, <1>2, <1>4, <1>7 DEF WholeInv, LoadedWhole, LeftCurveMode
<1>9. PathsGivenOut' /\ LostForGood'
  BY <1>1, <1>3 DEF WholeInv, PathsGivenOut, LostForGood, Alive, Reads
<1>10. QED
  BY <1>8, <1>9 DEF WholeInv

\* A write leaves nothing out; a restoration has lost its path.
LEMMA SkipWhole == ASSUME WholeInv, IInv', SkipAttribute PROVE WholeInv'
<1>1. /\ phase = "abort" /\ ~Alive
      /\ UNCHANGED <<dev, path, plugs, control, phase, at, strayed>>
  BY DEF SkipAttribute, Needed, executor, ghosts, WholeInv, IInv, TypeOK, LostForGood
<1>2. LoadedWhole' /\ PathsGivenOut' /\ LostForGood' /\ LeftCurveMode'
  BY <1>1 DEF WholeInv, LoadedWhole, PathsGivenOut, LostForGood, LeftCurveMode, Alive, Reads
<1>3. QED
  BY <1>2 DEF WholeInv

\* Only a lost path fails a write, and then nothing lands.
LEMMA FailsWhole == ASSUME WritesLand, WholeInv, IInv', WriteFails PROVE WholeInv'
<1>1. ~Alive /\ UNCHANGED <<dev, path, plugs, control, strayed>>
  BY DEF WriteFails, WritesLand
<1>2. phase' \in {"abort", "idle"}
  BY DEF WriteFails, Restored, Continue, Return, WholeInv, IInv, TypeOK
<1>3. LoadedWhole' /\ PathsGivenOut' /\ LostForGood' /\ LeftCurveMode'
  BY <1>1, <1>2 DEF WholeInv, LoadedWhole, PathsGivenOut, LostForGood, LeftCurveMode, Alive, Reads
<1>4. QED
  BY <1>3 DEF WholeInv

\* Reading back, of a write or of a restoration, touches nothing.
LEMMA ReadWhole == ASSUME WholeInv, IInv', ReadBack \/ CheckRestored PROVE WholeInv'
<1>1. UNCHANGED <<dev, path, plugs, control, strayed>>
  BY DEF ReadBack, CheckRestored, ghosts
<1>2. phase' # "idle" => (phase' = phase /\ step' = "enter")
  BY DEF ReadBack, CheckRestored, Restored, Settle, Continue, Return
<1>3. LoadedWhole' /\ PathsGivenOut' /\ LostForGood' /\ LeftCurveMode'
  BY <1>1, <1>2 DEF WholeInv, LoadedWhole, PathsGivenOut, LostForGood, LeftCurveMode, Alive, Reads
<1>4. QED
  BY <1>3 DEF WholeInv

\* A device that returns comes back under a path no transaction holds.
LEMMA EnvironmentWhole == ASSUME WholeInv, IInv', Environment PROVE WholeInv'
<1>1. CASE StatusReport
  <2>1. PICK d \in [Channel -> Duty] : dev' = [c \in Channel |-> [dev[c] EXCEPT !.reported = d[c]]]
    BY <1>1 DEF StatusReport
  <2>2. \A c \in Channel : dev'[c].loaded = dev[c].loaded /\ dev'[c].mode = dev[c].mode
    BY <2>1 DEF WholeInv, IInv, TypeOK, ChannelState
  <2>3. QED
    BY <1>1, <2>2, OtherWhole DEF StatusReport, executor, transaction, ghosts
<1>2. CASE Unplug
  <2>1. /\ path' = 0 /\ UNCHANGED <<plugs, control>>
        /\ dev' = [c \in Channel |-> FreshChannel]
    BY <1>2 DEF Unplug, executor
  <2>2. LoadedWhole'
    BY <2>1, DutyAssumption DEF LoadedWhole, FreshChannel
  <2>3. PathsGivenOut' /\ LostForGood' /\ LeftCurveMode'
    BY <2>1 DEF WholeInv, IInv, TypeOK, PathsGivenOut, LostForGood, LeftCurveMode, Alive, Reads
  <2>4. QED
    BY <2>2, <2>3 DEF WholeInv
<1>3. CASE Plug
  <2>1. /\ plugs' = plugs + 1 /\ path' = plugs + 1
        /\ UNCHANGED <<dev, control>> /\ control <= plugs /\ control \in Nat /\ plugs \in Nat
    BY <1>3, CoolingAssumption DEF Plug, executor, WholeInv, PathsGivenOut, IInv, TypeOK
  <2>2. ~Alive'
    BY <2>1 DEF Alive, Reads
  <2>3. PathsGivenOut' /\ LostForGood' /\ LeftCurveMode' /\ LoadedWhole'
    BY <2>1, <2>2 DEF WholeInv, PathsGivenOut, LostForGood, LeftCurveMode, LoadedWhole
  <2>4. QED
    BY <2>3 DEF WholeInv
<1>4. CASE TimePasses
  BY <1>4, OtherWhole DEF TimePasses, transaction
<1>5. CASE Restart
  <2>1. /\ control' = path /\ UNCHANGED <<dev, path, plugs>> /\ phase' = "idle"
    BY <1>5 DEF Restart, Return
  <2>2. LoadedWhole' /\ PathsGivenOut' /\ LostForGood' /\ LeftCurveMode'
    BY <2>1 DEF WholeInv, LoadedWhole, PathsGivenOut, LostForGood, LeftCurveMode
  <2>3. QED
    BY <2>2 DEF WholeInv
<1>6. QED
  BY <1>1, <1>2, <1>3, <1>4, <1>5 DEF Environment

\* Every step of a machine no other program touches.
LEMMA UndisturbedWhole ==
    ASSUME WritesLand, WholeInv, [Undisturbed]_vars
    PROVE  WholeInv'
<1>1. IInv'
  BY NextInv DEF WholeInv, WritesLand, Next
<1>2. CASE ApplyOnboard
  BY <1>1, <1>2, OtherWhole DEF ApplyOnboard, executor, ghosts
<1>3. ASSUME NEW t \in Requests, Apply(t) PROVE WholeInv'
  BY <1>1, <1>3, ApplyWhole
<1>4. CASE Proceed
  BY <1>1, <1>4, EnterWhole, WriteWhole, SkipWhole, FailsWhole, ReadWhole DEF Proceed
<1>5. CASE Forget
  <2>1. phase' = "idle" /\ control' = 0 /\ UNCHANGED <<dev, path, plugs>>
    BY <1>5 DEF Forget, transaction
  <2>2. LoadedWhole' /\ PathsGivenOut' /\ LostForGood' /\ LeftCurveMode'
    BY <2>1 DEF WholeInv, IInv, TypeOK, LoadedWhole, PathsGivenOut, LostForGood, LeftCurveMode
  <2>3. QED
    BY <1>1, <2>2 DEF WholeInv
<1>6. CASE \E tele \in Telemetry : VerifyCurves(tele)
  BY <1>1, <1>6, OtherWhole DEF VerifyCurves, transaction
<1>7. CASE Environment
  BY <1>1, <1>7, EnvironmentWhole
<1>8. CASE UNCHANGED vars
  BY <1>1, <1>8, OtherWhole DEF vars, executor, transaction, ghosts
<1>9. QED
  BY <1>2, <1>3, <1>4, <1>5, <1>6, <1>7, <1>8 DEF Undisturbed

\* Half a curve never runs (stage_curve in control.rs): whatever unplugging, a
\* crash of the daemon or a firmware that drops a curve interrupts between two
\* attribute writes, no channel runs a point array that mixes two curves.
THEOREM CurvesRunWhole == ASSUME WritesLand PROVE Alone => []NoHalfCurve
<1>1. Init => WholeInv
  <2>1. Init => IInv
    BY InitInv
  <2>2. Init => LoadedWhole
    BY DutyAssumption DEF Init, LoadedWhole, FreshChannel
  <2>3. Init => PathsGivenOut /\ LostForGood /\ LeftCurveMode
    BY DEF Init, PathsGivenOut, LostForGood, LeftCurveMode
  <2>4. QED
    BY <2>1, <2>2, <2>3 DEF WholeInv
<1>2. WholeInv /\ [Undisturbed]_vars => WholeInv'
  BY UndisturbedWhole
<1>3. WholeInv => NoHalfCurve
  BY DEF WholeInv, LoadedWhole, NoHalfCurve
<1>4. QED
  BY <1>1, <1>2, <1>3, PTL DEF Alone
=============================================================================
