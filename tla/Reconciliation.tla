--------------------------- MODULE Reconciliation ---------------------------
(***************************************************************************)
(* The cooling executor's record under the daemon's clock: the Kraken      *)
(* collector (crates/daemon/src/telemetry.rs) publishes a sample once a    *)
(* second from its own thread, and the ticker's reconcile                  *)
(* (crates/daemon/src/state.rs) brings the executor's record in line with  *)
(* the latest one.  Collector and executor each cache an hwmon path and    *)
(* locate it again on their own.                                           *)
(*                                                                         *)
(* Module Cooling has the attribute writes of a transaction; here one that *)
(* puts the channels on curves is two steps, out of curve mode and into    *)
(* it, because the collector reads the device between them without the     *)
(* daemon's mutex.  One tick of the clock is one second: the sampling      *)
(* interval, the period of the firmware's status report and the period of  *)
(* reconcile.                                                              *)
(***************************************************************************)
EXTENDS Integers

CONSTANTS
    Channel,      \* the channels a program drives
    Curve,        \* complete curves
    Duty,         \* duties the firmware reports
    Window,       \* Window[k]: the duties accepts_duty takes for curve k
    None,         \* no record, no reading, no transaction
    CurveSettle,  \* CURVE_SETTLE_MS, in seconds
    MaxPlugs,     \* bound: how many times the device is bound to a driver
    Discards      \* may the firmware drop a transferred curve

ASSUME ReconciliationAssumption ==
    /\ CurveSettle \in Nat /\ MaxPlugs \in Nat \ {0}
    /\ Window \in [Curve -> SUBSET Duty]
    /\ None \notin Curve \cup Duty \cup [Channel -> Curve] /\ Duty # {}
    /\ Discards \in BOOLEAN

VARIABLES
    path,       \* hwmon instance bound right now, 0 when there is none
    plugs,      \* instances bound so far: a rebind never reuses a path
    device,     \* per channel: mode, the curve the firmware runs, its reported duty
    control,    \* the executor's cached instance, 0 for None
    committed,  \* the executor's record: the curve of each channel, or None
    age,        \* seconds since each commit, up to CurveSettle
    writing,    \* the curves of the transaction under way, or None
    eyes,       \* the collector's cached instance, 0 for None
    sample,     \* the Kraken section of the shared sampler state
    due         \* the periodic work of this second that has not happened yet

vars == <<path, plugs, device, control, committed, age, writing, eyes, sample, due>>

Reading == [mode: {"curve", "other", None}, duty: Duty \cup {None}]

Unread == [c \in Channel |-> [mode |-> None, duty |-> None]]
Absent == [present |-> FALSE, channels |-> Unread]
NoRecord == [c \in Channel |-> None]
FreshDevice == [c \in Channel |-> [mode |-> "other", loaded |-> None, reported |-> CHOOSE d \in Duty : TRUE]]

Periodic == {"collector", "reconcile", "report"}

Init ==
    /\ path = 1 /\ plugs = 1
    /\ device = FreshDevice
    /\ control = 1 /\ committed = NoRecord /\ age = [c \in Channel |-> 0]
    /\ writing = None
    /\ eyes = 1 /\ sample = Absent
    /\ due = Periodic

-----------------------------------------------------------------------------
(* Transactions, under the daemon's mutex from the first step to the last. *)

Resolve == IF control = 0 THEN path ELSE control

\* Leave curve mode and stage the points.
StartTransaction(curves) ==
    /\ writing = None
    /\ Resolve # 0 /\ Resolve = path
    /\ control' = Resolve
    /\ writing' = curves
    /\ device' = [c \in Channel |-> [device[c] EXCEPT !.mode = "other"]]
    /\ UNCHANGED <<path, plugs, committed, age, eyes, sample, due>>

\* Back into curve mode, which transfers the curves, and the commit.
FinishTransaction ==
    /\ writing # None
    /\ control = path
    /\ \E dropped \in SUBSET Channel :
         /\ ~Discards => dropped = {}
         /\ device' = [c \in Channel |->
                         [device[c] EXCEPT !.mode = "curve",
                                           !.loaded = IF c \in dropped THEN @ ELSE writing[c]]]
    /\ committed' = writing
    /\ age' = [c \in Channel |-> 0]
    /\ writing' = None
    /\ UNCHANGED <<path, plugs, control, eyes, sample, due>>

\* The cached path is dead: every attribute is refused, nothing can be restored,
\* the outcome is uncertain and the record empty.
FailTransaction ==
    /\ \/ writing # None /\ control # path
       \/ writing = None /\ control # 0 /\ control # path
    /\ committed' = NoRecord
    /\ writing' = None
    /\ UNCHANGED <<path, plugs, device, control, age, eyes, sample, due>>

-----------------------------------------------------------------------------
(* The collector and the ticker.                                           *)

\* One pass over an instance.  A path that answers nothing still gives a sample
\* that calls itself present.
TelemetryFrom(p) ==
    [present  |-> TRUE,
     channels |-> IF p = path
                  THEN [c \in Channel |-> [mode |-> device[c].mode, duty |-> device[c].reported]]
                  ELSE Unread]

\* Locate when no path is cached, read, drop the path when nothing was readable.
Collect ==
    LET seen == IF eyes = 0 THEN path ELSE eyes IN
    /\ sample' = IF seen = 0 THEN Absent ELSE TelemetryFrom(seen)
    /\ eyes' = IF seen = path THEN seen ELSE 0
    /\ due' = due \ {"collector"}
    /\ UNCHANGED <<path, plugs, device, control, committed, age, writing>>

\* Mutant: one second is taken to be enough.
SettledInASecond(c) == age[c] >= 1

\* Long enough after the commit for a report to have shown it.
Settled(c) == age[c] >= CurveSettle

\* Mutant: looks only at channels that are not in curve mode.
DivergedInDirectMode ==
    {c \in Channel : /\ committed[c] # None
                     /\ Settled(c)
                     /\ sample.channels[c].mode = "other"
                     /\ sample.channels[c].duty # None
                     /\ sample.channels[c].duty \notin Window[committed[c]]}

\* The committed curves that the sample contradicts.
Diverged ==
    {c \in Channel : /\ committed[c] # None
                     /\ Settled(c)
                     /\ sample.channels[c].mode = "curve"
                     /\ sample.channels[c].duty # None
                     /\ sample.channels[c].duty \notin Window[committed[c]]}

VerifyCurves ==
    /\ committed' = [c \in Channel |-> IF c \in Diverged THEN None ELSE committed[c]]
    /\ UNCHANGED control

\* Mutant: the record goes, the path stays.
ForgetRecordOnly == committed' = NoRecord /\ UNCHANGED control

Forget == committed' = NoRecord /\ control' = 0

Reconcile ==
    /\ writing = None
    /\ IF sample.present THEN VerifyCurves ELSE Forget
    /\ due' = due \ {"reconcile"}
    /\ UNCHANGED <<path, plugs, device, age, writing, eyes, sample>>

-----------------------------------------------------------------------------
(* The device and the clock.                                               *)

Running(r) ==
    IF r.mode = "curve" /\ r.loaded # None THEN Window[r.loaded] ELSE Duty

\* A status report; a device that is gone reports nothing.
Report ==
    /\ \E d \in [Channel -> Duty] :
         /\ \A c \in Channel : d[c] \in Running(device[c])
         /\ device' = IF path = 0 THEN device
                      ELSE [c \in Channel |-> [device[c] EXCEPT !.reported = d[c]]]
    /\ due' = due \ {"report"}
    /\ UNCHANGED <<path, plugs, control, committed, age, writing, eyes, sample>>

Unplug ==
    /\ path # 0
    /\ path' = 0
    /\ device' = FreshDevice
    /\ UNCHANGED <<plugs, control, committed, age, writing, eyes, sample, due>>

Plug ==
    /\ path = 0 /\ plugs < MaxPlugs
    /\ plugs' = plugs + 1 /\ path' = plugs + 1
    /\ UNCHANGED <<device, control, committed, age, writing, eyes, sample, due>>

\* The second is over when all of its periodic work has been done; reconcile
\* waits for the mutex while a transaction runs.
Second ==
    /\ due \subseteq (IF writing = None THEN {} ELSE {"reconcile"})
    /\ due' = Periodic
    /\ age' = [c \in Channel |-> IF age[c] < CurveSettle THEN age[c] + 1 ELSE age[c]]
    /\ UNCHANGED <<path, plugs, device, control, committed, writing, eyes, sample>>

Next ==
    \/ \E curves \in [Channel -> Curve] : StartTransaction(curves)
    \/ FinishTransaction
    \/ FailTransaction
    \/ Collect
    \/ Reconcile
    \/ Report
    \/ Unplug
    \/ Plug
    \/ Second

\* The sampler and ticker threads loop for as long as the daemon runs, a
\* transaction runs to its end under the mutex, the firmware reports
\* periodically and time passes.  Requests and hotplug may never come.
Fairness ==
    /\ WF_vars(Collect)
    /\ WF_vars(Reconcile)
    /\ WF_vars(Report)
    /\ WF_vars(Second)
    /\ WF_vars(FinishTransaction)
    /\ WF_vars(writing # None /\ FailTransaction)

Spec == Init /\ [][Next]_vars /\ Fairness

-----------------------------------------------------------------------------
TypeOK ==
    /\ path \in 0..MaxPlugs /\ plugs \in 1..MaxPlugs
    /\ device \in [Channel -> [mode: {"curve", "other"}, loaded: Curve \cup {None}, reported: Duty]]
    /\ control \in 0..MaxPlugs /\ eyes \in 0..MaxPlugs
    /\ committed \in [Channel -> Curve \cup {None}]
    /\ age \in [Channel -> 0..CurveSettle]
    /\ writing \in [Channel -> Curve] \cup {None}
    /\ sample \in [present: BOOLEAN, channels: [Channel -> Reading]]
    /\ due \subseteq Periodic

\* A curve the firmware runs is never called divergent: reconcile takes a curve
\* out of the record only when the device does not run it, although the report
\* and the sample it compares with may both be older than the commit.
NoFalseDivergence ==
    [][\A c \in Channel :
          (committed[c] # None /\ committed'[c] = None /\ sample.present
             /\ control = path /\ writing = None)
             => device[c].loaded # committed[c]]_vars

DiscardedCurve(c) ==
    /\ committed[c] # None
    /\ device[c].mode = "curve"
    /\ device[c].loaded \in Curve \ {committed[c]}

\* A curve that the firmware silently discarded does not stay on record: while
\* the device keeps running another curve the channel is eventually uncommitted,
\* so the next Apply writes instead of deduplicating.
DiscardIsNoticed == \A c \in Channel : DiscardedCurve(c) ~> ~DiscardedCurve(c)

\* spawn_kraken's comment: re-resolving "is what lets a reconnected device come
\* back without restarting the daemon".  For the executor: once the device is
\* bound again, it does not go on using a path that no longer exists.
StalePath == path # 0 /\ control # 0 /\ control # path

ReconnectHeals == StalePath ~> ~StalePath

\* A device that stays away is forgotten: the executor ends up with no record
\* and no path, however the collector, the ticker and requests interleave.
Gone == path = 0
AbsenceIsForgotten == [](Gone => <>(~Gone \/ (control = 0 /\ committed = NoRecord)))
=============================================================================
