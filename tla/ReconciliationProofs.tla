------------------------ MODULE ReconciliationProofs ------------------------
(***************************************************************************)
(* What reconciliation promises, proved for any channels, curves, windows  *)
(* and number of rebinds, with or without a firmware that discards, as     *)
(* long as CurveSettle is three sampling intervals or more.                *)
(***************************************************************************)
EXTENDS Reconciliation, TLAPS

\* CURVE_SETTLE_MS over the sampling interval: one for the report, one for the
\* sample that shows it, and what was left of the second of the commit.
SettlesLongEnough == CurveSettle >= 3

-----------------------------------------------------------------------------
(* The inductive invariant.                                                *)

\* A rebind never reuses a path, so a cached one is the bound one or dead.
PathsAreFresh == path \in {0, plugs} /\ control <= plugs /\ eyes <= plugs

\* Nothing is recorded of, or written to, no device.
RecordHasPath == control = 0 => committed = NoRecord /\ writing = None

\* Channel c runs the curve on record, and nothing is being changed.
OnRecord(c) ==
    /\ writing = None /\ control = path
    /\ committed[c] # None /\ device[c].loaded = committed[c]

\* Outside a transaction a channel on record was switched to its curve.
InCurveMode ==
    \A c \in Channel : writing = None /\ control = path /\ committed[c] # None => device[c].mode = "curve"

\* A second that began after the commit has shown the firmware's report.
ReportIsFresh ==
    \A c \in Channel :
        OnRecord(c) /\ (age[c] >= 2 \/ (age[c] = 1 /\ "report" \notin due))
            => device[c].reported \in Window[committed[c]]

\* And one more the collector's sample of it.
SampleIsFresh ==
    \A c \in Channel :
        OnRecord(c) /\ (age[c] >= 3 \/ (age[c] = 2 /\ "collector" \notin due))
            => sample.channels[c].duty \in Window[committed[c]] \cup {None}

IInv == TypeOK /\ PathsAreFresh /\ RecordHasPath /\ InCurveMode /\ ReportIsFresh /\ SampleIsFresh

USE ReconciliationAssumption

-----------------------------------------------------------------------------
(* What the firmware's side of a channel can become.                       *)

Device == [mode: {"curve", "other"}, loaded: Curve \cup {None}, reported: Duty]

\* A device that leaves curve mode keeps its curve and what it reports.
LEMMA Leaving ==
  ASSUME TypeOK, NEW c \in Channel
  PROVE  LET left == [device[c] EXCEPT !.mode = "other"]
         IN  left \in Device /\ left.loaded = device[c].loaded /\ left.reported = device[c].reported
  <1>1. device[c] \in Device
    BY DEF TypeOK, Device
  <1> QED
    BY <1>1 DEF Device

\* A device that enters curve mode has the curve it was given.
LEMMA Entering ==
  ASSUME TypeOK, NEW c \in Channel, NEW k \in Curve \cup {None}
  PROVE  LET entered == [device[c] EXCEPT !.mode = "curve", !.loaded = k]
         IN  entered \in Device /\ entered.mode = "curve" /\ entered.loaded = k
  <1>1. device[c] \in Device
    BY DEF TypeOK, Device
  <1>2. [device[c] EXCEPT !.mode = "curve", !.loaded = k]
          = [[device[c] EXCEPT !.mode = "curve"] EXCEPT !.loaded = k]
    OBVIOUS
  <1>3. [device[c] EXCEPT !.mode = "curve"] \in Device /\ [device[c] EXCEPT !.mode = "curve"].mode = "curve"
    BY <1>1 DEF Device
  <1> QED
    BY <1>2, <1>3 DEF Device

\* A report changes what is reported and nothing else.
LEMMA Reporting ==
  ASSUME TypeOK, NEW c \in Channel, NEW duty \in Duty
  PROVE  LET reporting == [device[c] EXCEPT !.reported = duty]
         IN  /\ reporting \in Device /\ reporting.reported = duty
             /\ reporting.mode = device[c].mode /\ reporting.loaded = device[c].loaded
  <1>1. device[c] \in Device
    BY DEF TypeOK, Device
  <1> QED
    BY <1>1 DEF Device

-----------------------------------------------------------------------------

\* Nothing is recorded and nothing was read.
LEMMA InitHolds == Init => IInv
  BY DEF Init, IInv, TypeOK, PathsAreFresh, RecordHasPath, InCurveMode, ReportIsFresh, SampleIsFresh,
         OnRecord, FreshDevice, NoRecord, Absent, Unread, Reading, Periodic

\* A transaction ends with an age of zero, so nothing is claimed of it yet; one that
\* fails leaves no record.
LEMMA TransactionHolds ==
  ASSUME IInv,
         \/ \E curves \in [Channel -> Curve] : StartTransaction(curves)
         \/ FinishTransaction \/ FailTransaction
  PROVE  IInv'
  <1>1. ASSUME NEW curves \in [Channel -> Curve], StartTransaction(curves) PROVE IInv'
    <2>1. /\ device' \in [Channel -> Device]
          /\ \A c \in Channel : /\ device'[c].loaded = device[c].loaded
                                /\ device'[c].reported = device[c].reported
      BY <1>1, Leaving DEF IInv, StartTransaction
    <2>2. TypeOK'
      BY <1>1, <2>1 DEF IInv, TypeOK, StartTransaction, Device
    <2>3. PathsAreFresh'
      BY <1>1 DEF IInv, TypeOK, PathsAreFresh, StartTransaction
    <2>4. RecordHasPath'
      BY <1>1 DEF IInv, RecordHasPath, StartTransaction
    <2>5. InCurveMode'
      BY <1>1 DEF IInv, InCurveMode, StartTransaction
    <2>6. ReportIsFresh'
      BY <1>1 DEF IInv, ReportIsFresh, OnRecord, StartTransaction
    <2>7. SampleIsFresh'
      BY <1>1 DEF IInv, SampleIsFresh, OnRecord, StartTransaction
    <2> QED
      BY <2>2, <2>3, <2>4, <2>5, <2>6, <2>7 DEF IInv
  <1>2. CASE FinishTransaction
    <2>1. writing \in [Channel -> Curve]
      BY <1>2 DEF IInv, TypeOK, FinishTransaction
    <2>2. device' \in [Channel -> Device] /\ \A c \in Channel : device'[c].mode = "curve"
      <3>1. PICK dropped \in SUBSET Channel :
              device' = [c \in Channel |->
                           [device[c] EXCEPT !.mode = "curve",
                                             !.loaded = IF c \in dropped THEN @ ELSE writing[c]]]
        BY <1>2 DEF FinishTransaction
      <3>2. ASSUME NEW c \in Channel
            PROVE  device'[c] \in Device /\ device'[c].mode = "curve"
        <4>1. (IF c \in dropped THEN device[c].loaded ELSE writing[c]) \in Curve \cup {None}
          BY <2>1 DEF IInv, TypeOK
        <4>2. PICK k \in Curve \cup {None} : device'[c] = [device[c] EXCEPT !.mode = "curve", !.loaded = k]
          BY <3>1, <4>1
        <4>3. [device[c] EXCEPT !.mode = "curve", !.loaded = k] \in Device
                /\ [device[c] EXCEPT !.mode = "curve", !.loaded = k].mode = "curve"
          BY Entering DEF IInv
        <4> QED
          BY <4>2, <4>3
      <3> QED
        BY <3>1, <3>2
    <2>3. \A c \in Channel : age'[c] = 0
      BY <1>2 DEF FinishTransaction
    <2>4. TypeOK'
      <3>1. committed' \in [Channel -> Curve \cup {None}] /\ writing' = None
        BY <1>2, <2>1 DEF FinishTransaction
      <3>2. age' \in [Channel -> 0..CurveSettle]
        <4>1. 0 \in 0..CurveSettle
          OBVIOUS
        <4>2. age' = [c \in Channel |-> 0]
          BY <1>2 DEF FinishTransaction
        <4> QED
          BY <4>1, <4>2
      <3> QED
        BY <1>2, <2>2, <3>1, <3>2 DEF IInv, TypeOK, FinishTransaction, Device
    <2>5. PathsAreFresh'
      BY <1>2 DEF IInv, PathsAreFresh, FinishTransaction
    <2>6. RecordHasPath'
      BY <1>2 DEF IInv, RecordHasPath, FinishTransaction
    <2>7. InCurveMode'
      BY <2>2 DEF IInv, InCurveMode
    <2>8. ReportIsFresh'
      BY <2>3 DEF ReportIsFresh
    <2>9. SampleIsFresh'
      BY <2>3 DEF SampleIsFresh
    <2> QED
      BY <2>4, <2>5, <2>6, <2>7, <2>8, <2>9 DEF IInv
  <1>3. CASE FailTransaction
    <2>1. TypeOK'
      BY <1>3 DEF IInv, TypeOK, FailTransaction, NoRecord
    <2>2. PathsAreFresh'
      BY <1>3 DEF IInv, PathsAreFresh, FailTransaction
    <2>3. RecordHasPath'
      BY <1>3 DEF IInv, RecordHasPath, FailTransaction
    <2>4. InCurveMode'
      BY <1>3 DEF IInv, InCurveMode, FailTransaction
    <2>5. ReportIsFresh'
      BY <1>3 DEF IInv, ReportIsFresh, OnRecord, FailTransaction
    <2>6. SampleIsFresh'
      BY <1>3 DEF IInv, SampleIsFresh, OnRecord, FailTransaction
    <2> QED
      BY <2>1, <2>2, <2>3, <2>4, <2>5, <2>6 DEF IInv
  <1> QED
    BY <1>1, <1>2, <1>3

\* A telemetry sample is read from what the device reports.
LEMMA CollectHolds ==
  ASSUME IInv, Collect
  PROVE  IInv'
  <1>1. TypeOK'
    BY DEF IInv, TypeOK, Collect, TelemetryFrom, Absent, Unread, Reading
  <1>2. PathsAreFresh'
    BY DEF IInv, TypeOK, PathsAreFresh, Collect
  <1>3. RecordHasPath'
    BY DEF IInv, RecordHasPath, Collect
  <1>4. InCurveMode'
    BY DEF IInv, InCurveMode, Collect
  <1>5. ReportIsFresh'
    BY DEF IInv, ReportIsFresh, OnRecord, Collect
  <1>6. SampleIsFresh'
    BY DEF IInv, TypeOK, SampleIsFresh, ReportIsFresh, OnRecord, Periodic, Collect,
           TelemetryFrom, Absent, Unread, NoRecord
  <1> QED
    BY <1>1, <1>2, <1>3, <1>4, <1>5, <1>6 DEF IInv

\* verify_curves: the pass drops records, it makes none.
LEMMA ReconcileHolds ==
  ASSUME IInv, Reconcile
  PROVE  IInv'
  <1>1. TypeOK'
    BY DEF IInv, TypeOK, Reconcile, VerifyCurves, Forget, NoRecord
  <1>2. PathsAreFresh'
    BY DEF IInv, TypeOK, PathsAreFresh, Reconcile, VerifyCurves, Forget
  <1>3. RecordHasPath'
    BY DEF IInv, RecordHasPath, Reconcile, VerifyCurves, Forget, NoRecord
  <1>4. InCurveMode'
    BY DEF IInv, InCurveMode, Reconcile, VerifyCurves, Forget, NoRecord
  <1>5. ReportIsFresh'
    BY DEF IInv, ReportIsFresh, OnRecord, Reconcile, VerifyCurves, Forget, NoRecord
  <1>6. SampleIsFresh'
    BY DEF IInv, SampleIsFresh, OnRecord, Reconcile, VerifyCurves, Forget, NoRecord
  <1> QED
    BY <1>1, <1>2, <1>3, <1>4, <1>5, <1>6 DEF IInv

\* The device reports, leaves or comes back.
LEMMA DeviceHolds ==
  ASSUME IInv, Report \/ Unplug \/ Plug
  PROVE  IInv'
  <1>1. CASE Report
    <2>1. /\ device' \in [Channel -> Device]
          /\ \A c \in Channel : /\ device'[c].mode = device[c].mode /\ device'[c].loaded = device[c].loaded
                               /\ path # 0 => device'[c].reported \in Running(device[c])
      <3>1. PICK d \in [Channel -> Duty] :
              /\ \A c \in Channel : d[c] \in Running(device[c])
              /\ device' = IF path = 0 THEN device
                           ELSE [c \in Channel |-> [device[c] EXCEPT !.reported = d[c]]]
        BY <1>1 DEF Report
      <3>2. CASE path = 0
        BY <3>1, <3>2 DEF IInv, TypeOK, Device
      <3>3. CASE path # 0
        BY <3>1, <3>3, Reporting DEF IInv
      <3> QED
        BY <3>2, <3>3
    <2>2. TypeOK'
      BY <1>1, <2>1 DEF IInv, TypeOK, Report, Device
    <2>3. PathsAreFresh'
      BY <1>1 DEF IInv, PathsAreFresh, Report
    <2>4. RecordHasPath'
      BY <1>1 DEF IInv, RecordHasPath, Report
    <2>5. InCurveMode'
      BY <1>1 DEF IInv, InCurveMode, Report
    <2>6. ReportIsFresh'
      BY <1>1 DEF IInv, ReportIsFresh, OnRecord, RecordHasPath, InCurveMode, Report, Running, NoRecord
    <2>7. SampleIsFresh'
      BY <1>1 DEF IInv, SampleIsFresh, OnRecord, Report
    <2> QED
      BY <2>2, <2>3, <2>4, <2>5, <2>6, <2>7 DEF IInv
  <1>2. CASE Unplug
    <2>1. TypeOK'
      BY <1>2 DEF IInv, TypeOK, Unplug, FreshDevice
    <2>2. PathsAreFresh'
      BY <1>2 DEF IInv, PathsAreFresh, Unplug
    <2>3. RecordHasPath'
      BY <1>2 DEF IInv, RecordHasPath, Unplug
    <2>4. InCurveMode'
      BY <1>2 DEF IInv, InCurveMode, RecordHasPath, Unplug, NoRecord
    <2>5. ReportIsFresh'
      BY <1>2 DEF IInv, ReportIsFresh, OnRecord, Unplug, FreshDevice
    <2>6. SampleIsFresh'
      BY <1>2 DEF IInv, SampleIsFresh, OnRecord, Unplug, FreshDevice
    <2> QED
      BY <2>1, <2>2, <2>3, <2>4, <2>5, <2>6 DEF IInv
  <1>3. CASE Plug
    <2>1. TypeOK'
      BY <1>3 DEF IInv, TypeOK, Plug
    <2>2. PathsAreFresh'
      BY <1>3 DEF IInv, TypeOK, PathsAreFresh, Plug
    <2>3. RecordHasPath'
      BY <1>3 DEF IInv, RecordHasPath, Plug
    <2>4. InCurveMode'
      BY <1>3 DEF IInv, TypeOK, InCurveMode, PathsAreFresh, Plug
    <2>5. ReportIsFresh'
      BY <1>3 DEF IInv, TypeOK, ReportIsFresh, OnRecord, PathsAreFresh, Plug
    <2>6. SampleIsFresh'
      BY <1>3 DEF IInv, TypeOK, SampleIsFresh, OnRecord, PathsAreFresh, Plug
    <2> QED
      BY <2>1, <2>2, <2>3, <2>4, <2>5, <2>6 DEF IInv
  <1> QED
    BY <1>1, <1>2, <1>3

\* A second passes.
LEMMA SecondHolds ==
  ASSUME IInv, Second
  PROVE  IInv'
  <1>1. TypeOK'
    BY DEF IInv, TypeOK, Second
  <1>2. PathsAreFresh'
    BY DEF IInv, PathsAreFresh, Second
  <1>3. RecordHasPath'
    BY DEF IInv, RecordHasPath, Second
  <1>4. InCurveMode'
    BY DEF IInv, InCurveMode, Second
  <1>5. ReportIsFresh'
    BY DEF IInv, TypeOK, ReportIsFresh, OnRecord, Periodic, Second
  <1>6. SampleIsFresh'
    BY DEF IInv, TypeOK, SampleIsFresh, OnRecord, Periodic, Second
  <1> QED
    BY <1>1, <1>2, <1>3, <1>4, <1>5, <1>6 DEF IInv

\* Nothing happens.
LEMMA StutterHolds == IInv /\ UNCHANGED vars => IInv'
  BY DEF IInv, TypeOK, PathsAreFresh, RecordHasPath, InCurveMode, ReportIsFresh, SampleIsFresh, OnRecord, vars

\* The invariant of a record, the report and the sample it is compared with: each is
\* as fresh as the age of the record says.
THEOREM Inductive == Spec => []IInv
  <1>1. IInv /\ [Next]_vars => IInv'
    BY TransactionHolds, CollectHolds, ReconcileHolds, DeviceHolds, SecondHolds, StutterHolds DEF Next
  <1> QED
    BY InitHolds, <1>1, PTL DEF Spec

\* Types of the executor's record, the two cached paths and the sample.
THEOREM TypesHold == Spec => []TypeOK
  BY Inductive, PTL DEF IInv

\* verify_curves takes a curve from the record only when the device runs another one,
\* although the report and the sample may both be older than the commit.
THEOREM AccusationHolds ==
  ASSUME SettlesLongEnough
  PROVE  Spec => NoFalseDivergence
  <1>1. ASSUME IInv, Next, NEW c \in Channel, committed[c] # None, committed'[c] = None,
               sample.present, control = path, writing = None
        PROVE  device[c].loaded # committed[c]
    <2>1. Reconcile
      BY <1>1 DEF Next, IInv, TypeOK, StartTransaction, FinishTransaction, FailTransaction, Collect, Report,
                  Unplug, Plug, Second, RecordHasPath, NoRecord
    <2>2. c \in Diverged
      BY <1>1, <2>1 DEF Reconcile, VerifyCurves
    <2>3. sample.channels[c].duty \notin Window[committed[c]] \cup {None} /\ age[c] >= 3
      <3>1. age[c] \in Nat /\ CurveSettle \in Nat
        BY <1>1 DEF IInv, TypeOK
      <3> QED
        BY <2>2, <3>1, SettlesLongEnough DEF Diverged, Settled, SettlesLongEnough
    <2>4. ~OnRecord(c)
      BY <1>1, <2>3 DEF IInv, SampleIsFresh
    <2> QED
      BY <1>1, <2>4 DEF OnRecord
  <1>2. IInv /\ [Next]_vars =>
            [\A c \in Channel :
                (committed[c] # None /\ committed'[c] = None /\ sample.present
                   /\ control = path /\ writing = None) => device[c].loaded # committed[c]]_vars
    BY <1>1 DEF vars
  <1> QED
    BY Inductive, <1>2, PTL DEF Spec, NoFalseDivergence
=============================================================================
