---------------------------- MODULE KrakenHwmon ----------------------------
(***************************************************************************)
(* The thermal path as the daemon sees it: the hwmon directory of the      *)
(* bound kraken2023 driver and the firmware behind it.  The driver itself  *)
(* is not in the repository; its behaviour is what                         *)
(* crates/hardware-linux/src/control.rs relies on:                         *)
(*   - pwmN is stored by the driver and takes effect in direct mode;       *)
(*   - pwmN_enable selects full speed, direct PWM or the onboard curve;    *)
(*     switching to curve mode transfers the whole point array;            *)
(*   - a point written outside curve mode only updates the driver's array, *)
(*     a point written in curve mode transfers the array at once;          *)
(*   - the points are write-only, the duty read from pwmN is the one the   *)
(*     firmware reports.                                                   *)
(***************************************************************************)
EXTENDS Integers

CONSTANTS
    Duty,       \* the duty values in play (a set of naturals)
    Curve,      \* complete forty-point curves
    Window,     \* Window[k]: the duties accepts_duty takes for curve k
    MinDuty,    \* MinDuty[c]: the floor of channel c (51 for the pump)
    FullSpeed,  \* the duty the firmware reports at full speed
    Torn,       \* a point array that holds no complete curve
    Factory,    \* the program of the firmware when no curve was transferred
    None,       \* an unreadable attribute, an empty Option
    Faults      \* which misbehaviours of the environment a model includes

Channel == {"pump", "fan"}

Mode == {"full", "fixed", "curve"}

(* What the environment may do to a transaction.                           *)
(*   fail    a write returns an error, with or without having landed       *)
(*   ignore  a duty or mode write returns success and changes nothing      *)
(*   discard the firmware drops a transferred curve                        *)
(*   lag     pwmN keeps the previous report for a while after a write      *)
(*   drift   another program changes a channel                             *)
(*   unplug  the device leaves the bus, and may come back                  *)
(*   crash   the daemon dies and is started again                          *)
FaultKinds == {"fail", "ignore", "discard", "lag", "drift", "unplug", "crash"}

ASSUME DutyAssumption ==
    /\ Duty \subseteq Nat
    /\ FullSpeed \in Duty
    /\ MinDuty \in [Channel -> Duty]
    /\ Window \in [Curve -> SUBSET Duty]
    /\ Curve \cap {Torn, Factory, None} = {}
    /\ Torn # Factory
    /\ None \notin Duty
    /\ None \notin Mode
    /\ \A k \in Curve : Window[k] # {}

ASSUME FaultsAssumption == Faults \subseteq FaultKinds

ChannelState ==
    [mode: Mode, stored: Duty, points: Curve \cup {Torn},
     loaded: Curve \cup {Torn, Factory}, reported: Duty]

\* A freshly bound driver: full speed, a blank point array.
FreshChannel ==
    [mode |-> "full", stored |-> FullSpeed, points |-> Torn,
     loaded |-> Factory, reported |-> FullSpeed]

-----------------------------------------------------------------------------
(* Attribute writes, as the set of states they may leave.                  *)

\* What pwmN reads after the channel was told to run duty d.
Echo(r, d) == {d} \cup (IF "lag" \in Faults THEN {r.reported} ELSE {})

StoreDuty(r, d) ==
    IF r.mode = "fixed"
    THEN {[r EXCEPT !.stored = d, !.reported = e] : e \in Echo(r, d)}
    ELSE {[r EXCEPT !.stored = d]}

\* Hand the point array to the firmware.
Transferred(r) ==
    {[r EXCEPT !.loaded = r.points]}
        \cup (IF "discard" \in Faults THEN {r} ELSE {})

StoreMode(r, m) ==
    CASE m = "fixed" -> {[r EXCEPT !.mode = m, !.reported = e] : e \in Echo(r, r.stored)}
      [] m = "full"  -> {[r EXCEPT !.mode = m, !.reported = e] : e \in Echo(r, FullSpeed)}
      [] m = "curve" -> Transferred([r EXCEPT !.mode = m])

\* Point writes: the array becomes p, the complete curve or a torn one.
StorePoints(r, p) ==
    IF r.mode = "curve" THEN Transferred([r EXCEPT !.points = p])
                        ELSE {[r EXCEPT !.points = p]}

\* A write the device acknowledged without taking it.
OrIgnored(r, outcomes) ==
    outcomes \cup (IF "ignore" \in Faults THEN {r} ELSE {})

-----------------------------------------------------------------------------
(* What a channel does.                                                    *)

\* The program the driver was given: what a commit record is about.
Programmed(r) ==
    CASE r.mode = "full"  -> <<"full", None>>
      [] r.mode = "fixed" -> <<"fixed", r.stored>>
      [] r.mode = "curve" -> <<"curve", r.points>>

\* The duties the firmware may report while it runs the channel.
Running(r) ==
    CASE r.mode = "full"  -> {FullSpeed}
      [] r.mode = "fixed" -> {r.stored}
      [] r.mode = "curve" -> IF r.loaded \in Curve THEN Window[r.loaded] ELSE Duty
=============================================================================
