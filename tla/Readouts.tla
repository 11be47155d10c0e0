------------------------------ MODULE Readouts ------------------------------
(***************************************************************************)
(* From a sensor to the characters on the screen: the collectors and the   *)
(* state they publish into (crates/daemon/src/telemetry.rs), the streak    *)
(* behind the stall alert (crates/core/src/telemetry/alerts.rs), and the   *)
(* client's book of ageing values and bounded series                       *)
(* (crates/core/src/telemetry/view.rs, crates/app/src/metrics.rs).         *)
(*                                                                         *)
(* Time is counted in sampling intervals.  A value is the pass it came     *)
(* from; samples are stamped with the wall clock, which may be stepped.    *)
(***************************************************************************)
EXTENDS Naturals, Sequences, FiniteSets

CONSTANTS
    Section,    \* the collectors; "kraken" is the one with alerts
    StaleAfter, \* the age a value is shown as stale from
    DropAfter,  \* the age it is not shown from
    Window,     \* how long a series is kept
    StallCount, \* zero readings that make an alert
    MaxTime,    \* how long a behaviour lasts
    Sensors     \* which misbehaviours a model includes

(* gap     a source cannot be read                                         *)
(* absent  a pass finds no device                                          *)
(* clock   the wall clock is stepped back                                  *)
ASSUME ReadoutsAssumption ==
    /\ "kraken" \in Section
    /\ StaleAfter \in Nat /\ DropAfter \in Nat /\ StaleAfter < DropAfter
    /\ Window \in Nat \ {0} /\ StallCount \in Nat \ {0} /\ MaxTime \in Nat
    /\ Sensors \subseteq {"gap", "absent", "clock"}

VARIABLES
    elapsed,    \* intervals since the start
    wall,       \* the wall clock
    log,        \* every pass of each collector: its stamp, when it was, what it read
    shown,      \* SamplerState: the section each collector published last
    streak,     \* AlertTracker: zero readings in a row
    alert,      \* is the stall alert published
    tracked,    \* Tracked: the last valid value of each section and its stamp
    series,     \* History
    newest      \* the stamp each section's series was last advanced to

readoutsVars == <<elapsed, wall, log, shown, streak, alert, tracked, series, newest>>
book == <<tracked, series, newest>>

\* The other sections matter only for their stamps.
Readings(s) ==
    IF s # "kraken" THEN {"turns"}
    ELSE {"turns", "zero"} \cup (Sensors \cap {"gap", "absent"})
Nothing == [value |-> 0, at |-> 0]
Epoch == 1

ReadoutsInit ==
    /\ elapsed = 0 /\ wall = Epoch
    /\ log = [s \in Section |-> <<>>]
    /\ shown = [s \in Section |-> [at |-> Epoch, value |-> 0]]
    /\ streak = 0 /\ alert = FALSE
    /\ tracked = [s \in Section |-> Nothing]
    /\ series = [s \in Section |-> <<>>] /\ newest = [s \in Section |-> 0]

-----------------------------------------------------------------------------
(* The collectors.                                                         *)

Ready(s) == \A n \in 1..Len(log[s]) : log[s][n].when < elapsed

\* Mutant: a sample that could not be read ends the streak.
StreakBroken(reading) == IF reading = "zero" THEN streak + 1 ELSE 0

\* AlertTracker::observe, one channel that is told to turn.
Streak(reading) ==
    CASE reading = "zero" -> streak + 1
      [] reading = "gap" -> streak
      [] reading = "turns" -> 0

\* One pass of a collector that ends: outside the lock, then published under it.  A
\* pass that hangs or panics (catch_unwind) publishes nothing and leaves the section.
Pass(s, reading) ==
    LET entry == [at |-> wall, when |-> elapsed, read |-> reading]
        valid == reading \in {"turns", "zero"}
    IN  /\ Ready(s)
        /\ log' = [log EXCEPT ![s] = Append(@, entry)]
        /\ shown' = [shown EXCEPT ![s] =
                        [at |-> wall, value |-> IF valid THEN Len(log[s]) + 1 ELSE 0]]
        /\ streak' = IF s = "kraken" /\ reading # "absent" THEN Streak(reading) ELSE streak
        /\ alert' = IF s = "kraken" THEN reading = "zero" /\ streak' >= StallCount ELSE alert
        /\ UNCHANGED <<elapsed, wall, book>>

-----------------------------------------------------------------------------
(* The client's book.                                                      *)

\* advanced: did the section's own stamp move.
Advanced(s) == shown[s].at > newest[s]

\* Mutant: the value is as old as the poll that brought it.
StampedByPoll(s) == wall

Stamp(s) == shown[s].at

\* Tracked::observe: a sample older than the one held is ignored, a gap holds it.
Held(s) ==
    IF shown[s].value = 0 \/ Stamp(s) < tracked[s].at THEN tracked[s]
    ELSE [value |-> shown[s].value, at |-> Stamp(s)]

\* History::push: never backwards, and nothing older than the window.
Pushed(s) ==
    LET point == [at |-> shown[s].at, value |-> shown[s].value]
        last == series[s][Len(series[s])]
        line == Append(series[s], point)
        recent == {n \in DOMAIN line : line[n].at + Window >= point.at}
        first == CHOOSE n \in recent : \A m \in recent : n <= m
    IN  IF series[s] # <<>> /\ point.at < last.at THEN series[s]
        ELSE SubSeq(line, first, Len(line))

\* MetricBook::observe, each section by its own stamp.
Observe ==
    /\ tracked' = [s \in Section |-> Held(s)]
    /\ series' = [s \in Section |-> IF Advanced(s) THEN Pushed(s) ELSE series[s]]
    /\ newest' = [s \in Section |-> IF Advanced(s) THEN shown[s].at ELSE newest[s]]
    /\ UNCHANGED <<elapsed, wall, log, shown, streak, alert>>

Age(s) == IF wall >= tracked[s].at THEN wall - tracked[s].at ELSE 0

\* Tracked::view.
View(s) ==
    CASE tracked[s].value = 0 \/ Age(s) >= DropAfter -> "unavailable"
      [] tracked[s].value # 0 /\ Age(s) < StaleAfter -> "fresh"
      [] OTHER -> "stale"

-----------------------------------------------------------------------------
(* Time.                                                                   *)

Tick ==
    /\ elapsed < MaxTime
    /\ elapsed' = elapsed + 1 /\ wall' = wall + 1
    /\ UNCHANGED <<log, shown, streak, alert, book>>

\* Bound: the clock goes back once, to where it began.
StepClock ==
    /\ "clock" \in Sensors /\ wall = Epoch + elapsed /\ elapsed > 0
    /\ wall' = Epoch
    /\ UNCHANGED <<elapsed, log, shown, streak, alert, book>>

ReadoutsNext ==
    \/ \E s \in Section : \E reading \in Readings(s) : Pass(s, reading)
    \/ Observe \/ Tick \/ StepClock

ReadoutsSpec == ReadoutsInit /\ [][ReadoutsNext]_readoutsVars

-----------------------------------------------------------------------------
ReadoutsTypeOK ==
    /\ elapsed \in 0..MaxTime /\ wall \in Nat
    /\ \A s \in Section :
        /\ shown[s].value \in 0..Len(log[s]) /\ tracked[s].value \in 0..Len(log[s])
        /\ Len(series[s]) <= Window + 1 /\ newest[s] \in Nat
    /\ streak \in Nat /\ alert \in BOOLEAN

\* What is shown as current was read less than two intervals ago, whichever collector
\* wedged or panicked and however often the client polls (Tracked::view; the stamp is
\* the section's own, not the poll's and not another section's), while the clock has
\* kept time; a stepped clock breaks it, see FrozenIsMarked.
ClockKeptTime ==
    /\ wall = Epoch + elapsed
    /\ \A s \in Section : \A n \in 1..Len(log[s]) : log[s][n].at = Epoch + log[s][n].when

FreshIsRecent ==
    ClockKeptTime =>
        \A s \in Section :
            View(s) = "fresh" => elapsed - log[s][tracked[s].value].when < StaleAfter

\* A series is in the order of its stamps, one point per pass, none past the window,
\* and a point is a gap exactly where the pass was (History, MetricBook::observe).
SeriesIsFaithful ==
    \A s \in Section : \A i \in 1..Len(series[s]) :
        LET point == series[s][i]
            last == series[s][Len(series[s])]
        IN  /\ i > 1 => series[s][i - 1].at < point.at
            /\ point.at + Window >= last.at
            /\ \/ \E n \in 1..Len(log[s]) :
                    /\ log[s][n].at = point.at
                    /\ point.value = IF log[s][n].read \in {"gap", "absent"} THEN 0 ELSE n
               \/ point = [at |-> Epoch, value |-> 0]

\* The alert is out exactly when the last pass read a zero and so did the ones before
\* it, as many as it takes, those that read nothing left aside (AlertTracker, "neither
\* advanced nor cleared").
AlertIsEarned ==
    LET passes == log["kraken"]
        zeros == {n \in 1..Len(passes) :
                    passes[n].read = "zero" /\ \A k \in n..Len(passes) : passes[k].read # "turns"}
        latest == passes # <<>> /\ passes[Len(passes)].read = "zero"
    IN  alert <=> latest /\ Cardinality(zeros) >= StallCount

\* What view.rs says of a clock that steps: "a frozen readout that never says Stale is
\* exactly the reading this module refuses to show".
FrozenIsMarked ==
    \A s \in Section :
        View(s) = "fresh" => elapsed - log[s][tracked[s].value].when < StaleAfter

\* What the alert says: the channel it is about gave this many zero readings in a row;
\* passes that found no device in between belong to another life of the channel.
AlertIsOfThisDevice ==
    LET passes == log["kraken"] IN
    alert => \A n \in 1..Len(passes) :
                passes[n].read = "absent" =>
                    \E i, j, k \in (n + 1)..Len(passes) : i < j /\ j < k

\* What is drawn as live is recent, and what is drawn as a history is one.
ReadoutsAreHonest == ReadoutsTypeOK /\ FreshIsRecent /\ SeriesIsFaithful
=============================================================================
