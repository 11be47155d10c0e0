# Kori in TLA+

Kori drives an NZXT Kraken cooler, its LCD and an NZXT RGB controller on Linux.
One daemon, `korid`, is the only writer of the hardware; clients talk to it over
a Unix socket. This directory specifies both: what the daemon writes to the
devices, what it records of that and saves, and what it does when a write fails,
a device leaves, a readback is late, a save is interrupted or the process dies;
what the client shows of it while requests are slow, lost or answered late; and
the algorithms both are built on. Paths below are relative to `src/crates/`.

## Inventory

| Part | State it keeps | Operations | What is hard | What makes it correct |
|---|---|---|---|---|
| Cooling executor, `daemon/src/cooling.rs`, over `hardware-linux/src/control.rs` | cached hwmon path, committed target per channel, stamp of the last write | `apply`, `abort`, `forget`, `verify_curves` | 82 attribute writes per transaction, each may fail; points are write-only; rollback | the record never lies; a rollback reported as such is exact; a confirmation is what the device was given |
| Telemetry sampler, `daemon/src/telemetry.rs` | cached path of the collector, the latest sections, failures | one thread per collector | samples older than the commit they are compared with; panics | a curve that runs is not called divergent; a value shown is as fresh as it claims |
| Reconciliation, `daemon/src/state.rs` `reconcile` | none of its own | forget, verify curves, once a second | races with transactions, unplug, replug | a discarded curve is noticed; a device that stays away is forgotten |
| Configuration store, `daemon/src/config.rs`, `config/document.rs` | the document in memory and on disk | load, nine changes, atomic save | crash between the steps of a save; untrusted file | always loadable; nothing saved is lost; memory is what is on disk |
| Profiles and validation, `core/src/profile.rs`, `profile/curve.rs` | the document's profiles and active name | validation, gates, interpolation | protocol sequences, boundaries | the active name always has a profile; the curve drawn is the curve sent |
| Daemon, `daemon/src/state.rs` | the session, the executors, the access mode | start, apply, activate, save, delete | a write refused after the selection was persisted; crash between write and record | a start restores what ran |
| Lighting executor and controller link, `daemon/src/lighting.rs`, `hardware-linux/src/rgb.rs` | committed program and stamp per channel | `apply` | no acknowledgement, no readback | a record is what the controller was last told; the floor holds |
| Display executor and ticker, `daemon/src/display.rs`, `daemon/src/server.rs` | committed picture, brightness, fault, animation cursor | `apply`, `refresh`, `advance_animation`, `forget` | one thread with two cadences; a frame may land and still fail | the committed picture is on the panel; a refusal ends the stream; a late animation catches its schedule |
| Panel link, `hardware-linux/src/lcd.rs`, `hid.rs`, `usbfs.rs` | descriptor, claim, what is asked | open, claim, inspect, transfer | a queue shared with a kernel driver; lost and late answers | an acknowledged frame is on the panel; waiting ends |
| Server and startup, `daemon/src/server.rs`, `main.rs`, `ownership.rs`, `startup.rs` | state mutex, shutdown flag, locks, socket | accept, greet, handle, stop | panics, signals, two daemons, a probe | one writer; a stop cuts no write and ends |
| Client feed, `app/src/feed.rs`, `core/src/client.rs` | the connection, the queue, the outcome slot, the snapshot | commands, poll, publish, reconnect | a five-second limit on answers that carry no name | a status is the answer to a status request; an outage ends |
| Screens, `app/src/shell.rs`, `shell/screen/*`, `cooling.rs`, `lighting.rs`, `display/` | editors, schedule of writes, program in flight | edits, debounce, adoption, drag, timers | an edit while a write is in flight; timers of pictures that are gone | no edit is lost or credited with another's outcome |
| Gates, `hardware-linux/src/gates.rs`, `probe.rs`, `core/src/capability.rs`, `app/src/link/gate.rs` | none | verdicts | two ladders of evidence, four places that decide | daemon and client agree; nothing unvalidated is writable |
| Write probes, `daemon/src/rgb_probe.rs`, `lcd_probe.rs`, `probe.rs` | the run | phrase, steps, cadence, restoration | failures on the way, an operator who leaves | a probe claims no more than it did |
| Diagnostics, `core/src/diagnostics.rs` | bounded log, registered secrets | record, export | secrets inside secrets, capacity | the log says what happened and no serial |
| Alerts and views, `core/src/telemetry/*`, `app/src/metrics.rs` | zero streak, book of values, series | observe, age, drop | clocks that step, gaps | a stall is told when it was seen, a stale value is not shown as fresh |
| Sensors, `hardware-linux/src/{sysfs,gpu,system,discovery}*` | the previous counters | read | counters that run backwards, files that vanish | a load is what the kernel counted |
| Renderer and components, `lcd-renderer`, `app/src/components` | caches | drawing, hit-testing | rounding, oblong panels | what is drawn is where a pointer finds it |
| Packaging | | scripts | | |

A client request takes the daemon's mutex, changes the configuration, calls one
executor per slot (lighting, display, program) and records what was confirmed.
The ticker thread takes the same mutex to step an animation, reconcile and
redraw. The collectors run beside both without that mutex and share only the
published sample. In the client a worker thread owns the connection; the window
queues commands for it and takes outcomes and snapshots from it.
`PROJECT.json` lists every part, the hazards at their lines and which property
answers which.

## Modules

The daemon and its devices:

| Module | Models | State and actions |
|---|---|---|
| `KrakenHwmon` | hwmon attributes of the Kraken driver, and the firmware behind them | pure: outcomes of one attribute write as sets of channel states. External: derived from what `control.rs` and its comments rely on |
| `Cooling` | the executor and the attribute writer | `dev`, `path`: the device; `control`, `committed`, `age`, `elapsed`: `CoolingExecutor`; `phase`, `at`, `step`, `snap`, `good`: where a transaction is. Every attribute write is a step (`WriteAttribute`, `SkipAttribute`, `WriteFails`); `ReadBack` and `CheckRestored` end a channel; `Drift` is another program |
| `Reconciliation` | collector thread, ticker, executor record | `eyes`/`control`: two cached paths; `sample`: published section; `due`: what a second still owes. A curve transaction is two steps, because the collector reads between them |
| `Profiles` | the document algebra of `config.rs` and `profile.rs` | pure operators |
| `DocumentStore` | abstract specification of the configuration store | `saved`, `held`, `up`; `Open`, `Change`, `Die` |
| `Configuration` | the store step by step | the file, its durable version, the temporary file; `CreateTemporary`, `WriteTemporary`, `Rename`; `Crash`, `PowerLoss`. Refines `DocumentStore` through `Store` |
| `Daemon` | requests, the session record, restart | `wanted`/`pending`/`noting`: the handler under way, one executor write per step; composed over `DocumentStore` |
| `Lighting` | lighting executor and the controller | `committed`, stamps; a send that fails with or without landing (`LightingFaults`) |
| `Display` | display executor, ticker loop, panel | committed picture, brightness, fault, animation; `Wake` is one pass of the ticker. `Begin` is when each frame of a clip begins and `At(n)` when the n-th of its endless loop does |
| `DeviceLink` | hidraw node, bulk interface, the questions a link opens with, one frame after another | `pc`, the descriptor's queue, the claim, what is asked and in how many reads; `Open`, `Claim`, `Ask`, `Collect`, `Resolve` connect; `SendFrame`, `WriteCommand`, `AwaitAck`, `WritePixels` transfer; `Respond`, `StatusReport`, `Unplug` |
| `Service` | the process and its threads | `main`, `ticker`, `handler` per daemon, `mutex` with its poison, socket, flock holders; `Startup`, `Accept`, `Lock`, `Handled`, `Panic`, `Teardown`, `Drain`, `Kill`; two daemons, a probe and a foreign holder of the device |
| `Gates` | from files and answers to what may be written | a machine is a record; `ControlsAgree`, `OpenIsConnected` and `AnswersAreHeard` compare the ladders with the daemon's and the client's decision |
| `Probes` | the two write probes | stage, queue of reports, cadence, what each channel may show |
| `Journal` | log, severities, redaction | entries, registered secrets; texts are short sequences of letters |
| `Machine` | attribute files with causes, kernel counters, memory, chips, GPU | the baseline of the load is its only state |

The client:

| Module | Models | State and actions |
|---|---|---|
| `Feed` | worker thread, connection, the daemon as a client sees it | `WorkerStep` runs a queued command or one stage of a poll; `Serve` answers in order; `ServeOrphan` ends a request whose client went away; limits and lost connections |
| `Client` | the window on top of `Feed` | editors, the schedule, the program in flight; `Edit`, `TimerFires`, `Passes`, `Refresh`, `Release`. A day names the habits of the operator and the weather of the connection |
| `Curves` | duties, nodes, interpolation, validation | pure |
| `Editor` | the cooling editor | the program drawn, the drag under way, adoption |
| `Readouts` | collectors, stall tracker, the client's book and series | `Pass`, `Look`, clock steps |
| `Lights` | the lighting rows down to the bytes of a report | rows, what is committed, what a strip shows |
| `Preview` | the panel's row: preset, film, timers | one action per entry; `FilmTimerFires` |
| `Window` | destination, list, rows, gesture, profile buttons | one action per input; the news the link brings |
| `Renderer`, `Drawing` | gauges, lines, cover, turn, limits, bytes of a frame; what they are meant to be | pure |
| `Plot` | charts, curve plot, slider | pure |

Theorems are in eight modules:

| Module | Proves about |
|---|---|
| `CoolingProofs`, `ReconciliationProofs`, `ServiceProofs` | the module each is named after |
| `ConfigurationProofs` | `Configuration`, its refinement of `DocumentStore`, and the changes of `Profiles` |
| `ExecutorProofs` | the executors without a readback, `Display` and `Lighting`, and `Probes`, which drives the same devices |
| `DaemonProofs` | `Daemon`, and what a command to it is made of: `Editor`, `Lights`, `Curves`, `Gates` |
| `DeviceLinkProofs` | `DeviceLink`, and `Machine`'s load |
| `ClientProofs` | `Client` over `Feed`, and the sequential parts of the interface, `Window`, `Readouts`, `Preview` |

The parts of one proof module share no state; they share lemmas and a reader.
The `MC*` modules give TLC its constants, and `MCVocabulary` puts the sequential
parts side by side.

How they compose. `Daemon` and `Configuration` meet in `DocumentStore`:
`Configuration` is shown to implement it, `Daemon` is built on it, so its steps
take a save as one step. `Client` extends `Feed`: their run is the window, the
worker, the connection and the daemon's handlers together. `Cooling` and
`Reconciliation` describe the same executor at two grains: reconciliation cannot
run inside a transaction, both being under the mutex, so the collector's
asynchrony and the attribute writes need not be multiplied. `DeviceLink` is the
transfer that `Display` takes as one step, failing with or without landing;
`Service` is the threads that `Daemon`, `Display` and the executors take as
given. `Lights`, `Preview` and `Editor` are what an edit is that `Client` counts.

Abstractions. A duty is one of a few values, a curve a model value with the set
of duties (`Window` of `Cooling`) that `accepts_duty` takes for it; the forty
point writes are one step to a torn array and one that completes it. `Curves`
has the real arrays, on a small grid for `Editor` and at full size (255, 40
points, nine nodes) for the algorithms. A picture is what a preset and a sample
make of it; `Renderer` has its geometry in integers, without the soft edge of a
stroke, and the limits of a file as counts. Time is ticks; the constants that
count milliseconds are small numbers of ticks. A deadline of the links is a
nondeterministic choice between an answer in time and none. Diagnostics are left
out of the modules of the daemon and are `Journal`'s.

## Runs

| Run | Bounds | Shows |
|---|---|---|
| `CoolingFaults` | two machines under the same invariants: one with duties {20, 60}, one curve, every valid program, any write failing or acknowledged without effect; one where requests are all the same and another program changes a channel between any two steps | `RecordIsTrue`, `RollbackIsExact`, `ConfirmedIsApplied` in every interleaving of two and more transactions |
| `CoolingRestart` | two curves, unplug, replug under a new instance, crash at any write, discarded curves | `NoHalfCurve`: no torn array runs |
| `Reconciliation` | one channel, two curves with disjoint windows, settle 3 s, one replug | `NoFalseDivergence`, and under fairness `DiscardIsNoticed`, `AbsenceIsForgotten` |
| `Configuration` | a profile name beside the built-in one, one value; three machines: failing writes and power losses (two stops), unreadable file, failing preserve and write (one stop), failing directory sync | `LoadableAfterCrash`, `NothingIsLost` (memory is the disk, a save that was answered survives, an unusable file is kept), `ImplementsStore` |
| `Daemon` | one name, two values, two profiles, any gates, failing saves, one restart | `RestoredAsLeft`, `SessionIsWhatRan`, `AlwaysServes` |
| `Lighting` | two channels, two programs, floor of two ticks, failing sends, one replug, restart | `RecordIsTrue`, `FloorHolds` |
| `Display` | every kind of preset, two brightnesses, refused transfers that may land, an animation of two frames, late passes, an image that cannot be read, one replug | `PanelIsKnown`, `RefusalEndsStream`, `KeepsTime` (the schedule of the file, no queued passes) |
| `Client` | two curves and a duty, two presets, two edits, one fault; habits of the operator and weather of the connection as separate days | `OneAtATime` (one cooling write in flight, a status answers a status request), `ScreenIsHonest` (while nothing is activated or reverted and writes are at worst refused, a quiet screen that does not say "Saving" shows the curve on the cooler), `WritesEnd` (what is due is written, a cooling write is answered), `RecoveryIsShown` |
| `ClientLands` | one day of panel edits, three of them | counterexample to `EditLands`: see below |
| `Service` | two daemons, a probe, a foreign holder, one client; panics, signals, kills | `OneService` (a bound socket is reachable, one writer per device), `StopFinishesWrites`, `EveryoneLeaves` (a stop ends, a request ends) |
| `DeviceLink` | two pictures, two frames, reads and queue capped as named, lost answers, refusals, one unplug | `LinkIsWhole`, `FrameIsShown`, `FramesRunTheirCourse` |
| `Vocabulary` | 24 parts, each from its own initial states: see below | twelve properties |

The parts of `Vocabulary` do not interact: a behaviour belongs to one of them
and leaves the others where they begin, which costs the sum of their states and
not the product. Eight are state machines (`Editor`: `EditorIsSound`,
`EditorKeepsTheGrid`; `Readouts`: `AlertIsEarned` and a part of
`WhatIsToldIsTrue`, which `Machine` and `Journal` complete; `Lights`:
`RowsAreTold`; `Preview`: `PreviewIsAlive`, `FilmKeepsPace`; `Probes`:
`ProbesAreHonest`; `Window`: `WindowIsSound`). The others take one sample from a
set and compare an algorithm with what it is meant to compute
(`AlgorithmsAgree`, `PanelIsDrawn`, `GatesAgree`), at the size the code uses: all
101 percents, nodes whose heights follow every triple of five values, so that every segment has every pair of ends,
every button the dial accepts, every machine of the set `Gates` describes.
Deadlock is not checked there because a sample, a probe and a bounded operator
are done at some point. It is not checked in `Service` and `DeviceLink`, where
the daemons leave and the device stays away. Everywhere else it is.

Why the bounds are enough: a transaction relates a channel to its own previous
program and to the other channel, so two duties, two curves and two channels
give every relation of equal and different; the properties look at most one
restart or one replug back, and a rebind never reuses a path, so a second one
repeats the first. `MaxTime` of `Display` spans two telemetry intervals and more
than one turn of the clip. An edit of the client meets at most one write in
flight and one that is due, so a second edit is what there is to lose; a late
answer is misread by the next request only, and one fault makes one. A queue of
the panel's link that holds four reports, and reads that end after five, are
each smaller than what can arrive, so both limits are reached. In `Readouts`
the caps `StaleAfter`, `DropAfter`, `Window` and `StallCount` are all crossed in
`MaxTime` passes.

Fairness. `Reconciliation`: the collector, the ticker and the clock keep going
(each is a loop with a bounded sleep), the firmware keeps reporting, and a
transaction that has started ends, since every attribute write returns.
Requests, unplug and replug are not fair. `Daemon`: a handler that has started
runs to its end; requests, starts and crashes are not fair. `Client`: the worker
runs what is queued and polls, the daemon answers and samples, a service that is
down is started again, a timer that is armed fires, the window refreshes when it
is told to, and a button that is held is released; edits and faults are not
fair, and faults are bounded. `DeviceLink`: the thread that opens or sends runs
on, and the device answers what it heard unless it lost it. `Service`: each
thread runs; the mutex is strongly fair to those who wait (`Lock`, `TickerPass`,
`Drain`), as the futex of `std::sync::Mutex` is for the few threads there are,
each of which holds it for a bounded time and sleeps or waits between; signals,
kills, panics and new requests are not fair. `Display`, `Cooling`, `Lighting`,
`Configuration` and `Vocabulary` state safety only.

## Proofs

`CoolingProofs` proves for any duties, curves, windows, floors, intervals and
request sets, and for every combination of faults without `"lag"`:

- `TypesHold`: `TypeOK`;
- `RecordNeverLies`: `RecordIsTrue`;
- `RollbackRestores`: `RollbackIsExact`;
- `ConfirmationHolds`: `ConfirmedIsApplied`;

all from `Inductive`, that `IInv` is an invariant. The properties are about
moments with no transaction under way and say nothing about its middle, so they
are not inductive. `IInv` adds what holds inside: `Echoed`, what `pwmN` reads is
what the driver holds; `StepFits` and `PointsStaged`, which attributes are
already written at each step; `RecordHolds`, a record outlives the transaction
only for channels not being changed; `SnapshotHolds`, the snapshot tells the
program from before; `PumpRestored` and `DoneApplied`, the channel that is
already finished is as it was, or as asked. `Inductive` has a lemma per action.

The assumption `"lag" \notin Faults` is needed, not a convenience: with it the
property fails (see `RollbackIsExact` below).

`ExecutorProofs` proves of `Lighting`, for any channels, programs and floor and every
combination of faults, `RecordNeverLies` (`RecordIsTrue`), `FloorAlwaysHolds`
(`FloorHolds`) and `TypesHold` (`LightingTypeOK`). `FloorHolds` is about the reports that
really left, the code's guard about its stamps; `StampIsExact`, which ties the
two, is the strengthening: a failed send is stamped too, a refused one is not.

Of `Display` it proves, for any presets, brightnesses, readings and faults, a
clip of any number of frames and delays, any telemetry interval and passes as
late as they like, `PanelStaysKnown` (`PanelIsKnown`), `RefusalsEndStreams`
(`RefusalEndsStream`) and `TimeIsKept` (`KeepsTime`). `Sound` is kept by every
handler and inside a pass of the ticker: `Shown`, the deduplicated picture is the
one on the glass; `PlaysItsClip`; and `OnTime`, an animation stands on the n-th
picture of its endless loop and is due when the next one begins, so a late
catch-up lands on the frame of the file's own clock and never drifts. `OnGrid`
keeps the ticker on multiples of its interval, and `refused` means `faulted` until
something forgives. `Advanced` skips the frames that are overdue and
chooses the first still due later. `ClipsGoOn` proves that there is always one, and
only one: a picture of the loop begins no earlier than its number (`AtType`), so
some frame is due later, and a set of positions has a least one (`LeastOf`).

Of `Probes`, for any speeds, channels, steps and commands, `ProbesStayHonest`
(`ProbesAreHonest`): `NothingYet`, nothing is sent before the phrase;
`InReach`, nothing goes to a channel the controller did not report;
`RestoredSoFar`, what is left of the queue is the rest of the channels in their
order, and each one passed shows what it was restored to; `MeasuredSoFar`, the
stable interval is the one before the step.

`DaemonProofs` proves, for any names, profiles, values, channels and gates, with
saves that may fail and any number of restarts, `RestartResumes`
(`RestoredAsLeft`), `SessionIsKept` (`SessionIsWhatRan`) and `TypesHold`
(`TypeOK`). Its `IInv` follows a value from the write that was confirmed to the
start that puts it back: `NotingWhatRan`, what is about to be recorded is what
was confirmed; `HeldIsSaved`, memory is the file or the defaults of a start that
could not trust it; `KeptIsSaved`, what was recorded is in both; `LeftIsSaved`, a
daemon that is down left it in the file; `RestoreGoesOn`, a restore without a
failure so far wants it in every slot and has it where it is done; `PendingIsSet`
and `DownIsIdle` hold the handler in bounds. `ChangesKeepDocuments` shows that
every change of `Profiles` keeps a document loadable, so the condition that
`DocumentStore` puts on a change never holds one back in `Daemon`.

`CurvesRunWhole` proves `NoHalfCurve` under `WritesLand`, no fault among `"fail"`,
`"ignore"` and `"lag"`: unplugging, a crash of the daemon and a discarded curve
may fall between any two attribute writes. `WholeInv` strengthens `IInv` with the
reason: points are written only to a channel that was taken out of curve mode
(`LeftCurveMode`), and a transaction that loses the channel or gives up has lost
its path for good, a path being given out once (`LostForGood`, `PathsGivenOut`),
so its restoration, the one step that could switch a half-written array on, writes
to nobody. With `"fail"` the restoration reaches the device and the property does
not hold (below).

It goes on to what a command is made of, and there the parameters are the
device's range, the floors, the grid and the nodes:

- `EditorStaysSound` (`EditorIsSound`) and `EditorStaysOnTheGrid`
  (`EditorKeepsTheGrid`), from `DrawnWithin`, what is drawn is in order and within
  range and floors; `GatePassed`, what is on its way or confirmed passed the gate;
  `HeldCurve`, a gesture moves its node on the curve of the press. That a curve
  is not falling is carried over a whole array by the least node that breaks it
  (`LeastOf`).
- `SettingsSurvive` and `CurvesFollowNodes`, two parts of `AlgorithmsAgree`, for
  any scale with at least as many duties as percents and any nodes. Rounding is
  division: `QuotientIs` and `QuotientGrows` say which number a quotient is and
  that it grows with its dividend, `RoundedLies` that a rounded point is within
  half a byte of its segment.
- `RowsStayTold` (`RowsAreTold`), from `RowsWithin` and `StripsShow`, down to the
  bytes: `BitsTell`, the channel mask names its channels and no other,
  `SpeedsTell`, no two speeds share their bytes, `ReportReads`, the firmware makes
  of a report what was put into it.
- `GatesStayInAgreement`: `GatesAgree` of `Gates` for every machine there can be
  (`IsMachine`), where the run takes a set of samples. `AnswersHeard` counts the
  reads. The proof corrected the model: `program_state` gives the first refusal,
  the pump's before the fan's, and not all of them, so a client shows one of the
  daemon's reasons and not the same set. `Half`, a machine whose pump is writable
  and whose fan is not, makes the difference visible to the run.

`ConfigurationProofs` proves, for any documents and fault sets and any number of
crashes and power losses between two system calls:

- `CrashesLeaveLoadable`: `LoadableAfterCrash`, whatever fails;
- `NothingGetsLost`: `NothingIsLost`, under `SyncsWherePowerFails`;
- `ConfigurationImplementsStore`: `ImplementsStore`, step by step: a start opens
  the store, the rename changes it, a crash closes it, everything else stutters.

`IInv` speaks of two files, the one under the path and the one a power loss would
leave. Both load (`EverythingLoads`); what a start would make of either is owed to
whoever was answered (`StartIsOwed`); the temporary file holds the document of
this commit by the time it is renamed (`Ready`); memory is ahead of the file only
between the change and the rename, and then `previous` is not (`MemoryRests`). The
hypothesis excludes one combination, a directory sync that fails on a machine that
also loses power: `write_atomically` ignores that failure, so the code promises
nothing there.

`ReconciliationProofs` proves `AccusationHolds` (`NoFalseDivergence`) for any
channels, curves, windows and rebinds, under `SettlesLongEnough`: `CurveSettle` is
at least three sampling intervals, as `CURVE_SETTLE_MS` is three seconds. The
property compares three things of different ages, the record, the firmware's
report and the collector's sample. `ReportIsFresh` and `SampleIsFresh` say from
which age of the record on each of the two must show the recorded curve, and the
third second is the sample's; `InCurveMode` and `RecordHasPath` tie the record to
the device that is bound; `PathsAreFresh` keeps an older device's path from being
taken for it.

`ServiceProofs` proves `ServiceIsOne` (`OneService`) and `StopWaits`
(`StopFinishesWrites`) for any number of daemons and clients, with panics, signals
and kills at any step. Neither lock is in the properties; `IInv` brings them in: a
process past its start has the instance lock (`InstanceHeld`), whoever may write
has the device (`DeviceHeld`), whoever holds the state is in a pass or in a request
that may be handled (`StateHeld`), connections and the ticker end with their
process (`Connected`, `TickerRuns`), and the write that a stop found under way
still holds the state while it is waited for (`UnderWay`). `OneWriter` follows
from `WritersHold`: all who write are the one who has the device.

`DeviceLinkProofs` proves, for any numbers of queued, drained, read and polled
reports and any pictures:

- `LinksAreWhole`: `LinkIsWhole`, under `RoomToAsk`: the drain is as long as what
  is queued, and a query reads two more reports than the driver polls for
  (`MAX_DRAINED_REPORTS` is 64, `MAX_QUERY_READS` is 12, which leaves the driver
  ten reports in the time of a query). `FoundWhenItCan` is a balance:
  what is queued, read and outstanding adds up to what was asked and polled, and
  each answer is in one of the three, so a query that stops early has read both.
- `FramesAreShown`: `FrameIsShown`, and `PixelsWait`: `PixelsWaitForPanel`, the
  safety half of `FramesRunTheirCourse`, both under `InTime`, that no answer comes
  after its wait. `OneAnswer` is the heart: at most one command of a frame, or its
  acknowledgement, is on its way, and the thread is at the wait for it; so an
  acknowledgement that is read is this sequence's. `PanelFollows` then takes the
  buffers through both sequences, for as long as every wait was answered
  (`FrameCounts` makes one missed answer one too few for good). `await_ack`
  matches the identifier alone, so with `"late"` the property does not hold
  (below).

- `LoadStaysMeasured`: `LoadIsMeasured` of `Machine`, a part of
  `WhatIsToldIsTrue`, for counters without bound. The time that is not idle never
  shrinks whatever the kernel does to the others (`saturating_sub` on both
  parts), so a share lies within its whole, and the totals of the answers add up
  to the time between the first baseline and the last.

`ClientProofs` proves of the window, part by part:

- `BooksAreKept` (`OneAtATime`), for any programs, presets, habits, weather and
  number of edits and faults. `InOrder` is the connection: an answer is to the
  request it follows, a status is asked for last, and a connection that is not
  open holds nothing. `OneApply` and `Awaited` are the write: at most one is on its
  way from the editor through the queue and the daemon to the outcome slot, and
  it is the one in flight. A revert gives up the guard, as the code does, so these
  two do not speak of days with reverts; `InOrder` does.
- `ScreenStaysHonest` (`ScreenIsHonest`), for the days of `NothingElseWrites`.
  `OneRequest` and `Serving` leave the worker one question and one daemon;
  `OwnWrites`, what is asked for is what is in flight; `StatusIsNew`, a status that
  may be adopted names the committed program; `RecordIsGood`, with `Landed` and
  `StillOpen`, says when the window's record agrees (`Agree`) with the device. The condition
  is needed: see `SavingIsSaid` below.
- `WindowStaysSound` (`WindowIsSound`), with `LeadsListed`, `NothingBeforeSeed`
  and `ArmedOnOne`.
- `AlertStaysEarned` (`AlertIsEarned`) and `ReadoutsStayHonest`, the part
  `ReadoutsAreHonest` of `WhatIsToldIsTrue`, for any thresholds, ages, window and
  number of passes: `StreakIsCounted`, the streak is the number of zeros since the
  channel last turned; `SamplesAreOfPasses`, every point is a pass of its own
  section; `SeriesInOrder`.
- `PreviewStaysAlive` (`PreviewIsAlive`) and `FilmStaysOnPace` (`FilmKeepsPace`):
  `WholeIsLast`, what is previewed is the last preset that was whole;
  `PictureIsOfSome`, the picture is of some preset, and `IdentityTells`, two
  presets with one identity have one picture, which is what the early return of
  the refresh relies on; `OneTimer`, one timer has the current generation;
  `SeedComesFirst`, a status seeds the form before anything was entered.

The proofs rest on the named assumptions of the modules. They keep the models'
markers (`None`, `Torn`, `Missing`, ...) apart from their values and numbers in
range, and say further, each time as the code has it: a clip has frames, each of
which takes time (`Display`); the scale has as many duties as percents and the
last node lies past the others (`Curves`); a program the daemon committed is
valid and no floor is above the starting ramp's first node (`Editor`); a value is
stale before it is dropped (`Readouts`); no preset names the marker of an empty
path, and what the daemon reports is a preset (`Preview`). TLC evaluates them on
every run. Every inductive invariant was checked by TLC before it was proved, on
its run's configuration; the two statements of `Curves` and the one of `Gates`
are what their run checks.

Model-checked only, and why:

- liveness (`DiscardIsNoticed`, `AbsenceIsForgotten`, `AlwaysServes`,
  `EveryoneLeaves`, `FrameEnds`, `WritesEnd`, `RecoveryIsShown`): fairness and
  `ENABLED` are beyond the prover;
- `Journal`: redaction is recursion over a text and `SelectSeq` over the log, and
  what either leaves is induction over data;
- the rest of `Machine` (files, chips, GPU): `SelectSeq`, `SortSeq` and
  `FlattenSeq`, for the same reason;
- `PanelIsDrawn` and `PlotIsRead`: geometry in this program's own numbers. A run
  over those numbers says all there is to say.

## Where code and comments part

`ClientLands` ends in a counterexample. `app/src/shell/screen/write.rs:6` says
"an edit reaches the hardware once the operator stops moving it" and
`shell.rs:509` "no edit can be lost". `send_display` compares an edit with the
last status and drops it when they agree; while an earlier edit is on its way,
that status is older than it. Moved away and back within one poll, the panel
keeps the first edit and the screen shows the second.

The other disagreements are stated as definitions of the modules too, and are
reproduced by editing a configuration: with the property as the only one, and
the constants changed as said.

| Property | Start from | Change | Disagreement |
|---|---|---|---|
| `NoHalfCurve` | `CoolingRestart.cfg` | `Faults = {"fail", "crash"}`, `MinInterval = 0`, `CurveSettle = 1`, `MaxPlugs = 1` | `control.rs:172` and `:304` say a half-written curve is unobservable. A channel in curve mode whose curve this process did not record (after a restart) is put in direct mode, points are written, one write fails, and `restore` switches back to curve mode with the array half written |
| `RollbackIsExact` | `CoolingFaults.cfg` | `SPECIFICATION Spec`, `Faults = {"fail", "lag"}` | `cooling.rs:486` reports a restoration "confirmed by readback"; `cooling.rs:40` says that readback lags |
| `UncertainStopsWrites` | `CoolingFaults.cfg` | `SPECIFICATION Spec`, `Faults = {"unplug"}` | `cooling.rs:15`: "an uncertain state stops further writes until a readback succeeds"; nothing stops them |
| `FloorCountsFromLastWrite` | `CoolingFaults.cfg` | `SPECIFICATION Spec`, `Faults = {}`, `MinInterval = 2` | `cooling.rs:98`: "when an attribute was last written"; stamped with the time the request arrived |
| `ReconnectHeals` | `Reconciliation.cfg` | none | `telemetry.rs:170`: re-resolving lets a reconnected device come back without a restart. The executor's path is only dropped when a sample says the device is absent, and a quick replug falls between two samples |
| `KeptWhateverFails` | `Configuration.cfg` | `FaultSets = {{"preserve"}}` | `config.rs:56`: "Recovery never deletes the unusable file"; when the rename fails the next save does |
| `ResumesTheChoice` | `Daemon.cfg` | `Losses = FALSE` | `state.rs:143`: a restart resumes "the program the operator chose"; the session record wins over an activation whose write was refused |
| `ConfirmedIsShown` | `Lighting.cfg` | `LightingFaults = {"unplug"}` | `lighting.rs:155`: a reconnect "needs no separate trigger"; a replug with no failed write in between is answered from the old record |
| `PublishedIsShown` | `Display.cfg` | `Kind = {"field"}`, `MaxTime = 4`, `MaxPlugs = 1`, `Faults = {}` | `ipc.rs:194`: "what the panel is currently showing"; a change of brightness alone leaves the old preset published |
| `BrightnessIsKnown` | `Display.cfg` | as above, `Faults = {"refusal", "lands"}` | `display.rs:406`: the record is dropped when in doubt; the brightness is kept |
| `AbsentStaysQuiet` | `Display.cfg` | `Kind = {"clip"}`, `Brightness = {80}`, `MaxTime = 6`, `Faults = {"refusal", "unplug"}` | `display.rs:68`: a faulted stream stops; while the Kraken is absent each tick clears the fault and a clip is sent again |
| `ScreenFollowsProfile` | `Client.cfg` | `Stored = c1`, `Days <- ProfileDay` | `app/src/shell.rs:169`: following the committed program "is what puts a newly activated profile's curve on the plot"; an edit and the activation of the profile that ran before it, both between two statuses, leave the committed program as it was, and the edited curve drawn |
| `SavingIsSaid` | `Client.cfg` | `Days <- UnsureDay`, `MaxEdits = 3` | `app/src/shell/screen/cooling.rs:77` says "Saving. The hardware holds its previous program until this clears." `pending()` (`app/src/cooling.rs:271`) compares the screen with the last confirmed record, which an uncertain outcome (`app/src/shell.rs:307`) leaves as it was. A second curve that is written, answered as uncertain and landed, and edited back to the first: "Saving" clears, nothing is sent, and the cooler runs the second. A revert that gives up a write in flight, a late answer or a crash lead to the same |
| `InFlightIsAnswered` | `Client.cfg` | `Days <- AnswerDay` | `app/src/feed.rs:274`: no write is left that "will never be answered again"; the slot holds one outcome, and a second command run before the window looks overwrites the first's |
| `FrameIsShown` | `DeviceLink.cfg` | `Faults = {"late"}` | `lcd.rs:413`: the wait is best effort; an acknowledgement that comes after the limit is taken for the next sequence's, and the answer is a success with the panel on a torn picture |
| `StopCutsNothing` | `Service.cfg` | `Daemon = {d1}`, `Faults = {}` | `server.rs` `run`: "lets that write finish before the process returns"; a write that still waited for the mutex when the socket was taken away is cut by the end of the process |
| `ClockRuns` | `Service.cfg` | `Daemon = {d1}`, `Faults = {"panic"}` | `server.rs` `spawn_display_ticker`: "Run the daemon's own clock forever"; a handler that panics poisons the mutex, and no later pass does anything |

With `Vocabulary.cfg` and only the named invariant:

| Property | Disagreement |
|---|---|
| `UnitsKeepOffTheRing` | the test at `lcd-renderer/src/dial.rs:642` tries only temperatures; the percent sign of a load of one hundred touches the right band |
| `EnabledIsAccepted` | `app/src/link/gate.rs:151`: "a control that stays enabled here is therefore one the daemon would accept"; not while the conflict is about the other device |
| `TwinsAreUncontended` | a daemon nobody contends with sees no conflict; with two devices of a kind the second lock is refused by the first |
| `UnreportedIsRestored` | `rgb_probe.rs:317`: a controller that reports no channel is sent the cadence on channel one, and nothing puts it back although the restoration is called seen |
| `AuthorizedIsSent` | `rgb_probe.rs:177`: "what is authorized is what actually leaves the process"; the cadence's dim white and what is restored are not in the description |
| `BusyIsCountedOnce` | `sensors.rs:194`: a guest's time is in the user field already and is counted in the total twice |
| `DotMeetsTheCurve` | `curve.rs:414`: the dot is where the marker "meets the curve"; nodes are drawn at equal distances and the marker by its temperature, and the last node is four degrees from the one before |
| `HandleHoldsItsValue` | `control.rs:382`, "painting and hit testing read the same numbers"; a press on the middle of the handle moves it at the ends of the track |
| `ListIsShown` | an open list stays open, unseen, when its gate shuts or its channel goes, and swallows the next press |
| `HoldIsOnScreen` | a gesture keeps editing after a key binding changed the screen |
| `DeletionNamesItsProfile` | an armed deletion deletes whichever profile is active at the second press |
| `SaveAddsAProfile` | a generated profile name can be one that exists (`app/src/cooling.rs:404`) |
| `FrozenIsMarked` | `view.rs`: "a frozen readout that never says Stale" is refused; after the clock was set back one is shown |
| `AlertIsOfThisDevice` | zeros of the pump before an absence count with those after it, and fewer than three in a row raise the alert |

Smaller ones met on the way, and kept in the models as the code has them: the
lighting rows open on a default color and brightness and never adopt what is
committed; `parse_hex` takes a `+`; `play_film` lets an open row's film run
while another screen is shown; a first status without a committed preset seeds
the panel's row with nothing for good (`lcd_seeded`); a path is trimmed, so a
file whose name ends in a space is not found; a committed preset without a
reading's end never equals the editor's; a cooling row may say "ready" while the
daemon is read-only over the other device, and the log says "every supported
capability is writable" when one of them is; `lcd_probe.rs:187` speaks of the
prior state of a refused run, which is not kept, and an interrupted probe
restores nothing; a collector that hangs is not reported although the text says
"panicked or stopped answering"; secrets shorter than `MIN_SECRET_LEN`, and the
serial of a device that arrives later, are not registered; an unreadable
`bInterfaceNumber` leaves the driver unknown; `probe()` takes the first hwmon
directory of the device, `locate` one named kraken2023; the chart's x axis is
the index of a sample, and an isolated one has no line; reverting a draft clears
the record of what was sent; a refused edit is overwritten when the next status
is adopted.

## Not modelled

Packaging; layout, theme, icons, fonts and the plumbing of the window toolkit:
no state a property could relate. The byte layout of IPC frames and device
packets, apart from what decides which answer is taken for which request and
what a program becomes on the strip; glyph shapes and antialiasing; file paths
and text. Rounding of single-precision arithmetic in the renderer. An error of
the directory sync together with a power loss: the code ignores that error, and
a save can then be lost. `Journal` assumes that no serial holds the brackets of
the placeholder or lies across one; `Window` that a view that notified is
painted before the next input and that the gates of one device shut together.
The panel's and the controller's links stay dead after a replug, and `Display`
and `Lighting` keep that; reopening one is a restart of the daemon.

## What is left

1. The transfer of `DeviceLink` shown to implement the transfer step of
   `Display`: what `OneAnswer` and `PanelFollows` say of a frame is what `Display`
   takes for granted of it.
2. The daemon's handlers and its ticker at the grain of `Display` and `Cooling`
   together. They share one mutex, so what is gained is the order of handlers.
3. The two hazards without a property of their own, a client that retries after an
   uncertain answer (`daemon/src/cooling.rs:281`) and a controller that was
   replugged (`daemon/src/lighting.rs:117`). Their behaviour is shown by
   `UncertainStopsWrites` and `ConfirmedIsShown` above, and what the code should
   promise there is not written anywhere.
