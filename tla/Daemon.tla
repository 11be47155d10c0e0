------------------------------- MODULE Daemon -------------------------------
(***************************************************************************)
(* The daemon's request handling and its start                             *)
(* (crates/daemon/src/state.rs): what it writes to the hardware, what it   *)
(* remembers of that in the configuration, and what it replays after a     *)
(* restart.  The configuration is the one DocumentStore specifies; an      *)
(* executor's Apply is one step here, with the outcome it reports.         *)
(*                                                                         *)
(* A handler runs under the daemon's mutex; a crash may cut it anywhere.   *)
(***************************************************************************)
EXTENDS DocumentStore

CONSTANTS
    Offered,   \* the profiles clients save
    MaxStops,  \* bound: how often the daemon dies
    Losses     \* may a save fail, or a start find the file untrusted

ASSUME DaemonAssumption ==
    /\ Offered \subseteq Profile
    /\ MaxStops \in Nat
    /\ Losses \in BOOLEAN

VARIABLES
    gate,     \* the slots this daemon may write: device present, capability
              \* writable, ownership complete, as resolved when it started
    device,   \* what the hardware runs in each slot, None when unknown
    wanted,   \* the values the handler under way puts in place
    pending,  \* the slots it has not come to yet
    noting,   \* the slot whose confirmed value it is about to record, or None
    stops,    \* how often the daemon died
    (* What the properties compare with; no action reads these.            *)
    ran,      \* the value last confirmed in each slot
    kept,     \* the slots whose last confirmed value was recorded
    left,     \* what ran and was recorded when the daemon last died
    chosen,   \* the program the operator last chose, None for Onboard
    resumed   \* "all": a start put everything back, nothing was asked since;
              \* "some": it did not; "no": otherwise

hardware == <<gate, device>>
handler == <<wanted, pending, noting>>
ghosts == <<ran, left, kept, chosen, resumed>>
vars == <<store, hardware, handler, stops, ghosts>>

Nothing == [s \in Slot |-> None]

Init ==
    /\ saved = DefaultDocument /\ held = DefaultDocument /\ up = FALSE
    /\ gate = [s \in Slot |-> FALSE] /\ device = Nothing
    /\ wanted = Nothing /\ pending = {} /\ noting = None
    /\ stops = 0
    /\ ran = Nothing /\ left = Nothing /\ kept = Slot
    /\ chosen = None /\ resumed = "no"

\* The mutex is free.
Serving == up /\ pending = {}

\* Hand the slots of w that are set to the executors.
Handle(w) ==
    /\ wanted' = w
    /\ pending' = {s \in Slot : w[s] # None}
    /\ noting' = None

-----------------------------------------------------------------------------
(* start_with and restore_active_profile.                                  *)

Start ==
    /\ Open
    /\ ~Losses => held' = saved
    /\ gate' \in [Slot -> BOOLEAN]
    /\ Handle([s \in Slot |-> ToRestore(held', s)])
    /\ IF held' = saved THEN UNCHANGED <<kept, left, chosen>>
       ELSE kept' = {} /\ left' = Nothing /\ chosen' = None
    /\ resumed' = "all"
    /\ UNCHANGED <<device, stops, ran>>

-----------------------------------------------------------------------------
(* Requests.                                                               *)

\* ApplyProgram, ApplyLighting, ApplyDisplay.
Apply(s, v) ==
    /\ Serving
    /\ Handle([Nothing EXCEPT ![s] = v])
    /\ resumed' = "no"
    /\ UNCHANGED <<store, hardware, stops, ran, left, kept, chosen>>

\* A save that fails changes nothing and is reported.
SaveFails ==
    /\ Serving
    /\ Losses
    /\ resumed' = "no"
    /\ UNCHANGED <<store, hardware, handler, stops, ran, left, kept, chosen>>

SaveProfile(n, p) ==
    /\ Serving
    /\ held' = WithProfile(held, n, p) /\ Change
    /\ chosen' = IF n = held.active THEN None ELSE chosen
    /\ resumed' = "no"
    /\ UNCHANGED <<hardware, handler, stops, ran, left, kept>>

DeleteProfile(n) ==
    /\ Serving
    /\ held.profiles[n] # None
    /\ held' = WithoutProfile(held, n) /\ Change
    /\ chosen' = IF n = held.active THEN None ELSE chosen
    /\ resumed' = "no"
    /\ UNCHANGED <<hardware, handler, stops, ran, left, kept>>

\* A profile that is not there, or whose program cannot be written, is refused.
\* The selection is persisted, then lighting, panel and program are written.
ActivateProfile(n) ==
    LET profile == ProfileNamed(held, n) IN
    /\ Serving
    /\ Known(held, n)
    /\ profile["program"] = Onboard \/ gate["program"]
    /\ held' = WithActive(held, n) /\ Change
    /\ Handle(profile)
    /\ chosen' = IF profile["program"] = Onboard THEN None ELSE profile["program"]
    /\ resumed' = "no"
    /\ UNCHANGED <<hardware, stops, ran, left, kept>>

-----------------------------------------------------------------------------
(* execute, illuminate and show, for the next slot of the handler.         *)

\* Lighting channels first, then the panel, then the program.
Upcoming ==
    {s \in pending : \/ s \in Light
                     \/ s = "display" /\ pending \cap Light = {}
                     \/ pending = {s}}

Done(s, verdict) ==
    /\ pending' = pending \ {s}
    /\ resumed' = IF verdict = "confirmed" THEN resumed
                  ELSE IF resumed = "no" THEN "no" ELSE "some"
    /\ UNCHANGED wanted

\* Mutant: a refused write ends the restore where it stands.
RefuseAndStop(s) ==
    /\ noting = None
    /\ ~gate[s] /\ wanted[s] # Onboard
    /\ UNCHANGED <<store, hardware, handler, stops, ghosts>>

\* Refused before the executor is reached.
Refuse(s) ==
    /\ noting = None
    /\ ~gate[s] /\ wanted[s] # Onboard
    /\ Done(s, "refused")
    /\ UNCHANGED <<store, hardware, noting, stops, ran, left, kept, chosen>>

\* Onboard needs no gate, writes nothing and is not remembered.
LeaveOnboard(s) ==
    /\ noting = None
    /\ wanted[s] = Onboard
    /\ Done(s, "onboard")
    /\ UNCHANGED <<store, hardware, noting, stops, ran, left, kept, chosen>>

\* Not applied, or uncertain and then nobody knows what the slot runs.
WriteMisses(s) ==
    /\ noting = None
    /\ gate[s] /\ wanted[s] # Onboard
    /\ device' \in {device, [device EXCEPT ![s] = None]}
    /\ Done(s, "missed")
    /\ UNCHANGED <<store, gate, noting, stops, ran, left, kept, chosen>>

\* Confirmed: the slot runs the value, which is about to be remembered.
WriteConfirmed(s) ==
    /\ noting = None
    /\ gate[s] /\ wanted[s] # Onboard
    /\ device' = [device EXCEPT ![s] = wanted[s]]
    /\ noting' = s
    /\ ran' = [ran EXCEPT ![s] = wanted[s]]
    /\ kept' = kept \ {s}
    /\ chosen' = IF s = "program" /\ resumed = "no" THEN None ELSE chosen
    /\ UNCHANGED <<store, gate, wanted, pending, stops, left, resumed>>

\* Mutant: remembers only what is not remembered yet.
RememberOnce ==
    /\ noting # None
    /\ IF held.session[noting] # None THEN UNCHANGED store
       ELSE held' = WithSession(held, noting, wanted[noting]) /\ Change
    /\ kept' = kept \cup {noting}
    /\ chosen' = IF noting = "program" /\ resumed = "no" THEN wanted[noting] ELSE chosen
    /\ noting' = None
    /\ Done(noting, "confirmed")
    /\ UNCHANGED <<hardware, stops, ran, left>>

\* remember: a value already on record costs no write.
Remember ==
    /\ noting # None
    /\ IF held.session[noting] = wanted[noting] THEN UNCHANGED store
       ELSE held' = WithSession(held, noting, wanted[noting]) /\ Change
    /\ kept' = kept \cup {noting}
    /\ chosen' = IF noting = "program" /\ resumed = "no" THEN wanted[noting] ELSE chosen
    /\ noting' = None
    /\ Done(noting, "confirmed")
    /\ UNCHANGED <<hardware, stops, ran, left>>

\* The session could not be saved: reported, and the handler carries on.
RememberFails ==
    /\ Losses
    /\ noting # None
    /\ held.session[noting] # wanted[noting]
    /\ noting' = None
    /\ Done(noting, "confirmed")
    /\ UNCHANGED <<store, hardware, stops, ran, left, kept, chosen>>

-----------------------------------------------------------------------------
\* The daemon dies; the devices keep what they run or come back cold.
Stop ==
    /\ Die
    /\ stops < MaxStops
    /\ stops' = stops + 1
    /\ Handle(Nothing)
    /\ left' = [s \in Slot |-> IF s \in kept THEN ran[s] ELSE None]
    /\ device' \in {device, Nothing}
    /\ resumed' = "no"
    /\ UNCHANGED <<gate, ran, kept, chosen>>

Write(s) == Refuse(s) \/ LeaveOnboard(s) \/ WriteMisses(s) \/ WriteConfirmed(s)

Next ==
    \/ Start
    \/ \E s \in Slot, v \in Value : Apply(s, v)
    \/ Apply("program", Onboard)
    \/ SaveFails
    \/ \E n \in Name, p \in Offered : SaveProfile(n, p)
    \/ \E n \in Name : DeleteProfile(n)
    \/ \E n \in Name \cup {Safe} : ActivateProfile(n)
    \/ \E s \in Upcoming : Write(s)
    \/ Remember
    \/ RememberFails
    \/ Stop

\* A handler runs to its end; starts, requests and deaths may never come.
Fairness == WF_vars((\E s \in Upcoming : Write(s)) \/ Remember)

Spec == Init /\ [][Next]_vars /\ Fairness

-----------------------------------------------------------------------------
TypeOK ==
    /\ saved \in Document /\ held \in Document /\ up \in BOOLEAN
    /\ gate \in [Slot -> BOOLEAN] /\ device \in Session
    /\ wanted \in [Slot -> Value \cup {Onboard, None}]
    /\ pending \subseteq Slot /\ noting \in Slot \cup {None}
    /\ stops \in 0..MaxStops
    /\ ran \in Session /\ left \in Session /\ kept \subseteq Slot
    /\ chosen \in Value \cup {None} /\ resumed \in {"all", "some", "no"}

\* What a start comes up with is what the hardware was last confirmed to run: if
\* every write of the restore went through, each slot whose last confirmed value
\* had been recorded by then runs it again, whatever was saved, selected or deleted in
\* the meantime and wherever the daemon died (SessionState: "a restart that
\* replayed only the active profile would drop every edit made since").
RestoredAsLeft ==
    (Serving /\ resumed = "all") =>
        \A s \in Slot : left[s] # None => device[s] = left[s]

\* The session record never falls behind and never claims a write that did not
\* happen: once the daemon is done with a request, every slot whose confirmed
\* value was recorded is in the session with exactly that value.
SessionIsWhatRan ==
    Serving => \A s \in kept : ran[s] # None => held.session[s] = ran[s]

\* An unwritable device never keeps the service from coming up: whatever the
\* restore is refused, the daemon gets to serve (restore_active_profile: "a
\* refusal is recorded and the daemon carries on").
AlwaysServes == up ~> (Serving \/ ~up)

\* start_with's comment: "a restart resumes the program the operator chose", and
\* activate_profile's: a write that fails leaves the profile selected "rather
\* than silently reverting a choice the operator made".
ResumesTheChoice ==
    (Serving /\ resumed = "all" /\ chosen # None) => device["program"] = chosen
=============================================================================
