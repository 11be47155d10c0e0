-------------------------------- MODULE Feed --------------------------------
(***************************************************************************)
(* The window's worker thread (crates/app/src/feed.rs) on the client side  *)
(* of the socket (crates/core/src/client.rs), and the daemon it talks to   *)
(* as a client sees it: one handler per connection, answering in order.    *)
(*                                                                         *)
(* The worker runs the commands the window queued, then polls, publishes,  *)
(* rings, and waits on the queue.  A request that takes longer than five   *)
(* seconds fails for the worker and still runs in the daemon; its answer   *)
(* comes down the same connection, where nothing names the request an      *)
(* answer is for.                                                          *)
(***************************************************************************)
EXTENDS Integers, Sequences

CONSTANTS
    Fixed,      \* fixed-duty programs
    Curve,      \* curve programs
    Left,       \* what the daemon may have committed before the window opens
    Stored,     \* the program of the profile an operator may activate
    Picture,    \* presets of the panel
    None,
    Days,       \* pairs of what the operator does and what may go wrong
    MaxFaults   \* how many times

Gestures == {"mode", "fixed", "curve", "duty", "node", "panel", "brightness", "activate", "revert"}
FaultKinds == {"late", "crash", "refuse", "uncertain", "elsewhere"}

Program == Fixed \cup Curve

Command ==
    [kind: {"apply"}, what: Program] \cup [kind: {"show"}, what: Picture]
        \cup [kind: {"activate"}, what: {Stored}]

StatusAsked == [kind |-> "status", what |-> None]
ProfilesAsked == [kind |-> "profiles", what |-> None]
Request == Command \cup {StatusAsked, ProfilesAsked}

\* What a status tells, and what comes back down the connection.
Severity == {"confirmed", "refused", "unconfirmed"}
Known == [up: BOOLEAN, ran: Program \cup {None}, reading: Program \cup {None}, glass: Picture \cup {None}]
Answer == [to: {"apply", "show", "activate", "status", "profiles"}, severity: Severity, status: Known]

ASSUME FeedAssumption ==
    /\ Fixed # {} /\ Curve # {} /\ Picture # {} /\ Fixed \cap Curve = {}
    /\ Stored \in Program /\ Left \subseteq Program \cup {None}
    /\ None \notin Program \cup Picture /\ None \notin Command \cup Answer
    /\ Days \subseteq [habit: SUBSET Gestures, weather: SUBSET FaultKinds] /\ MaxFaults \in Nat

\* The subject an outcome is published under.
Subject(c) == [apply |-> "cooling", show |-> "panel", activate |-> "profiles"][c.kind]

TouchesProfiles(c) == c.kind = "activate"

VARIABLES
    inbox,      \* the command channel, oldest first
    pending,    \* the command that ended the previous wait
    pc,         \* "top", "drain", "ask", "list", "poll" or "wait"
    current,    \* the command the worker waits on
    touched,    \* refresh_profiles
    session,    \* "none", "open", or "broken": the other end is gone
    line,       \* requests on it the worker has taken no answer for, oldest first
    link,       \* Shared.link
    outcome,    \* Shared.outcome, replaced by each command
    rung,       \* a notification the window has not handled
    korid,      \* the daemon: alive, ran (committed), device (what the cooler
                \* runs), reading (telemetry's last sample of it), glass
    orphan,     \* a request of a dropped connection that its handler still runs
    day,        \* what happens in this run, out of Days
    faults      \* faults so far

worker == <<inbox, pending, pc, current, touched>>
published == <<link, outcome, rung>>
feedVars == <<worker, session, line, published, korid, orphan, faults>>

Down == [up |-> FALSE, ran |-> None, reading |-> None, glass |-> None]
Status(d) == [up |-> TRUE, ran |-> d.ran, reading |-> d.reading, glass |-> d.glass]

FeedInit ==
    /\ inbox = <<>> /\ pending = None /\ pc = "top" /\ current = None /\ touched = FALSE
    /\ session = "none" /\ line = <<>>
    /\ link = None /\ outcome = None /\ rung = FALSE
    /\ \E p \in Left :
        korid = [alive |-> TRUE, ran |-> p, device |-> p, reading |-> p, glass |-> None]
    /\ orphan = None /\ day \in Days /\ faults = 0

May(f) == f \in day.weather /\ faults < MaxFaults /\ faults' = faults + 1

-----------------------------------------------------------------------------
(* The daemon, one request at a time under its mutex.                      *)

\* Request r runs and ends with this severity.
Handle(r, severity) ==
    \/ /\ severity = "confirmed" /\ UNCHANGED faults
       /\ korid' = CASE r.kind = "show" -> [korid EXCEPT !.glass = r.what]
                     [] r.kind \in {"apply", "activate"} ->
                            [korid EXCEPT !.ran = r.what, !.device = r.what]
                     [] OTHER -> korid
    \/ /\ severity = "refused" /\ r \in Command /\ May("refuse")
       /\ UNCHANGED korid
    \/ /\ severity = "unconfirmed" /\ r \in Command /\ r.kind # "show" /\ May("uncertain")
       /\ \E d \in {korid.device, r.what} : korid' = [korid EXCEPT !.ran = None, !.device = d]

\* The first request of the connection that has not been answered.
Serve ==
    /\ korid.alive
    /\ \E i \in 1..Len(line), severity \in Severity :
        /\ line[i].answer = None /\ \A j \in 1..(i - 1) : line[j].answer # None
        /\ Handle(line[i].ask, severity)
        /\ line' = [line EXCEPT ![i].answer =
                [to |-> line[i].ask.kind, severity |-> severity,
                 status |-> IF line[i].ask = StatusAsked THEN Status(korid) ELSE Down]]
    /\ UNCHANGED <<worker, session, published, orphan>>

\* The handler of a connection that was dropped finds out when it answers.
ServeOrphan ==
    /\ korid.alive /\ orphan # None
    /\ \E severity \in Severity : Handle(orphan, severity)
    /\ orphan' = None
    /\ UNCHANGED <<worker, session, line, published>>

\* The sampler reads the cooler on its own clock.
Sample ==
    /\ korid.alive /\ korid.reading # korid.device
    /\ korid' = [korid EXCEPT !.reading = korid.device]
    /\ UNCHANGED <<worker, session, line, published, orphan, faults>>

Crash ==
    /\ korid.alive /\ May("crash")
    /\ korid' = [korid EXCEPT !.alive = FALSE, !.ran = None, !.glass = None]
    /\ orphan' = None /\ line' = <<>>
    /\ session' = IF session = "none" THEN "none" ELSE "broken"
    /\ UNCHANGED <<worker, published>>

\* A start that restores the program, or one that restores nothing.
Start ==
    /\ ~korid.alive
    /\ \E p \in {None, korid.device} : korid' = [korid EXCEPT !.alive = TRUE, !.ran = p]
    /\ UNCHANGED <<worker, session, line, published, orphan, faults>>

\* Another client changes the program.
Elsewhere ==
    /\ korid.alive /\ May("elsewhere")
    /\ \E p \in Program : korid' = [korid EXCEPT !.ran = p, !.device = p]
    /\ UNCHANGED <<worker, session, line, published, orphan>>

-----------------------------------------------------------------------------
(* The worker.                                                             *)

\* A request is written; nobody reads it on a broken connection.
Ask(r) == IF session = "broken" THEN line ELSE Append(line, [ask |-> r, answer |-> None])

PublishDown == link' = Down /\ rung' = TRUE

\* Mutant: the session is kept after its connection went.
DropConnection == line' = <<>> /\ UNCHANGED <<session, orphan>>

\* The requests the daemon has not answered.
Begun == {i \in DOMAIN line : line[i].answer = None /\ line[i].ask \in Command}

\* The connection goes.  Its handler is still inside the request it had begun.
DropSession ==
    /\ session' = "none" /\ line' = <<>>
    /\ IF orphan = None /\ Begun # {}
       THEN \E i \in Begun : (\A j \in Begun : i <= j) /\ orphan' = line[i].ask
       ELSE UNCHANGED orphan

Connects ==
    /\ pc = "top" /\ (session # "none" \/ korid.alive)
    /\ pc' = "drain"
    /\ session' = IF session = "none" THEN "open" ELSE session
    /\ UNCHANGED <<inbox, pending, current, touched, line, published, korid, orphan, faults>>

\* connect makes two requests of its own, each of which may be late.
ConnectFails ==
    /\ pc = "top" /\ session = "none"
    /\ IF korid.alive THEN May("late") ELSE UNCHANGED faults
    /\ PublishDown /\ pc' = "wait"
    /\ UNCHANGED <<inbox, pending, current, touched, session, line, outcome, korid, orphan>>

\* pending.take().or_else(|| inbox.try_recv().ok())
Drain ==
    /\ pc = "drain"
    /\ \/ pending # None /\ current' = pending /\ UNCHANGED inbox
       \/ pending = None /\ inbox # <<>> /\ current' = Head(inbox) /\ inbox' = Tail(inbox)
    /\ pending' = None /\ pc' = "ask"
    /\ touched' = (touched \/ TouchesProfiles(current'))
    /\ line' = Ask(current')
    /\ UNCHANGED <<session, published, korid, orphan, faults>>

Drained ==
    /\ pc = "drain" /\ pending = None /\ inbox = <<>>
    /\ pc' = IF touched THEN "list" ELSE "poll"
    /\ line' = Ask(IF touched THEN ProfilesAsked ELSE StatusAsked)
    /\ UNCHANGED <<inbox, pending, current, touched, session, published, korid, orphan, faults>>

\* What the worker reads: the oldest answer, or None for a request that failed.
Reading(got) ==
    \/ line # <<>> /\ line[1].answer # None /\ got = line[1].answer /\ UNCHANGED faults
    \/ line # <<>> /\ line[1].answer = None /\ got = None /\ May("late")
    \/ session = "broken" /\ got = None /\ UNCHANGED faults

Rest(got) == IF got = None THEN line ELSE Tail(line)

Readable == {None} \cup {line[i].answer : i \in DOMAIN line}

\* expect takes any answer of the shape the request asks for.
Fits(r, got) == got # None /\ got.to = r.kind

Report(got) ==
    [seq |-> IF outcome = None THEN 1 ELSE outcome.seq + 1, subject |-> Subject(current),
     severity |-> IF Fits(current, got) THEN got.severity ELSE "refused"]

\* The outcome of a command replaces the previous one; nobody is told yet.
CommandEnds ==
    /\ pc = "ask"
    /\ \E got \in Readable : Reading(got) /\ outcome' = Report(got) /\ line' = Rest(got)
    /\ pc' = "drain" /\ current' = None
    /\ UNCHANGED <<inbox, pending, touched, session, link, rung, korid, orphan>>

\* A refresh of the profile list that fails is forgotten.
Listed ==
    /\ pc = "list"
    /\ \E got \in Readable :
        /\ Reading(got)
        /\ line' = IF session = "broken" THEN line
                   ELSE Append(Rest(got), [ask |-> StatusAsked, answer |-> None])
    /\ pc' = "poll" /\ touched' = FALSE
    /\ UNCHANGED <<inbox, pending, current, session, published, korid, orphan>>

Poll ==
    /\ pc = "poll"
    /\ \E got \in Readable :
        /\ Reading(got) /\ Fits(StatusAsked, got)
        /\ link' = got.status /\ line' = Rest(got)
    /\ rung' = TRUE /\ pc' = "wait"
    /\ UNCHANGED <<inbox, pending, current, touched, session, outcome, korid, orphan>>

\* Mutant: the session survives a poll that failed.
PollFailsKeeping ==
    /\ pc = "poll"
    /\ \E got \in Readable :
        Reading(got) /\ ~Fits(StatusAsked, got) /\ line' = Rest(got)
    /\ PublishDown /\ pc' = "wait"
    /\ UNCHANGED <<inbox, pending, current, touched, session, outcome, korid, orphan>>

\* A failed poll drops the connection, whatever is still on it.
PollFails ==
    /\ pc = "poll"
    /\ \E got \in Readable : Reading(got) /\ ~Fits(StatusAsked, got)
    /\ DropSession
    /\ PublishDown /\ pc' = "wait"
    /\ UNCHANGED <<inbox, pending, current, touched, outcome, korid>>

\* wait_for_command: the command that ends the wait, or none.  Whatever the
\* wait returns replaces pending, a command no cycle has run included.
Waits ==
    /\ pc = "wait"
    /\ \/ inbox # <<>> /\ pending' = Head(inbox) /\ inbox' = Tail(inbox)
       \/ pending' = None /\ UNCHANGED inbox
    /\ pc' = "top"
    /\ UNCHANGED <<current, touched, session, line, published, korid, orphan, faults>>

WorkerStep ==
    \/ Connects \/ ConnectFails \/ Drain \/ Drained \/ CommandEnds \/ Listed
    \/ Poll \/ PollFails \/ Waits

DaemonStep == Serve \/ ServeOrphan \/ Sample \/ Crash \/ Start \/ Elsewhere

\* The daemon is scheduled, its sampler too, and systemd starts it again.
FeedFairness ==
    /\ WF_feedVars(WorkerStep) /\ WF_feedVars(Serve) /\ WF_feedVars(ServeOrphan)
    /\ WF_feedVars(Sample) /\ WF_feedVars(Start)
=============================================================================
