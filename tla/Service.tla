------------------------------ MODULE Service ------------------------------
(***************************************************************************)
(* The life of the daemon process and of its threads: the instance lock,   *)
(* the socket, the device lock, the restore, the accept loop with a thread *)
(* per connection, the ticker, the signal and the teardown                 *)
(* (crates/daemon/src/main.rs, server.rs, ownership.rs, startup.rs), next  *)
(* to a second daemon that is being started and to a write probe.          *)
(*                                                                         *)
(* There is one device.  A flock is released by the kernel when its holder *)
(* is gone, a socket file is not: it goes on naming a listener nobody      *)
(* accepts on.  A request is a "hello", a "read" or a "write"; what a      *)
(* write does to the hardware is Cooling's, Lighting's and Display's, here *)
(* it is something that takes time and must not be cut.                    *)
(***************************************************************************)
EXTENDS Integers, FiniteSets

CONSTANTS
    Daemon,     \* the processes that may be started as korid
    Probe,      \* the process of a write probe
    Client,     \* the connections clients keep
    Other,      \* a program that knows nothing of the locks
    None,       \* nobody
    Dead,       \* a listener whose process is gone
    Faults      \* which misbehaviours a model includes

(* kill     a process dies wherever it stands                              *)
(* panic    a handler or the ticker panics in the state                    *)
(* other    another program opens the device's HID node                    *)
FaultKinds == {"kill", "panic", "other"}

ASSUME ServiceAssumption ==
    /\ {Probe, Other, None, Dead, "ticker"} \cap (Daemon \cup Client) = {}
    /\ Daemon \cap Client = {}
    /\ None \notin {Probe, Other, Dead, "ticker"} /\ Probe # Other
    /\ Faults \subseteq FaultKinds

VARIABLES
    main,     \* where the main thread of each daemon is
    instance, \* who holds the instance lock
    device,   \* who holds the device lock
    nodes,    \* the programs other than a daemon that have the HID node open
    socket,   \* the listener the socket path leads to
    readOnly, \* did a daemon find a conflict at startup
    shutdown, \* the flag of each daemon, and whether its listener was poked
    ticker,   \* the ticker thread of each daemon: "none", "nap" or "pass"
    mutex,    \* who holds the state of each daemon
    poisoned, \* a handler panicked holding it
    conn,     \* each connection
    probe,    \* the write probe: "off", "on" or "writing"
    under     \* the write under way when a daemon took its socket away

processes == <<main, readOnly, shutdown, ticker, under>>
locks == <<instance, device, nodes>>
state == <<mutex, poisoned>>
vars == <<processes, locks, socket, state, conn, probe>>

Closed == [to |-> None, accepted |-> FALSE, greeted |-> FALSE, request |-> "none"]

Closes(c) == conn' = [conn EXCEPT ![c] = Closed]

Request == {"hello", "read", "write"}

Init ==
    /\ main = [d \in Daemon |-> "off"]
    /\ instance = None /\ device = None /\ nodes = {}
    /\ socket \in {None, Dead}
    /\ readOnly = [d \in Daemon |-> FALSE]
    /\ shutdown = [d \in Daemon |-> [flag |-> FALSE, poked |-> FALSE]]
    /\ ticker = [d \in Daemon |-> "none"]
    /\ mutex = [d \in Daemon |-> None] /\ poisoned = [d \in Daemon |-> FALSE]
    /\ conn = [c \in Client |-> Closed]
    /\ probe = "off"
    /\ under = [d \in Daemon |-> None]

At(d, place) == main[d] = place
Goes(d, place) == main' = [main EXCEPT ![d] = place]

-----------------------------------------------------------------------------
(* main.rs serve: what a start does, in its order.                         *)

Start(d) ==
    /\ At(d, "off")
    /\ Goes(d, "starting")
    /\ UNCHANGED <<readOnly, shutdown, ticker, under, locks, socket, state, conn, probe>>

InstanceFree == instance = None

\* acquire_instance: the lock, not the socket, decides who runs.
AcquireInstance(d) ==
    /\ At(d, "starting")
    /\ IF InstanceFree
       THEN instance' = d /\ Goes(d, "alone")
       ELSE Goes(d, "off") /\ UNCHANGED instance
    /\ UNCHANGED <<readOnly, shutdown, ticker, under, device, nodes, socket, state, conn, probe>>

\* bind_socket: whatever file is there was left behind.
RemoveStale(d) ==
    /\ At(d, "alone")
    /\ socket' = None
    /\ Goes(d, "cleared")
    /\ UNCHANGED <<readOnly, shutdown, ticker, under, locks, state, conn, probe>>

Bind(d) ==
    /\ At(d, "cleared")
    /\ IF socket = None
       THEN socket' = d /\ Goes(d, "bound") /\ UNCHANGED instance
       ELSE Goes(d, "off") /\ instance' = None /\ UNCHANGED socket
    /\ UNCHANGED <<readOnly, shutdown, ticker, under, device, nodes, state, conn, probe>>

\* Mutant: a daemon that lost the device lock writes all the same.
ConflictsSeen == nodes \ {Probe} # {}

\* A lock somebody has, or a node somebody has open.
Conflicts == device # None \/ nodes # {}

\* take_ownership, from Daemon::start: a conflict is kept for the life of the process.
TakeOwnership(d) ==
    /\ At(d, "bound")
    /\ device' = IF device = None THEN d ELSE device
    /\ readOnly' = [readOnly EXCEPT ![d] = Conflicts]
    /\ Goes(d, "restoring")
    /\ UNCHANGED <<shutdown, ticker, under, instance, nodes, socket, state, conn, probe>>

\* The restore ends; the ticker is spawned and the accept loop begins.
Serve(d) ==
    /\ At(d, "restoring")
    /\ Goes(d, "serving")
    /\ ticker' = [ticker EXCEPT ![d] = "nap"]
    /\ UNCHANGED <<readOnly, shutdown, under, locks, socket, state, conn, probe>>

-----------------------------------------------------------------------------
(* The accept loop, the connections and the ticker.                        *)

\* A connection for each client that waits on this listener, dropped or served.
Accept(d, c) ==
    /\ At(d, "serving") /\ conn[c].to = d /\ ~conn[c].accepted
    /\ IF shutdown[d].flag
       THEN Goes(d, "joining") /\ Closes(c)
       ELSE conn' = [conn EXCEPT ![c].accepted = TRUE] /\ UNCHANGED main
    /\ UNCHANGED <<readOnly, shutdown, ticker, under, locks, socket, state, probe>>

AcceptPoke(d) ==
    /\ At(d, "serving") /\ shutdown[d].poked
    /\ shutdown' = [shutdown EXCEPT ![d].poked = FALSE]
    /\ Goes(d, "joining")
    /\ UNCHANGED <<readOnly, ticker, under, locks, socket, state, conn, probe>>

\* Nothing but the handshake is served before the handshake.
RefuseUngreeted(d, c) ==
    /\ conn[c].to = d /\ conn[c].accepted
    /\ ~conn[c].greeted /\ conn[c].request \in {"read", "write"}
    /\ Closes(c)
    /\ UNCHANGED <<processes, locks, socket, state, probe>>

\* serve takes the state for one request.
Lock(d, c) ==
    /\ conn[c].to = d /\ conn[c].accepted /\ conn[c].request # "none"
    /\ conn[c].greeted \/ conn[c].request = "hello"
    /\ ~poisoned[d] /\ mutex[d] = None
    /\ mutex' = [mutex EXCEPT ![d] = c]
    /\ UNCHANGED <<processes, locks, socket, poisoned, conn, probe>>

Answered(c) == conn' = [conn EXCEPT ![c].request = "none", ![c].greeted = TRUE]

Handled(d, c) ==
    /\ mutex[d] = c
    /\ mutex' = [mutex EXCEPT ![d] = None]
    /\ under' = [under EXCEPT ![d] = IF @ = c THEN None ELSE @]
    /\ Answered(c)
    /\ UNCHANGED <<main, readOnly, shutdown, ticker, locks, socket, poisoned, probe>>

\* Mutant: a handler that finds the state poisoned has nothing to say.
SaysNothing(c) == UNCHANGED conn

\* A poisoned state is an answer too; before the handshake it closes the connection.
SaysUnavailable(c) ==
    IF conn[c].greeted THEN Answered(c) ELSE Closes(c)

Unavailable(d, c) ==
    /\ conn[c].to = d /\ conn[c].accepted /\ conn[c].request # "none"
    /\ conn[c].greeted \/ conn[c].request = "hello"
    /\ poisoned[d] /\ mutex[d] = None
    /\ SaysUnavailable(c)
    /\ UNCHANGED <<processes, locks, socket, state, probe>>

\* The thread of the connection dies with the state locked.
Panic(d, c) ==
    /\ "panic" \in Faults /\ mutex[d] = c
    /\ mutex' = [mutex EXCEPT ![d] = None] /\ poisoned' = [poisoned EXCEPT ![d] = TRUE]
    /\ under' = [under EXCEPT ![d] = IF @ = c THEN None ELSE @]
    /\ Closes(c)
    /\ UNCHANGED <<main, readOnly, shutdown, ticker, locks, socket, probe>>

\* One pass of the ticker over the state; a poisoned one is passed over.
TickerPass(d) ==
    /\ ticker[d] = "nap" /\ ~shutdown[d].flag
    /\ mutex[d] = None /\ ~poisoned[d]
    /\ mutex' = [mutex EXCEPT ![d] = "ticker"]
    /\ ticker' = [ticker EXCEPT ![d] = "pass"]
    /\ UNCHANGED <<main, readOnly, shutdown, under, locks, socket, poisoned, conn, probe>>

TickerNaps(d) ==
    /\ ticker[d] = "pass"
    /\ mutex' = [mutex EXCEPT ![d] = None]
    /\ ticker' = [ticker EXCEPT ![d] = "nap"]
    /\ UNCHANGED <<main, readOnly, shutdown, under, locks, socket, poisoned, conn, probe>>

\* A panic in the pass ends the thread and poisons the state; its join is ignored.
TickerPanics(d) ==
    /\ "panic" \in Faults /\ ticker[d] = "pass"
    /\ mutex' = [mutex EXCEPT ![d] = None] /\ poisoned' = [poisoned EXCEPT ![d] = TRUE]
    /\ ticker' = [ticker EXCEPT ![d] = "none"]
    /\ UNCHANGED <<main, readOnly, shutdown, under, locks, socket, conn, probe>>

TickerEnds(d) ==
    /\ ticker[d] = "nap" /\ shutdown[d].flag
    /\ ticker' = [ticker EXCEPT ![d] = "none"]
    /\ UNCHANGED <<main, readOnly, shutdown, under, locks, socket, state, conn, probe>>

-----------------------------------------------------------------------------
(* Shutdown.                                                               *)

\* stop_on_signal and ShutdownHandle::stop: the flag first, then the poke.
Signal(d) ==
    /\ At(d, "serving") /\ ~shutdown[d].flag
    /\ shutdown' = [shutdown EXCEPT ![d].flag = TRUE]
    /\ UNCHANGED <<main, readOnly, ticker, under, locks, socket, state, conn, probe>>

ReachesListener(d) == socket = d

Poke(d) ==
    /\ At(d, "serving") /\ shutdown[d].flag /\ ~shutdown[d].poked
    /\ ReachesListener(d)
    /\ shutdown' = [shutdown EXCEPT ![d].poked = TRUE]
    /\ UNCHANGED <<main, readOnly, ticker, under, locks, socket, state, conn, probe>>

\* Mutant: the ticker is left to itself.
TickerOrNot(d) == TRUE

TickerGone(d) == ticker[d] = "none"

JoinTicker(d) ==
    /\ At(d, "joining") /\ TickerGone(d)
    /\ Goes(d, "closing")
    /\ UNCHANGED <<readOnly, shutdown, ticker, under, locks, socket, state, conn, probe>>

RemoveSocket(d) ==
    /\ At(d, "closing")
    /\ socket' = None
    /\ under' = [under EXCEPT ![d] = mutex[d]]
    /\ Goes(d, "draining")
    /\ UNCHANGED <<readOnly, shutdown, ticker, locks, state, conn, probe>>

\* The state is taken once and dropped: a write that holds it is waited for.
Drain(d) ==
    /\ At(d, "draining") /\ mutex[d] = None
    /\ Goes(d, "returning")
    /\ UNCHANGED <<readOnly, shutdown, ticker, under, locks, socket, state, conn, probe>>

\* A process that is gone: the kernel closes what it had open.
Gone(d) ==
    /\ Goes(d, "off")
    /\ instance' = IF instance = d THEN None ELSE instance
    /\ device' = IF device = d THEN None ELSE device
    /\ readOnly' = [readOnly EXCEPT ![d] = FALSE]
    /\ shutdown' = [shutdown EXCEPT ![d] = [flag |-> FALSE, poked |-> FALSE]]
    /\ ticker' = [ticker EXCEPT ![d] = "none"]
    /\ mutex' = [mutex EXCEPT ![d] = None] /\ poisoned' = [poisoned EXCEPT ![d] = FALSE]
    /\ under' = [under EXCEPT ![d] = None]
    /\ conn' = [c \in Client |-> IF conn[c].to = d THEN Closed ELSE conn[c]]
    /\ socket' = IF socket = d THEN Dead ELSE socket
    /\ UNCHANGED <<nodes, probe>>

\* The process returns, whatever its other threads are doing.
Return(d) == At(d, "returning") /\ Gone(d)

Kill(d) == "kill" \in Faults /\ ~At(d, "off") /\ Gone(d)

-----------------------------------------------------------------------------
(* Clients, the probe and the other program.                               *)

Connect(c) ==
    /\ conn[c].to = None /\ socket \in Daemon
    /\ conn' = [conn EXCEPT ![c].to = socket]
    /\ UNCHANGED <<processes, locks, socket, state, probe>>

Send(c, request) ==
    /\ conn[c].to # None /\ conn[c].request = "none"
    /\ conn' = [conn EXCEPT ![c].request = request]
    /\ UNCHANGED <<processes, locks, socket, state, probe>>

\* A client goes away between two requests.
Hang(c) ==
    /\ conn[c].accepted /\ conn[c].request = "none"
    /\ Closes(c)
    /\ UNCHANGED <<processes, locks, socket, state, probe>>

\* under_device_lock: the lock first, then the device.
ProbeStarts ==
    /\ probe = "off" /\ device = None
    /\ device' = Probe /\ nodes' = nodes \cup {Probe} /\ probe' = "on"
    /\ UNCHANGED <<processes, instance, socket, state, conn>>

ProbeWrites ==
    /\ probe \in {"on", "writing"}
    /\ probe' = IF probe = "on" THEN "writing" ELSE "on"
    /\ UNCHANGED <<processes, locks, socket, state, conn>>

ProbeEnds ==
    /\ probe # "off"
    /\ probe = "on" \/ "kill" \in Faults
    /\ probe' = "off" /\ device' = None /\ nodes' = nodes \ {Probe}
    /\ UNCHANGED <<processes, instance, socket, state, conn>>

OtherOpens ==
    /\ "other" \in Faults
    /\ nodes' = IF Other \in nodes THEN nodes \ {Other} ELSE nodes \cup {Other}
    /\ UNCHANGED <<processes, instance, device, socket, state, conn, probe>>

Startup(d) == AcquireInstance(d) \/ RemoveStale(d) \/ Bind(d) \/ TakeOwnership(d) \/ Serve(d)
Teardown(d) == Poke(d) \/ AcceptPoke(d) \/ JoinTicker(d) \/ RemoveSocket(d) \/ Return(d)

Next ==
    \/ \E d \in Daemon :
        \/ Start(d) \/ Startup(d) \/ Signal(d) \/ Teardown(d) \/ Drain(d) \/ Kill(d)
        \/ TickerPass(d) \/ TickerNaps(d) \/ TickerPanics(d) \/ TickerEnds(d)
        \/ \E c \in Client :
            \/ Accept(d, c) \/ RefuseUngreeted(d, c) \/ Lock(d, c) \/ Handled(d, c)
            \/ Unavailable(d, c) \/ Panic(d, c)
    \/ \E c \in Client : Connect(c) \/ Hang(c) \/ \E request \in Request : Send(c, request)
    \/ ProbeStarts \/ ProbeWrites \/ ProbeEnds
    \/ OtherOpens

\* The threads of a daemon run and writes end.  The state is not handed out in
\* turn, but the ticker naps between two passes and a client waits for its answer,
\* so whoever keeps asking for the state gets it.
Fairness ==
    \A d \in Daemon :
        /\ WF_vars(Startup(d)) /\ WF_vars(Teardown(d)) /\ SF_vars(Drain(d))
        /\ SF_vars(TickerPass(d)) /\ WF_vars(TickerNaps(d) \/ TickerPanics(d)) /\ WF_vars(TickerEnds(d))
        /\ \A c \in Client :
            /\ WF_vars(Accept(d, c)) /\ WF_vars(RefuseUngreeted(d, c))
            /\ SF_vars(Lock(d, c)) /\ WF_vars(Handled(d, c) \/ Panic(d, c))
            /\ WF_vars(Unavailable(d, c))

Spec == Init /\ [][Next]_vars /\ Fairness

-----------------------------------------------------------------------------
TypeOK ==
    /\ main \in [Daemon -> {"off", "starting", "alone", "cleared", "bound", "restoring",
                            "serving", "joining", "closing", "draining", "returning"}]
    /\ instance \in Daemon \cup {None}
    /\ device \in Daemon \cup {Probe, None} /\ nodes \subseteq {Probe, Other}
    /\ socket \in Daemon \cup {None, Dead}
    /\ ticker \in [Daemon -> {"none", "nap", "pass"}]
    /\ \A d \in Daemon : mutex[d] \in Client => conn[mutex[d]].to = d
    /\ \A c \in Client : conn[c].to = None => conn[c] = Closed

\* A daemon that accepts can be reached: from the moment it has bound until it
\* takes it away itself, the socket path leads to its listener (bind_socket, "two
\* starters racing that sequence can both unlink and both bind").
Reachable ==
    \A d \in Daemon : main[d] \in {"bound", "restoring", "serving", "joining"} => socket = d

\* Which processes are writing to the device.
Writers ==
    {d \in Daemon : ~readOnly[d] /\ \/ At(d, "restoring") \/ mutex[d] = "ticker"
                                    \/ \E c \in Client : mutex[d] = c /\ conn[c].request = "write"}
        \cup (IF probe = "writing" THEN {Probe} ELSE {})

\* The device never has two writers among the programs of this repository
\* (under_device_lock, "a probe and the daemon can never address the same device
\* at the same time").
OneWriter == Cardinality(Writers) <= 1

\* An orderly stop cuts neither the ticker's pass nor the write that held the state
\* when the socket was taken away (Server::run).
StopFinishesWrites ==
    [][\A d \in Daemon : Return(d) => mutex[d] # "ticker" /\ under[d] = None]_vars

\* A signal ends the process, whatever connections are open and idle and whatever
\* a handler did to the state.
StopEnds == \A d \in Daemon : shutdown[d].flag ~> At(d, "off")

\* A request is answered or its connection closed, as long as the daemon runs.
RequestsEnd ==
    \A c \in Client : conn[c].accepted /\ conn[c].request # "none"
        ~> ~conn[c].accepted \/ conn[c].request = "none"

\* A stop lets every write it finds under way complete before the process returns
\* (run: "Taking it once here lets that write finish before the process returns").
StopCutsNothing ==
    [][\A d \in Daemon : Return(d) => d \notin Writers]_vars

\* The ticker looks after the hardware as long as the daemon serves
\* (spawn_display_ticker: "Run the daemon's own clock forever").
ClockRuns == \A d \in Daemon : At(d, "serving") /\ ~shutdown[d].flag ~> ticker[d] = "pass" \/ ~At(d, "serving") \/ shutdown[d].flag

(* Whatever starts, panics or is killed, a socket that is bound leads to a  *)
(* listener and no two processes write to the device.                       *)
OneService == TypeOK /\ Reachable /\ OneWriter

(* Nobody is left waiting: a signal ends the process and a request its      *)
(* connection.                                                              *)
EveryoneLeaves == StopEnds /\ RequestsEnd
=============================================================================
