--------------------------- MODULE ServiceProofs ---------------------------
(***************************************************************************)
(* What the life of the daemon promises, proved for any number of daemons  *)
(* and clients and every combination of faults: one process writes the     *)
(* device, a bound socket is reachable, and a stop cuts no write.          *)
(***************************************************************************)
EXTENDS Service, FiniteSetTheorems, TLAPS

-----------------------------------------------------------------------------
(* The inductive invariant.                                                *)

Running == {"serving", "joining", "closing", "draining", "returning"}
Past == {"alone", "cleared", "bound", "restoring"} \cup Running

Connection ==
    [to: Daemon \cup {None}, accepted: BOOLEAN, greeted: BOOLEAN, request: Request \cup {"none"}]

Kinds ==
    /\ main \in [Daemon -> {"off", "starting"} \cup Past]
    /\ instance \in Daemon \cup {None}
    /\ device \in Daemon \cup {Probe, None} /\ nodes \subseteq {Probe, Other}
    /\ socket \in Daemon \cup {None, Dead}
    /\ readOnly \in [Daemon -> BOOLEAN]
    /\ shutdown \in [Daemon -> [flag: BOOLEAN, poked: BOOLEAN]]
    /\ ticker \in [Daemon -> {"none", "nap", "pass"}]
    /\ mutex \in [Daemon -> Client \cup {None, "ticker"}] /\ poisoned \in [Daemon -> BOOLEAN]
    /\ conn \in [Client -> Connection]
    /\ probe \in {"off", "on", "writing"}
    /\ under \in [Daemon -> Client \cup {None, "ticker"}]

\* A process past its lock has the lock.
InstanceHeld == \A d \in Daemon : main[d] \in Past => instance = d

\* A connection that leads nowhere is closed, one that was accepted has a process.
Connected ==
    \A c \in Client :
        /\ conn[c].to = None => conn[c] = Closed
        /\ conn[c].accepted => conn[c].to \in Daemon /\ main[conn[c].to] \in Running

\* The ticker lives until it is joined.
TickerRuns == \A d \in Daemon : ticker[d] # "none" => main[d] \in {"serving", "joining"}

\* Whoever holds the state is in a pass or in a request that may be handled.
StateHeld ==
    \A d \in Daemon :
        /\ mutex[d] = "ticker" => ticker[d] = "pass"
        /\ \A c \in Client :
            mutex[d] = c => /\ conn[c].to = d /\ conn[c].accepted /\ conn[c].request # "none"
                            /\ conn[c].greeted \/ conn[c].request = "hello"

\* Who found no conflict has the device, and so does a probe.
DeviceHeld ==
    /\ \A d \in Daemon : main[d] \in {"restoring"} \cup Running /\ ~readOnly[d] => device = d
    /\ probe # "off" => device = Probe

\* The write a stop found under way still holds the state while it is waited for.
UnderWay == \A d \in Daemon : under[d] # None => main[d] = "draining" /\ mutex[d] = under[d]

IInv ==
    Kinds /\ InstanceHeld /\ Connected /\ TickerRuns /\ StateHeld /\ DeviceHeld /\ UnderWay /\ Reachable

USE ServiceAssumption

-----------------------------------------------------------------------------
(* What the invariant is for.                                              *)

\* Whoever writes has the device, so two cannot.
LEMMA WritersHold == IInv => Writers \subseteq {device}
  BY DEF IInv, Connected, TickerRuns, StateHeld, DeviceHeld, Writers, At, Running

\* One at a time.
LEMMA OneWriterFollows == IInv => OneWriter
  <1> SUFFICES ASSUME IInv PROVE OneWriter
    OBVIOUS
  <1>1. IsFiniteSet({device}) /\ Cardinality({device}) = 1
    BY FS_Singleton
  <1>2. Cardinality(Writers) <= Cardinality({device})
    BY <1>1, WritersHold, FS_Subset
  <1> QED
    BY <1>1, <1>2 DEF OneWriter

\* The invariant has the types in it.
LEMMA TypesFollow == IInv => TypeOK
  BY DEF IInv, Kinds, Connected, StateHeld, TypeOK, Past, Running

\* A process that returns has neither a pass nor a write under way.
LEMMA NothingUnderWay ==
  ASSUME IInv, NEW d \in Daemon, At(d, "returning")
  PROVE  mutex[d] # "ticker" /\ under[d] = None
  BY DEF IInv, TickerRuns, StateHeld, UnderWay, At

-----------------------------------------------------------------------------
(* How a connection changes.                                               *)

\* A connection is closed: it leads nowhere any more.
LEMMA Closing ==
  ASSUME Kinds, NEW c \in Client, Closes(c)
  PROVE  /\ conn' \in [Client -> Connection]
         /\ conn'[c] = Closed /\ ~conn'[c].accepted
         /\ \A x \in Client : x # c => conn'[x] = conn[x]
  BY DEF Kinds, Connection, Closes, Closed

\* A request is answered: the client is greeted and waits for nothing.
LEMMA Answering ==
  ASSUME Kinds, NEW c \in Client, Answered(c)
  PROVE  /\ conn' \in [Client -> Connection]
         /\ conn'[c].to = conn[c].to /\ conn'[c].accepted = conn[c].accepted
         /\ \A x \in Client : x # c => conn'[x] = conn[x]
  <1>1. conn \in [Client -> Connection] /\ conn[c] \in Connection
    BY DEF Kinds
  <1>2. conn' = [conn EXCEPT ![c] = [[conn[c] EXCEPT !.request = "none"] EXCEPT !.greeted = TRUE]]
    BY <1>1 DEF Answered
  <1>3. [[conn[c] EXCEPT !.request = "none"] EXCEPT !.greeted = TRUE] \in Connection
    BY <1>1 DEF Connection
  <1> QED
    BY <1>1, <1>2, <1>3 DEF Connection

\* The listener takes a connection.
LEMMA Accepting ==
  ASSUME Kinds, NEW c \in Client, conn' = [conn EXCEPT ![c].accepted = TRUE]
  PROVE  /\ conn' \in [Client -> Connection]
         /\ conn'[c].to = conn[c].to
         /\ conn'[c].request = conn[c].request /\ conn'[c].greeted = conn[c].greeted
         /\ \A x \in Client : x # c => conn'[x] = conn[x]
  <1>1. conn \in [Client -> Connection] /\ conn[c] \in Connection
    BY DEF Kinds
  <1>2. conn' = [conn EXCEPT ![c] = [conn[c] EXCEPT !.accepted = TRUE]]
    BY <1>1 DEF Connection
  <1>3. [conn[c] EXCEPT !.accepted = TRUE] \in Connection
    BY <1>1 DEF Connection
  <1> QED
    BY <1>1, <1>2, <1>3 DEF Connection

\* A client asks for something.
LEMMA Sending ==
  ASSUME Kinds, NEW c \in Client, NEW request \in Request, conn' = [conn EXCEPT ![c].request = request]
  PROVE  /\ conn' \in [Client -> Connection]
         /\ conn'[c].to = conn[c].to /\ conn'[c].accepted = conn[c].accepted
         /\ \A x \in Client : x # c => conn'[x] = conn[x]
  <1>1. conn \in [Client -> Connection] /\ conn[c] \in Connection
    BY DEF Kinds
  <1>2. conn' = [conn EXCEPT ![c] = [conn[c] EXCEPT !.request = request]]
    BY <1>1 DEF Connection
  <1>3. [conn[c] EXCEPT !.request = request] \in Connection
    BY <1>1 DEF Connection
  <1> QED
    BY <1>1, <1>2, <1>3 DEF Connection

\* A client reaches the socket of a process.
LEMMA Leading ==
  ASSUME Kinds, NEW c \in Client, NEW d \in Daemon, conn' = [conn EXCEPT ![c].to = d]
  PROVE  /\ conn' \in [Client -> Connection]
         /\ conn'[c].to = d /\ conn'[c].accepted = conn[c].accepted
         /\ \A x \in Client : x # c => conn'[x] = conn[x]
  <1>1. conn \in [Client -> Connection] /\ conn[c] \in Connection
    BY DEF Kinds
  <1>2. conn' = [conn EXCEPT ![c] = [conn[c] EXCEPT !.to = d]]
    BY <1>1 DEF Connection
  <1>3. [conn[c] EXCEPT !.to = d] \in Connection
    BY <1>1 DEF Connection
  <1> QED
    BY <1>1, <1>2, <1>3 DEF Connection

\* One of the two shutdown flags of a process is set or reset.
LEMMA Flagging ==
  ASSUME Kinds, NEW d \in Daemon, NEW b \in BOOLEAN,
         shutdown' \in {[shutdown EXCEPT ![d].flag = b], [shutdown EXCEPT ![d].poked = b]}
  PROVE  shutdown' \in [Daemon -> [flag: BOOLEAN, poked: BOOLEAN]]
  BY DEF Kinds

-----------------------------------------------------------------------------
(* Every step keeps it.                                                    *)

\* No process runs and no client is connected.
LEMMA InitHolds == Init => IInv
  <1> SUFFICES ASSUME Init PROVE IInv
    OBVIOUS
  <1>1. Kinds
    BY DEF Init, Kinds, Connection, Closed
  <1>2. InstanceHeld
    BY DEF Init, InstanceHeld, Past, Running
  <1>3. Connected
    BY DEF Init, Connected, Closed
  <1>4. TickerRuns
    BY DEF Init, TickerRuns
  <1>5. StateHeld
    BY DEF Init, StateHeld
  <1>6. DeviceHeld
    BY DEF Init, DeviceHeld, Running
  <1>7. UnderWay
    BY DEF Init, UnderWay
  <1>8. Reachable
    BY DEF Init, Reachable
  <1> QED
    BY <1>1, <1>2, <1>3, <1>4, <1>5, <1>6, <1>7, <1>8 DEF IInv

\* Startup: the instance lock, the stale socket, the device lock, what to restore.
LEMMA StartupHolds ==
  ASSUME IInv, NEW d \in Daemon, Start(d) \/ Startup(d)
  PROVE  IInv'
  <1>1. CASE Start(d)
    <2>1. Kinds'
      BY <1>1 DEF IInv, Kinds, Start, Goes, locks, state
    <2>2. InstanceHeld'
      BY <1>1 DEF IInv, InstanceHeld, Past, Running, Start, Goes, locks
    <2>3. Connected'
      BY <1>1 DEF IInv, Connected, Running, Start, At, Goes
    <2>4. TickerRuns'
      BY <1>1 DEF IInv, TickerRuns, Start, At, Goes
    <2>5. StateHeld'
      BY <1>1 DEF IInv, StateHeld, Start, state
    <2>6. DeviceHeld'
      BY <1>1 DEF IInv, DeviceHeld, Running, Start, Goes, locks
    <2>7. UnderWay'
      BY <1>1 DEF IInv, UnderWay, Start, At, Goes, state
    <2>8. Reachable'
      BY <1>1 DEF IInv, Reachable, Start, Goes
    <2> QED
      BY <2>1, <2>2, <2>3, <2>4, <2>5, <2>6, <2>7, <2>8 DEF IInv
  <1>2. CASE AcquireInstance(d)
    <2>1. Kinds'
      BY <1>2 DEF IInv, Kinds, Past, AcquireInstance, InstanceFree, Goes, state
    <2>2. InstanceHeld'
      BY <1>2 DEF IInv, Kinds, InstanceHeld, Past, Running, AcquireInstance, InstanceFree, Goes
    <2>3. Connected'
      BY <1>2 DEF IInv, Kinds, Connected, Running, AcquireInstance, At, Goes
    <2>4. TickerRuns'
      BY <1>2 DEF IInv, Kinds, TickerRuns, AcquireInstance, At, Goes
    <2>5. StateHeld'
      BY <1>2 DEF IInv, StateHeld, AcquireInstance, state
    <2>6. DeviceHeld'
      BY <1>2 DEF IInv, Kinds, DeviceHeld, Running, AcquireInstance, Goes
    <2>7. UnderWay'
      BY <1>2 DEF IInv, Kinds, UnderWay, AcquireInstance, At, Goes, state
    <2>8. Reachable'
      BY <1>2 DEF IInv, Kinds, Reachable, AcquireInstance, Goes
    <2> QED
      BY <2>1, <2>2, <2>3, <2>4, <2>5, <2>6, <2>7, <2>8 DEF IInv
  <1>3. CASE RemoveStale(d)
    <2>1. Kinds'
      BY <1>3 DEF IInv, Kinds, Past, RemoveStale, Goes, locks, state
    <2>2. InstanceHeld'
      BY <1>3 DEF IInv, InstanceHeld, Past, RemoveStale, At, Goes, locks
    <2>3. Connected'
      BY <1>3 DEF IInv, Connected, Running, RemoveStale, At, Goes
    <2>4. TickerRuns'
      BY <1>3 DEF IInv, TickerRuns, RemoveStale, At, Goes
    <2>5. StateHeld'
      BY <1>3 DEF IInv, StateHeld, RemoveStale, state
    <2>6. DeviceHeld'
      BY <1>3 DEF IInv, DeviceHeld, Running, RemoveStale, Goes, locks
    <2>7. UnderWay'
      BY <1>3 DEF IInv, UnderWay, RemoveStale, At, Goes, state
    <2>8. Reachable'
      BY <1>3 DEF IInv, Reachable, InstanceHeld, Past, Running, RemoveStale, At, Goes
    <2> QED
      BY <2>1, <2>2, <2>3, <2>4, <2>5, <2>6, <2>7, <2>8 DEF IInv
  <1>4. CASE Bind(d)
    <2>1. Kinds'
      BY <1>4 DEF IInv, Kinds, Past, Running, Bind, Goes, state
    <2>2. InstanceHeld'
      BY <1>4 DEF IInv, Kinds, InstanceHeld, Past, Running, Bind, At, Goes
    <2>3. Connected'
      BY <1>4 DEF IInv, Kinds, Connected, Running, Bind, At, Goes
    <2>4. TickerRuns'
      BY <1>4 DEF IInv, Kinds, TickerRuns, Bind, At, Goes
    <2>5. StateHeld'
      BY <1>4 DEF IInv, StateHeld, Bind, state
    <2>6. DeviceHeld'
      BY <1>4 DEF IInv, Kinds, DeviceHeld, Running, Bind, Goes
    <2>7. UnderWay'
      BY <1>4 DEF IInv, Kinds, UnderWay, Bind, At, Goes, state
    <2>8. Reachable'
      BY <1>4 DEF IInv, Kinds, Reachable, Bind, Goes
    <2> QED
      BY <2>1, <2>2, <2>3, <2>4, <2>5, <2>6, <2>7, <2>8 DEF IInv
  <1>5. CASE TakeOwnership(d)
    <2>1. Kinds'
      BY <1>5 DEF IInv, Kinds, Past, TakeOwnership, Conflicts, Goes, state
    <2>2. InstanceHeld'
      BY <1>5 DEF IInv, InstanceHeld, Past, TakeOwnership, At, Goes
    <2>3. Connected'
      BY <1>5 DEF IInv, Connected, Running, TakeOwnership, At, Goes
    <2>4. TickerRuns'
      BY <1>5 DEF IInv, TickerRuns, TakeOwnership, At, Goes
    <2>5. StateHeld'
      BY <1>5 DEF IInv, StateHeld, TakeOwnership, state
    <2>6. DeviceHeld'
      BY <1>5 DEF IInv, Kinds, DeviceHeld, TakeOwnership, Conflicts, Goes
    <2>7. UnderWay'
      BY <1>5 DEF IInv, UnderWay, TakeOwnership, At, Goes, state
    <2>8. Reachable'
      BY <1>5 DEF IInv, Reachable, TakeOwnership, At, Goes
    <2> QED
      BY <2>1, <2>2, <2>3, <2>4, <2>5, <2>6, <2>7, <2>8 DEF IInv
  <1>6. CASE Serve(d)
    <2>1. Kinds'
      BY <1>6 DEF IInv, Kinds, Past, Running, Serve, Goes, locks, state
    <2>2. InstanceHeld'
      BY <1>6 DEF IInv, InstanceHeld, Past, Serve, At, Goes, locks
    <2>3. Connected'
      BY <1>6 DEF IInv, Connected, Running, Serve, Goes
    <2>4. TickerRuns'
      BY <1>6 DEF IInv, Kinds, TickerRuns, Serve, Goes
    <2>5. StateHeld'
      BY <1>6 DEF IInv, StateHeld, TickerRuns, Serve, At, state
    <2>6. DeviceHeld'
      BY <1>6 DEF IInv, DeviceHeld, Serve, At, Goes, locks
    <2>7. UnderWay'
      BY <1>6 DEF IInv, UnderWay, Serve, At, Goes, state
    <2>8. Reachable'
      BY <1>6 DEF IInv, Reachable, Serve, At, Goes
    <2> QED
      BY <2>1, <2>2, <2>3, <2>4, <2>5, <2>6, <2>7, <2>8 DEF IInv
  <1> QED
    BY <1>1, <1>2, <1>3, <1>4, <1>5, <1>6 DEF Startup

\* The ticker naps, takes the state for a pass, and gives it back.
LEMMA TickerHolds ==
  ASSUME IInv, NEW d \in Daemon, TickerPass(d) \/ TickerNaps(d) \/ TickerPanics(d) \/ TickerEnds(d)
  PROVE  IInv'
  <1>1. CASE TickerPass(d)
    <2>1. Kinds'
      BY <1>1 DEF IInv, Kinds, TickerPass, locks
    <2>2. InstanceHeld'
      BY <1>1 DEF IInv, InstanceHeld, TickerPass, locks
    <2>3. Connected'
      BY <1>1 DEF IInv, Connected, TickerPass
    <2>4. TickerRuns'
      BY <1>1 DEF IInv, TickerRuns, TickerPass
    <2>5. StateHeld'
      BY <1>1 DEF IInv, Kinds, StateHeld, TickerPass
    <2>6. DeviceHeld'
      BY <1>1 DEF IInv, DeviceHeld, TickerPass, locks
    <2>7. UnderWay'
      BY <1>1 DEF IInv, UnderWay, TickerPass
    <2>8. Reachable'
      BY <1>1 DEF IInv, Reachable, TickerPass
    <2> QED
      BY <2>1, <2>2, <2>3, <2>4, <2>5, <2>6, <2>7, <2>8 DEF IInv
  <1>2. CASE TickerNaps(d)
    <2>1. Kinds'
      BY <1>2 DEF IInv, Kinds, TickerNaps, locks
    <2>2. InstanceHeld'
      BY <1>2 DEF IInv, InstanceHeld, TickerNaps, locks
    <2>3. Connected'
      BY <1>2 DEF IInv, Connected, TickerNaps
    <2>4. TickerRuns'
      BY <1>2 DEF IInv, TickerRuns, TickerNaps
    <2>5. StateHeld'
      BY <1>2 DEF IInv, Kinds, StateHeld, TickerNaps
    <2>6. DeviceHeld'
      BY <1>2 DEF IInv, DeviceHeld, TickerNaps, locks
    <2>7. UnderWay'
      BY <1>2 DEF IInv, UnderWay, TickerRuns, TickerNaps
    <2>8. Reachable'
      BY <1>2 DEF IInv, Reachable, TickerNaps
    <2> QED
      BY <2>1, <2>2, <2>3, <2>4, <2>5, <2>6, <2>7, <2>8 DEF IInv
  <1>3. CASE TickerPanics(d)
    <2>1. Kinds'
      BY <1>3 DEF IInv, Kinds, TickerPanics, locks
    <2>2. InstanceHeld'
      BY <1>3 DEF IInv, InstanceHeld, TickerPanics, locks
    <2>3. Connected'
      BY <1>3 DEF IInv, Connected, TickerPanics
    <2>4. TickerRuns'
      BY <1>3 DEF IInv, TickerRuns, TickerPanics
    <2>5. StateHeld'
      BY <1>3 DEF IInv, Kinds, StateHeld, TickerPanics
    <2>6. DeviceHeld'
      BY <1>3 DEF IInv, DeviceHeld, TickerPanics, locks
    <2>7. UnderWay'
      BY <1>3 DEF IInv, UnderWay, TickerRuns, TickerPanics
    <2>8. Reachable'
      BY <1>3 DEF IInv, Reachable, TickerPanics
    <2> QED
      BY <2>1, <2>2, <2>3, <2>4, <2>5, <2>6, <2>7, <2>8 DEF IInv
  <1>4. CASE TickerEnds(d)
    <2>1. Kinds'
      BY <1>4 DEF IInv, Kinds, TickerEnds, locks, state
    <2>2. InstanceHeld'
      BY <1>4 DEF IInv, InstanceHeld, TickerEnds, locks
    <2>3. Connected'
      BY <1>4 DEF IInv, Connected, TickerEnds
    <2>4. TickerRuns'
      BY <1>4 DEF IInv, TickerRuns, TickerEnds
    <2>5. StateHeld'
      BY <1>4 DEF IInv, StateHeld, TickerEnds, state
    <2>6. DeviceHeld'
      BY <1>4 DEF IInv, DeviceHeld, TickerEnds, locks
    <2>7. UnderWay'
      BY <1>4 DEF IInv, UnderWay, TickerEnds, state
    <2>8. Reachable'
      BY <1>4 DEF IInv, Reachable, TickerEnds
    <2> QED
      BY <2>1, <2>2, <2>3, <2>4, <2>5, <2>6, <2>7, <2>8 DEF IInv
  <1> QED
    BY <1>1, <1>2, <1>3, <1>4

\* Server::run after the loop: the ticker is joined, the socket is taken away, and
\* what still writes is waited for.
LEMMA TeardownHolds ==
  ASSUME IInv, NEW d \in Daemon,
         Signal(d) \/ Poke(d) \/ AcceptPoke(d) \/ JoinTicker(d) \/ RemoveSocket(d) \/ Drain(d)
  PROVE  IInv'
  <1>1. CASE Signal(d)
    <2>1. Kinds'
      BY <1>1, Flagging DEF IInv, Kinds, Signal, locks, state
    <2>2. InstanceHeld'
      BY <1>1, Flagging DEF IInv, InstanceHeld, Signal, locks
    <2>3. Connected'
      BY <1>1, Flagging DEF IInv, Connected, Signal
    <2>4. TickerRuns'
      BY <1>1, Flagging DEF IInv, TickerRuns, Signal
    <2>5. StateHeld'
      BY <1>1, Flagging DEF IInv, StateHeld, Signal, state
    <2>6. DeviceHeld'
      BY <1>1, Flagging DEF IInv, DeviceHeld, Signal, locks
    <2>7. UnderWay'
      BY <1>1, Flagging DEF IInv, UnderWay, Signal, state
    <2>8. Reachable'
      BY <1>1, Flagging DEF IInv, Reachable, Signal
    <2> QED
      BY <2>1, <2>2, <2>3, <2>4, <2>5, <2>6, <2>7, <2>8 DEF IInv
  <1>2. CASE Poke(d)
    <2>1. Kinds'
      BY <1>2, Flagging DEF IInv, Kinds, Poke, locks, state
    <2>2. InstanceHeld'
      BY <1>2, Flagging DEF IInv, InstanceHeld, Poke, locks
    <2>3. Connected'
      BY <1>2, Flagging DEF IInv, Connected, Poke
    <2>4. TickerRuns'
      BY <1>2, Flagging DEF IInv, TickerRuns, Poke
    <2>5. StateHeld'
      BY <1>2, Flagging DEF IInv, StateHeld, Poke, state
    <2>6. DeviceHeld'
      BY <1>2, Flagging DEF IInv, DeviceHeld, Poke, locks
    <2>7. UnderWay'
      BY <1>2, Flagging DEF IInv, UnderWay, Poke, state
    <2>8. Reachable'
      BY <1>2, Flagging DEF IInv, Reachable, Poke
    <2> QED
      BY <2>1, <2>2, <2>3, <2>4, <2>5, <2>6, <2>7, <2>8 DEF IInv
  <1>3. CASE AcceptPoke(d)
    <2>1. Kinds'
      BY <1>3, Flagging DEF IInv, Kinds, Past, Running, AcceptPoke, Goes, locks, state
    <2>2. InstanceHeld'
      BY <1>3, Flagging DEF IInv, InstanceHeld, Past, Running, AcceptPoke, At, Goes, locks
    <2>3. Connected'
      BY <1>3, Flagging DEF IInv, Connected, Running, AcceptPoke, Goes
    <2>4. TickerRuns'
      BY <1>3, Flagging DEF IInv, TickerRuns, AcceptPoke, Goes
    <2>5. StateHeld'
      BY <1>3, Flagging DEF IInv, StateHeld, AcceptPoke, state
    <2>6. DeviceHeld'
      BY <1>3, Flagging DEF IInv, DeviceHeld, Running, AcceptPoke, At, Goes, locks
    <2>7. UnderWay'
      BY <1>3, Flagging DEF IInv, UnderWay, AcceptPoke, At, Goes, state
    <2>8. Reachable'
      BY <1>3, Flagging DEF IInv, Reachable, AcceptPoke, At, Goes
    <2> QED
      BY <2>1, <2>2, <2>3, <2>4, <2>5, <2>6, <2>7, <2>8 DEF IInv
  <1>4. CASE JoinTicker(d)
    <2>1. Kinds'
      BY <1>4 DEF IInv, Kinds, Past, Running, JoinTicker, Goes, locks, state
    <2>2. InstanceHeld'
      BY <1>4 DEF IInv, InstanceHeld, Past, Running, JoinTicker, At, Goes, locks
    <2>3. Connected'
      BY <1>4 DEF IInv, Connected, Running, JoinTicker, Goes
    <2>4. TickerRuns'
      BY <1>4 DEF IInv, TickerRuns, JoinTicker, TickerGone, Goes
    <2>5. StateHeld'
      BY <1>4 DEF IInv, StateHeld, JoinTicker, state
    <2>6. DeviceHeld'
      BY <1>4 DEF IInv, DeviceHeld, Running, JoinTicker, At, Goes, locks
    <2>7. UnderWay'
      BY <1>4 DEF IInv, UnderWay, JoinTicker, At, Goes, state
    <2>8. Reachable'
      BY <1>4 DEF IInv, Reachable, JoinTicker, Goes
    <2> QED
      BY <2>1, <2>2, <2>3, <2>4, <2>5, <2>6, <2>7, <2>8 DEF IInv
  <1>5. CASE RemoveSocket(d)
    <2>1. Kinds'
      BY <1>5 DEF IInv, Kinds, Past, Running, RemoveSocket, Goes, locks, state
    <2>2. InstanceHeld'
      BY <1>5 DEF IInv, InstanceHeld, Past, Running, RemoveSocket, At, Goes, locks
    <2>3. Connected'
      BY <1>5 DEF IInv, Connected, Running, RemoveSocket, Goes
    <2>4. TickerRuns'
      BY <1>5 DEF IInv, TickerRuns, RemoveSocket, At, Goes
    <2>5. StateHeld'
      BY <1>5 DEF IInv, StateHeld, RemoveSocket, state
    <2>6. DeviceHeld'
      BY <1>5 DEF IInv, DeviceHeld, Running, RemoveSocket, At, Goes, locks
    <2>7. UnderWay'
      BY <1>5 DEF IInv, Kinds, UnderWay, RemoveSocket, Goes, state
    <2>8. Reachable'
      BY <1>5 DEF IInv, Reachable, InstanceHeld, Past, Running, RemoveSocket, At, Goes
    <2> QED
      BY <2>1, <2>2, <2>3, <2>4, <2>5, <2>6, <2>7, <2>8 DEF IInv
  <1>6. CASE Drain(d)
    <2>1. Kinds'
      BY <1>6 DEF IInv, Kinds, Past, Running, Drain, Goes, locks, state
    <2>2. InstanceHeld'
      BY <1>6 DEF IInv, InstanceHeld, Past, Running, Drain, At, Goes, locks
    <2>3. Connected'
      BY <1>6 DEF IInv, Connected, Running, Drain, Goes
    <2>4. TickerRuns'
      BY <1>6 DEF IInv, TickerRuns, Drain, At, Goes
    <2>5. StateHeld'
      BY <1>6 DEF IInv, StateHeld, Drain, state
    <2>6. DeviceHeld'
      BY <1>6 DEF IInv, DeviceHeld, Running, Drain, At, Goes, locks
    <2>7. UnderWay'
      BY <1>6 DEF IInv, UnderWay, Drain, Goes, state
    <2>8. Reachable'
      BY <1>6 DEF IInv, Reachable, Drain, Goes
    <2> QED
      BY <2>1, <2>2, <2>3, <2>4, <2>5, <2>6, <2>7, <2>8 DEF IInv
  <1> QED
    BY <1>1, <1>2, <1>3, <1>4, <1>5, <1>6

\* A process that is gone leaves nothing held.
LEMMA GoneHolds ==
  ASSUME IInv, NEW d \in Daemon, Gone(d)
  PROVE  IInv'
  <1>1. Kinds'
    BY DEF IInv, Kinds, Gone, Goes, Closed, Connection
  <1>2. InstanceHeld'
    BY DEF IInv, Kinds, InstanceHeld, Past, Running, Gone, Goes
  <1>3. Connected'
    BY DEF IInv, Kinds, Connected, Gone, Goes, Closed
  <1>4. TickerRuns'
    BY DEF IInv, Kinds, TickerRuns, Gone, Goes
  <1>5. StateHeld'
    BY DEF IInv, Kinds, StateHeld, Gone
  <1>6. DeviceHeld'
    BY DEF IInv, Kinds, DeviceHeld, Running, Gone, Goes
  <1>7. UnderWay'
    BY DEF IInv, Kinds, UnderWay, Gone, Goes
  <1>8. Reachable'
    BY DEF IInv, Kinds, Reachable, Gone, Goes
  <1> QED
    BY <1>1, <1>2, <1>3, <1>4, <1>5, <1>6, <1>7, <1>8 DEF IInv

\* A connection: greeted or refused, answered under the state, or lost to a panic.
LEMMA RequestHolds ==
  ASSUME IInv, NEW d \in Daemon, NEW c \in Client,
         \/ Accept(d, c) \/ RefuseUngreeted(d, c) \/ Lock(d, c)
         \/ Handled(d, c) \/ Unavailable(d, c) \/ Panic(d, c)
  PROVE  IInv'
  <1>1. CASE Accept(d, c) /\ shutdown[d].flag
    <2>1. Kinds'
      BY <1>1, Closing DEF IInv, Kinds, Past, Running, Accept, Closed, Goes, locks, state
    <2>2. InstanceHeld'
      BY <1>1, Closing DEF IInv, Kinds, InstanceHeld, Accept, Closed, At, Goes, locks
    <2>3. Connected'
      <3> SUFFICES ASSUME NEW x \in Client
                   PROVE  /\ conn'[x].to = None => conn'[x] = Closed
                          /\ conn'[x].accepted => conn'[x].to \in Daemon /\ main'[conn'[x].to] \in Running
        BY DEF Connected
      <3>1. CASE x = c
        BY <1>1, Closing, <3>1 DEF IInv, Accept
      <3>2. CASE x # c
        BY <1>1, Closing, <3>2 DEF IInv, Kinds, Connected, Running, Accept, Goes
      <3> QED
        BY <3>1, <3>2
    <2>4. TickerRuns'
      BY <1>1, Closing DEF IInv, Kinds, TickerRuns, Accept, Goes
    <2>5. StateHeld'
      BY <1>1, Closing DEF IInv, StateHeld, Accept, state
    <2>6. DeviceHeld'
      BY <1>1, Closing DEF IInv, Kinds, DeviceHeld, Past, Accept, Closed, At, Goes, locks
    <2>7. UnderWay'
      BY <1>1, Closing DEF IInv, Kinds, UnderWay, Accept, At, Goes, state
    <2>8. Reachable'
      BY <1>1, Closing DEF IInv, Kinds, Reachable, Accept, At, Goes
    <2> QED
      BY <2>1, <2>2, <2>3, <2>4, <2>5, <2>6, <2>7, <2>8 DEF IInv
  <1>2. CASE Accept(d, c) /\ ~shutdown[d].flag
    <2>1. Kinds'
      BY <1>2, Accepting DEF IInv, Kinds, Accept, locks, state
    <2>2. InstanceHeld'
      BY <1>2, Accepting DEF IInv, InstanceHeld, Accept, locks
    <2>3. Connected'
      <3> SUFFICES ASSUME NEW x \in Client
                   PROVE  /\ conn'[x].to = None => conn'[x] = Closed
                          /\ conn'[x].accepted => conn'[x].to \in Daemon /\ main'[conn'[x].to] \in Running
        BY DEF Connected
      <3>1. CASE x = c
        BY <1>2, Accepting, <3>1 DEF IInv, Running, Accept, At
      <3>2. CASE x # c
        BY <1>2, Accepting, <3>2 DEF IInv, Connected, Accept
      <3> QED
        BY <3>1, <3>2
    <2>4. TickerRuns'
      BY <1>2, Accepting DEF IInv, TickerRuns, Accept
    <2>5. StateHeld'
      BY <1>2, Accepting DEF IInv, StateHeld, Accept, state
    <2>6. DeviceHeld'
      BY <1>2, Accepting DEF IInv, DeviceHeld, Accept, locks
    <2>7. UnderWay'
      BY <1>2, Accepting DEF IInv, UnderWay, Accept, state
    <2>8. Reachable'
      BY <1>2, Accepting DEF IInv, Reachable, Accept
    <2> QED
      BY <2>1, <2>2, <2>3, <2>4, <2>5, <2>6, <2>7, <2>8 DEF IInv
  <1>3. CASE RefuseUngreeted(d, c)
    <2>1. Kinds'
      BY <1>3, Closing DEF IInv, Kinds, RefuseUngreeted, processes, locks, state
    <2>2. InstanceHeld'
      BY <1>3, Closing DEF IInv, InstanceHeld, RefuseUngreeted, processes, locks
    <2>3. Connected'
      <3> SUFFICES ASSUME NEW x \in Client
                   PROVE  /\ conn'[x].to = None => conn'[x] = Closed
                          /\ conn'[x].accepted => conn'[x].to \in Daemon /\ main'[conn'[x].to] \in Running
        BY DEF Connected
      <3>1. CASE x = c
        BY <1>3, Closing, <3>1 DEF IInv, RefuseUngreeted
      <3>2. CASE x # c
        BY <1>3, Closing, <3>2 DEF IInv, Connected, RefuseUngreeted, processes
      <3> QED
        BY <3>1, <3>2
    <2>4. TickerRuns'
      BY <1>3, Closing DEF IInv, TickerRuns, RefuseUngreeted, processes
    <2>5. StateHeld'
      BY <1>3, Closing DEF IInv, StateHeld, RefuseUngreeted, processes, state
    <2>6. DeviceHeld'
      BY <1>3, Closing DEF IInv, DeviceHeld, RefuseUngreeted, processes, locks
    <2>7. UnderWay'
      BY <1>3, Closing DEF IInv, UnderWay, RefuseUngreeted, processes, state
    <2>8. Reachable'
      BY <1>3, Closing DEF IInv, Reachable, RefuseUngreeted, processes
    <2> QED
      BY <2>1, <2>2, <2>3, <2>4, <2>5, <2>6, <2>7, <2>8 DEF IInv
  <1>4. CASE Lock(d, c)
    <2>1. Kinds'
      BY <1>4 DEF IInv, Kinds, Lock, processes, locks
    <2>2. InstanceHeld'
      BY <1>4 DEF IInv, InstanceHeld, Lock, processes, locks
    <2>3. Connected'
      BY <1>4 DEF IInv, Connected, Lock, processes
    <2>4. TickerRuns'
      BY <1>4 DEF IInv, TickerRuns, Lock, processes
    <2>5. StateHeld'
      BY <1>4 DEF IInv, StateHeld, Lock, processes
    <2>6. DeviceHeld'
      BY <1>4 DEF IInv, DeviceHeld, Lock, processes, locks
    <2>7. UnderWay'
      BY <1>4 DEF IInv, UnderWay, Lock, processes
    <2>8. Reachable'
      BY <1>4 DEF IInv, Reachable, Lock, processes
    <2> QED
      BY <2>1, <2>2, <2>3, <2>4, <2>5, <2>6, <2>7, <2>8 DEF IInv
  <1>5. CASE Handled(d, c)
    <2>1. Kinds'
      BY <1>5, Answering DEF IInv, Kinds, Handled, locks
    <2>2. InstanceHeld'
      BY <1>5, Answering DEF IInv, InstanceHeld, Handled, locks
    <2>3. Connected'
      <3> SUFFICES ASSUME NEW x \in Client
                   PROVE  /\ conn'[x].to = None => conn'[x] = Closed
                          /\ conn'[x].accepted => conn'[x].to \in Daemon /\ main'[conn'[x].to] \in Running
        BY DEF Connected
      <3>1. CASE x = c
        BY <1>5, Answering, <3>1 DEF IInv, Connected, StateHeld, Handled
      <3>2. CASE x # c
        BY <1>5, Answering, <3>2 DEF IInv, Connected, Handled
      <3> QED
        BY <3>1, <3>2
    <2>4. TickerRuns'
      BY <1>5, Answering DEF IInv, TickerRuns, Handled
    <2>5. StateHeld'
      BY <1>5, Answering DEF IInv, Kinds, StateHeld, Handled
    <2>6. DeviceHeld'
      BY <1>5, Answering DEF IInv, DeviceHeld, Handled, locks
    <2>7. UnderWay'
      BY <1>5, Answering DEF IInv, Kinds, UnderWay, Handled
    <2>8. Reachable'
      BY <1>5, Answering DEF IInv, Reachable, Handled
    <2> QED
      BY <2>1, <2>2, <2>3, <2>4, <2>5, <2>6, <2>7, <2>8 DEF IInv
  <1>6. CASE Unavailable(d, c) /\ conn[c].greeted
    <2>1. Kinds'
      BY <1>6, Answering DEF IInv, Kinds, Unavailable, SaysUnavailable, processes, locks, state
    <2>2. InstanceHeld'
      BY <1>6, Answering DEF IInv, InstanceHeld, Unavailable, processes, locks
    <2>3. Connected'
      <3> SUFFICES ASSUME NEW x \in Client
                   PROVE  /\ conn'[x].to = None => conn'[x] = Closed
                          /\ conn'[x].accepted => conn'[x].to \in Daemon /\ main'[conn'[x].to] \in Running
        BY DEF Connected
      <3>1. CASE x = c
        BY <1>6, Answering, <3>1 DEF IInv, Connected, Unavailable, SaysUnavailable, processes
      <3>2. CASE x # c
        BY <1>6, Answering, <3>2 DEF IInv, Connected, Unavailable, SaysUnavailable, processes
      <3> QED
        BY <3>1, <3>2
    <2>4. TickerRuns'
      BY <1>6, Answering DEF IInv, TickerRuns, Unavailable, processes
    <2>5. StateHeld'
      BY <1>6, Answering DEF IInv, StateHeld, Unavailable, SaysUnavailable, processes, state
    <2>6. DeviceHeld'
      BY <1>6, Answering DEF IInv, DeviceHeld, Unavailable, processes, locks
    <2>7. UnderWay'
      BY <1>6, Answering DEF IInv, UnderWay, Unavailable, processes, state
    <2>8. Reachable'
      BY <1>6, Answering DEF IInv, Reachable, Unavailable, processes
    <2> QED
      BY <2>1, <2>2, <2>3, <2>4, <2>5, <2>6, <2>7, <2>8 DEF IInv
  <1>7. CASE Unavailable(d, c) /\ ~conn[c].greeted
    <2>1. Kinds'
      BY <1>7, Closing DEF IInv, Kinds, Unavailable, SaysUnavailable, processes, locks, state
    <2>2. InstanceHeld'
      BY <1>7, Closing DEF IInv, InstanceHeld, Unavailable, processes, locks
    <2>3. Connected'
      <3> SUFFICES ASSUME NEW x \in Client
                   PROVE  /\ conn'[x].to = None => conn'[x] = Closed
                          /\ conn'[x].accepted => conn'[x].to \in Daemon /\ main'[conn'[x].to] \in Running
        BY DEF Connected
      <3>1. CASE x = c
        BY <1>7, Closing, <3>1 DEF IInv, Unavailable, SaysUnavailable
      <3>2. CASE x # c
        BY <1>7, Closing, <3>2 DEF IInv, Connected, Unavailable, SaysUnavailable, processes
      <3> QED
        BY <3>1, <3>2
    <2>4. TickerRuns'
      BY <1>7, Closing DEF IInv, TickerRuns, Unavailable, processes
    <2>5. StateHeld'
      BY <1>7, Closing DEF IInv, StateHeld, Unavailable, SaysUnavailable, processes, state
    <2>6. DeviceHeld'
      BY <1>7, Closing DEF IInv, DeviceHeld, Unavailable, processes, locks
    <2>7. UnderWay'
      BY <1>7, Closing DEF IInv, UnderWay, Unavailable, processes, state
    <2>8. Reachable'
      BY <1>7, Closing DEF IInv, Reachable, Unavailable, processes
    <2> QED
      BY <2>1, <2>2, <2>3, <2>4, <2>5, <2>6, <2>7, <2>8 DEF IInv
  <1>8. CASE Panic(d, c)
    <2>1. Kinds'
      BY <1>8, Closing DEF IInv, Kinds, Panic, locks
    <2>2. InstanceHeld'
      BY <1>8, Closing DEF IInv, InstanceHeld, Panic, locks
    <2>3. Connected'
      <3> SUFFICES ASSUME NEW x \in Client
                   PROVE  /\ conn'[x].to = None => conn'[x] = Closed
                          /\ conn'[x].accepted => conn'[x].to \in Daemon /\ main'[conn'[x].to] \in Running
        BY DEF Connected
      <3>1. CASE x = c
        BY <1>8, Closing, <3>1 DEF IInv, Panic
      <3>2. CASE x # c
        BY <1>8, Closing, <3>2 DEF IInv, Connected, Panic
      <3> QED
        BY <3>1, <3>2
    <2>4. TickerRuns'
      BY <1>8, Closing DEF IInv, TickerRuns, Panic
    <2>5. StateHeld'
      BY <1>8, Closing DEF IInv, Kinds, StateHeld, Panic
    <2>6. DeviceHeld'
      BY <1>8, Closing DEF IInv, DeviceHeld, Panic, locks
    <2>7. UnderWay'
      BY <1>8, Closing DEF IInv, Kinds, UnderWay, Panic
    <2>8. Reachable'
      BY <1>8, Closing DEF IInv, Reachable, Panic
    <2> QED
      BY <2>1, <2>2, <2>3, <2>4, <2>5, <2>6, <2>7, <2>8 DEF IInv
  <1> QED
    BY <1>1, <1>2, <1>3, <1>4, <1>5, <1>6, <1>7, <1>8

\* Clients, the probe and other openers of the device.
LEMMA OutsideHolds ==
  ASSUME IInv,
         \/ \E c \in Client : Connect(c) \/ Hang(c) \/ \E request \in Request : Send(c, request)
         \/ ProbeStarts \/ ProbeWrites \/ ProbeEnds \/ OtherOpens
  PROVE  IInv'
  <1>1. ASSUME NEW c \in Client, Connect(c) PROVE IInv'
    <2>1. Kinds'
      BY <1>1, Leading DEF IInv, Kinds, Connect, processes, locks, state
    <2>2. InstanceHeld'
      BY <1>1, Leading DEF IInv, InstanceHeld, Connect, processes, locks
    <2>3. Connected'
      <3> SUFFICES ASSUME NEW x \in Client
                   PROVE  /\ conn'[x].to = None => conn'[x] = Closed
                          /\ conn'[x].accepted => conn'[x].to \in Daemon /\ main'[conn'[x].to] \in Running
        BY DEF Connected
      <3>1. CASE x = c
        BY <1>1, Leading, <3>1 DEF IInv, Kinds, Connected, Connect
      <3>2. CASE x # c
        BY <1>1, Leading, <3>2 DEF IInv, Connected, Connect, processes
      <3> QED
        BY <3>1, <3>2
    <2>4. TickerRuns'
      BY <1>1, Leading DEF IInv, TickerRuns, Connect, processes
    <2>5. StateHeld'
      BY <1>1, Leading DEF IInv, StateHeld, Connect, processes, state
    <2>6. DeviceHeld'
      BY <1>1, Leading DEF IInv, DeviceHeld, Connect, processes, locks
    <2>7. UnderWay'
      BY <1>1, Leading DEF IInv, UnderWay, Connect, processes, state
    <2>8. Reachable'
      BY <1>1, Leading DEF IInv, Reachable, Connect, processes
    <2> QED
      BY <2>1, <2>2, <2>3, <2>4, <2>5, <2>6, <2>7, <2>8 DEF IInv
  <1>2. ASSUME NEW c \in Client, Hang(c) PROVE IInv'
    <2>1. Kinds'
      BY <1>2, Closing DEF IInv, Kinds, Hang, processes, locks, state
    <2>2. InstanceHeld'
      BY <1>2, Closing DEF IInv, InstanceHeld, Hang, processes, locks
    <2>3. Connected'
      <3> SUFFICES ASSUME NEW x \in Client
                   PROVE  /\ conn'[x].to = None => conn'[x] = Closed
                          /\ conn'[x].accepted => conn'[x].to \in Daemon /\ main'[conn'[x].to] \in Running
        BY DEF Connected
      <3>1. CASE x = c
        BY <1>2, Closing, <3>1 DEF IInv, Hang
      <3>2. CASE x # c
        BY <1>2, Closing, <3>2 DEF IInv, Connected, Hang, processes
      <3> QED
        BY <3>1, <3>2
    <2>4. TickerRuns'
      BY <1>2, Closing DEF IInv, TickerRuns, Hang, processes
    <2>5. StateHeld'
      BY <1>2, Closing DEF IInv, StateHeld, Hang, processes, state
    <2>6. DeviceHeld'
      BY <1>2, Closing DEF IInv, DeviceHeld, Hang, processes, locks
    <2>7. UnderWay'
      BY <1>2, Closing DEF IInv, UnderWay, Hang, processes, state
    <2>8. Reachable'
      BY <1>2, Closing DEF IInv, Reachable, Hang, processes
    <2> QED
      BY <2>1, <2>2, <2>3, <2>4, <2>5, <2>6, <2>7, <2>8 DEF IInv
  <1>3. ASSUME NEW c \in Client, NEW request \in Request, Send(c, request) PROVE IInv'
    <2>1. Kinds'
      BY <1>3, Sending DEF IInv, Kinds, Send, processes, locks, state
    <2>2. InstanceHeld'
      BY <1>3, Sending DEF IInv, InstanceHeld, Send, processes, locks
    <2>3. Connected'
      <3> SUFFICES ASSUME NEW x \in Client
                   PROVE  /\ conn'[x].to = None => conn'[x] = Closed
                          /\ conn'[x].accepted => conn'[x].to \in Daemon /\ main'[conn'[x].to] \in Running
        BY DEF Connected
      <3>1. CASE x = c
        BY <1>3, Sending, <3>1 DEF IInv, Connected, Send, processes
      <3>2. CASE x # c
        BY <1>3, Sending, <3>2 DEF IInv, Connected, Send, processes
      <3> QED
        BY <3>1, <3>2
    <2>4. TickerRuns'
      BY <1>3, Sending DEF IInv, TickerRuns, Send, processes
    <2>5. StateHeld'
      BY <1>3, Sending DEF IInv, StateHeld, Send, processes, state
    <2>6. DeviceHeld'
      BY <1>3, Sending DEF IInv, DeviceHeld, Send, processes, locks
    <2>7. UnderWay'
      BY <1>3, Sending DEF IInv, UnderWay, Send, processes, state
    <2>8. Reachable'
      BY <1>3, Sending DEF IInv, Reachable, Send, processes
    <2> QED
      BY <2>1, <2>2, <2>3, <2>4, <2>5, <2>6, <2>7, <2>8 DEF IInv
  <1>4. CASE ProbeStarts
    <2>1. Kinds'
      BY <1>4 DEF IInv, Kinds, ProbeStarts, processes, state
    <2>2. InstanceHeld'
      BY <1>4 DEF IInv, InstanceHeld, ProbeStarts, processes
    <2>3. Connected'
      BY <1>4 DEF IInv, Connected, ProbeStarts, processes
    <2>4. TickerRuns'
      BY <1>4 DEF IInv, TickerRuns, ProbeStarts, processes
    <2>5. StateHeld'
      BY <1>4 DEF IInv, StateHeld, ProbeStarts, processes, state
    <2>6. DeviceHeld'
      BY <1>4 DEF IInv, DeviceHeld, ProbeStarts, processes
    <2>7. UnderWay'
      BY <1>4 DEF IInv, UnderWay, ProbeStarts, processes, state
    <2>8. Reachable'
      BY <1>4 DEF IInv, Reachable, ProbeStarts, processes
    <2> QED
      BY <2>1, <2>2, <2>3, <2>4, <2>5, <2>6, <2>7, <2>8 DEF IInv
  <1>5. CASE ProbeWrites
    <2>1. Kinds'
      BY <1>5 DEF IInv, Kinds, ProbeWrites, processes, locks, state
    <2>2. InstanceHeld'
      BY <1>5 DEF IInv, InstanceHeld, ProbeWrites, processes, locks
    <2>3. Connected'
      BY <1>5 DEF IInv, Connected, ProbeWrites, processes
    <2>4. TickerRuns'
      BY <1>5 DEF IInv, TickerRuns, ProbeWrites, processes
    <2>5. StateHeld'
      BY <1>5 DEF IInv, StateHeld, ProbeWrites, processes, state
    <2>6. DeviceHeld'
      BY <1>5 DEF IInv, DeviceHeld, ProbeWrites, processes, locks
    <2>7. UnderWay'
      BY <1>5 DEF IInv, UnderWay, ProbeWrites, processes, state
    <2>8. Reachable'
      BY <1>5 DEF IInv, Reachable, ProbeWrites, processes
    <2> QED
      BY <2>1, <2>2, <2>3, <2>4, <2>5, <2>6, <2>7, <2>8 DEF IInv
  <1>6. CASE ProbeEnds
    <2>1. Kinds'
      BY <1>6 DEF IInv, Kinds, ProbeEnds, processes, state
    <2>2. InstanceHeld'
      BY <1>6 DEF IInv, InstanceHeld, ProbeEnds, processes
    <2>3. Connected'
      BY <1>6 DEF IInv, Connected, ProbeEnds, processes
    <2>4. TickerRuns'
      BY <1>6 DEF IInv, TickerRuns, ProbeEnds, processes
    <2>5. StateHeld'
      BY <1>6 DEF IInv, StateHeld, ProbeEnds, processes, state
    <2>6. DeviceHeld'
      BY <1>6 DEF IInv, DeviceHeld, ProbeEnds, processes
    <2>7. UnderWay'
      BY <1>6 DEF IInv, UnderWay, ProbeEnds, processes, state
    <2>8. Reachable'
      BY <1>6 DEF IInv, Reachable, ProbeEnds, processes
    <2> QED
      BY <2>1, <2>2, <2>3, <2>4, <2>5, <2>6, <2>7, <2>8 DEF IInv
  <1>7. CASE OtherOpens
    <2>1. Kinds'
      BY <1>7 DEF IInv, Kinds, OtherOpens, processes, state
    <2>2. InstanceHeld'
      BY <1>7 DEF IInv, InstanceHeld, OtherOpens, processes
    <2>3. Connected'
      BY <1>7 DEF IInv, Connected, OtherOpens, processes
    <2>4. TickerRuns'
      BY <1>7 DEF IInv, TickerRuns, OtherOpens, processes
    <2>5. StateHeld'
      BY <1>7 DEF IInv, StateHeld, OtherOpens, processes, state
    <2>6. DeviceHeld'
      BY <1>7 DEF IInv, DeviceHeld, OtherOpens, processes
    <2>7. UnderWay'
      BY <1>7 DEF IInv, UnderWay, OtherOpens, processes, state
    <2>8. Reachable'
      BY <1>7 DEF IInv, Reachable, OtherOpens, processes
    <2> QED
      BY <2>1, <2>2, <2>3, <2>4, <2>5, <2>6, <2>7, <2>8 DEF IInv
  <1> QED
    BY <1>1, <1>2, <1>3, <1>4, <1>5, <1>6, <1>7

\* Nothing happens.
LEMMA StutterHolds == IInv /\ UNCHANGED vars => IInv'
  BY DEF IInv, Kinds, InstanceHeld, Connected, TickerRuns, StateHeld, DeviceHeld, UnderWay, Reachable,
         vars, processes, locks, state

\* The invariant of the processes, their threads and their locks: who is past the
\* instance lock has it, who may write has the device, who holds the state is in a
\* pass or a request, and what a stop waits for still holds it.
THEOREM Inductive == Spec => []IInv
  <1>1. IInv /\ [Next]_vars => IInv'
    BY StartupHolds, TickerHolds, TeardownHolds, GoneHolds, RequestHolds, OutsideHolds, StutterHolds
       DEF Next, Teardown, Return, Kill
  <1> QED
    BY InitHolds, <1>1, PTL DEF Spec

\* A socket that is bound leads to the listener of a living process, and no two
\* programs of the repository write to the device (bind_socket, under_device_lock).
THEOREM ServiceIsOne == Spec => []OneService
  <1>1. IInv => OneService
    BY TypesFollow, OneWriterFollows DEF OneService, IInv
  <1> QED
    BY Inductive, <1>1, PTL

\* An orderly stop cuts neither the ticker's pass nor the write that held the state
\* when the socket was taken away (Server::run).
THEOREM StopWaits == Spec => StopFinishesWrites
  <1>1. IInv => \A d \in Daemon : Return(d) => mutex[d] # "ticker" /\ under[d] = None
    BY NothingUnderWay DEF Return
  <1> QED
    BY Inductive, <1>1, PTL DEF StopFinishesWrites
=============================================================================
