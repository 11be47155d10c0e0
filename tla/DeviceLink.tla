----------------------------- MODULE DeviceLink -----------------------------
(***************************************************************************)
(* How the daemon reaches a device: opening the hidraw node, claiming the  *)
(* bulk interface, asking the device what it is (crates/hardware-linux/src *)
(* hid.rs, usbfs.rs, lcd.rs, rgb.rs; crates/daemon/src/startup.rs), and    *)
(* then one picture after another over the Kraken's two interfaces.        *)
(*                                                                         *)
(* The hidraw descriptor has a queue of its own.  Everything the device    *)
(* says lands in it: answers to this link, answers nobody waits for any    *)
(* more, and the reports the kernel driver polls for on the same           *)
(* interface.  A report is its identifier; a picture is a value.  A        *)
(* deadline is not a number: waiting ends when nothing is left in the      *)
(* queue and the device is not going to answer in time.                    *)
(***************************************************************************)
EXTENDS Integers, Sequences

CONSTANTS
    Picture,    \* the pictures the daemon sends
    None, Torn, \* no picture; a picture whose pixels arrived too early
    MaxReads,   \* MAX_QUERY_READS
    Drained,    \* MAX_DRAINED_REPORTS
    Backlog,    \* how much is in the queue when the node is opened
    MaxStatus,  \* bound: how many reports the driver polls for
    MaxFrames,  \* bound: how many pictures are sent
    Faults      \* the misbehaviours a behaviour may show

(* silent   the device does not answer a command                           *)
(* late     an answer may come when nobody waits for it any more           *)
(* refusal  a write to a connected device fails                            *)
(* unplug   the device leaves                                              *)
FaultKinds == {"silent", "late", "refusal", "unplug"}

ASSUME DeviceLinkAssumption ==
    /\ MaxReads \in Nat \ {0} /\ Drained \in Nat /\ Backlog \in Nat
    /\ MaxStatus \in Nat /\ MaxFrames \in Nat
    /\ {None, Torn} \cap Picture = {}
    /\ Faults \subseteq FaultKinds

VARIABLES
    given,     \* which device, whether somebody else has its interface, what misbehaves
    pc,        \* where the calling thread is
    queue,     \* the input reports of the descriptor
    asked,     \* ask: the answers received so far, and the reads left
    claimed,   \* is the bulk interface claimed
    link,      \* does the caller hold a link
    frame,     \* send_frame: the picture, the sequences left, acknowledged, the result
    (* The device and the bounds.                                          *)
    plugged,   \* is it there
    unanswered,\* the commands it has not answered yet
    panel,     \* its two buffers
    spent      \* how many status reports and pictures so far

connection == <<asked, claimed, link>>
world == <<given, plugged>>
vars == <<world, pc, queue, connection, frame, unanswered, panel, spent>>

Is(kind) == given.device = kind
May(fault) == fault \in given.faults

\* What no link can do without.
Essential == IF Is("kraken") THEN "display" ELSE "lighting"

\* What is asked of a device, each request named like its answer.
Requests == <<"firmware", Essential>>
Exchanges == {"firmware", Essential}

\* Mutant: the panel is sent every picture once.
Once == 1

SequencesPerFrame == 2

Init ==
    /\ given \in [device : {"kraken", "rgb"}, busy : BOOLEAN, faults : SUBSET Faults]
    /\ pc = "open" /\ queue = [i \in 1..Backlog |-> "status"]
    /\ asked = [answers |-> {}, reads |-> 0] /\ claimed = FALSE /\ link = FALSE
    /\ frame = [picture |-> None, left |-> 0, acks |-> 0, result |-> "none"]
    /\ plugged = TRUE /\ unanswered = <<>>
    /\ panel = [glass |-> None, hidden |-> None, filled |-> None, ready |-> FALSE]
    /\ spent = [status |-> 0, frames |-> 0]

-----------------------------------------------------------------------------
(* connect: open, drain, claim, ask.                                       *)

\* Mutant: what was queued before this run stays.
DrainNothing(q) == q

\* Discards what the device queued before, up to a bound.
Drain(q) == SubSeq(q, Drained + 1, Len(q))

Open ==
    /\ pc = "open"
    /\ queue' = Drain(queue)
    /\ pc' = CASE ~plugged -> "absent" [] plugged /\ Is("kraken") -> "claim" [] OTHER -> "ask"
    /\ UNCHANGED <<world, connection, frame, unanswered, panel, spent>>

\* Usbfs::claim: an interface somebody has is a refusal, and the query goes on.
Claim ==
    /\ pc = "claim"
    /\ claimed' = (plugged /\ ~given.busy)
    /\ pc' = "ask"
    /\ UNCHANGED <<world, queue, asked, link, frame, unanswered, panel, spent>>

\* The requests go out before the first read; a write that fails ends the query,
\* and the requests before it are on their way.
Ask ==
    /\ pc = "ask"
    /\ \/ /\ plugged
          /\ unanswered' = Requests
          /\ asked' = [asked EXCEPT !.reads = MaxReads] /\ pc' = "collect"
       \/ /\ ~plugged \/ May("refusal")
          /\ unanswered' \in {<<>>} \cup (IF plugged THEN {<<"firmware">>} ELSE {})
          /\ pc' = "resolve" /\ UNCHANGED asked
    /\ UNCHANGED <<world, queue, claimed, link, frame, panel, spent>>

\* No report will come before the deadline.
Quiet == /\ queue = <<>>
         /\ unanswered = <<>> \/ ~plugged \/ May("late")

\* Answers are matched by identifier; anything else is read past.  A read that
\* fails is the end of the query, and what was answered before is dropped.
Take(report) == asked.answers \cup ({report} \cap Exchanges)

Collect ==
    /\ pc = "collect"
    /\ \/ /\ Exchanges \subseteq asked.answers \/ asked.reads = 0 \/ (Quiet /\ plugged)
          /\ pc' = "resolve" /\ UNCHANGED <<queue, asked>>
       \/ /\ ~(Exchanges \subseteq asked.answers) /\ asked.reads > 0 /\ queue = <<>> /\ ~plugged
          /\ asked' = [asked EXCEPT !.answers = {}]
          /\ pc' = "resolve" /\ UNCHANGED queue
       \/ /\ ~(Exchanges \subseteq asked.answers) /\ asked.reads > 0 /\ queue # <<>>
          /\ asked' = [answers |-> Take(Head(queue)), reads |-> asked.reads - 1]
          /\ queue' = Tail(queue) /\ UNCHANGED pc
    /\ UNCHANGED <<world, claimed, link, frame, unanswered, panel, spent>>

\* A link is kept only whole, and only to a device that said what it is.
Keeps == Essential \in asked.answers /\ (Is("kraken") => claimed)

\* Dropping half a link releases the claim with its descriptor.
Resolve ==
    /\ pc = "resolve"
    /\ link' = Keeps /\ claimed' = (claimed /\ Keeps)
    /\ pc' = IF Keeps THEN "idle" ELSE "absent"
    /\ UNCHANGED <<world, queue, asked, frame, unanswered, panel, spent>>

-----------------------------------------------------------------------------
(* A setting or a color is one report, written and not answered.           *)

WriteReport ==
    /\ pc = "idle" /\ spent.frames < MaxFrames
    /\ \E ok \in BOOLEAN :
         /\ IF ok THEN plugged ELSE ~plugged \/ May("refusal")
         /\ frame' = [frame EXCEPT !.picture = None, !.acks = 0,
                                   !.result = IF ok THEN "ok" ELSE "error"]
    /\ spent' = [spent EXCEPT !.frames = @ + 1]
    /\ UNCHANGED <<world, pc, queue, connection, unanswered, panel>>

-----------------------------------------------------------------------------
(* send_frame: the whole sequence, twice.                                  *)

SendFrame(picture) ==
    /\ pc = "idle" /\ Is("kraken") /\ spent.frames < MaxFrames
    /\ frame' = [picture |-> picture, left |-> SequencesPerFrame, acks |-> 0, result |-> "none"]
    /\ spent' = [spent EXCEPT !.frames = @ + 1]
    /\ pc' = "start"
    /\ UNCHANGED <<world, queue, connection, unanswered, panel>>

\* An error leaves at once, wherever the sequence stands.
Fails ==
    /\ ~plugged \/ May("refusal")
    /\ pc' = "idle"
    /\ frame' = [frame EXCEPT !.left = 0, !.result = "error"]
    /\ UNCHANGED <<unanswered, panel>>

WriteCommand ==
    /\ pc \in {"start", "end"}
    /\ \/ /\ plugged
          /\ unanswered' = Append(unanswered, pc)
          /\ pc' = IF pc = "start" THEN "start_ack" ELSE "end_ack"
          /\ UNCHANGED <<frame, panel>>
       \/ Fails
    /\ UNCHANGED <<world, queue, connection, spent>>

\* Mutant: the wait has no deadline.
WaitsForever == FALSE

\* The wait for an acknowledgement is over without one.
GivesUp == Quiet

\* await_ack ends, with the answer or without it.
Acknowledged(n) ==
    IF pc = "start_ack"
    THEN /\ pc' = "pixels"
         /\ frame' = [frame EXCEPT !.acks = @ + n]
    ELSE /\ pc' = IF frame.left > 1 THEN "start" ELSE "idle"
         /\ frame' = [frame EXCEPT !.acks = @ + n, !.left = @ - 1,
                                   !.result = IF frame.left > 1 THEN "none" ELSE "ok"]

\* Anything else in the queue is read past.
AwaitAck ==
    /\ pc \in {"start_ack", "end_ack"}
    /\ \/ /\ queue # <<>> /\ Head(queue) = pc
          /\ queue' = Tail(queue) /\ Acknowledged(1)
       \/ /\ queue # <<>> /\ Head(queue) # pc
          /\ queue' = Tail(queue) /\ UNCHANGED <<pc, frame>>
       \/ GivesUp /\ UNCHANGED queue /\ Acknowledged(0)
    /\ UNCHANGED <<world, connection, unanswered, panel, spent>>

\* The header and the pixels, to the bulk endpoint; pixels that come before the
\* panel is ready paint a band of it.
WritePixels ==
    /\ pc = "pixels"
    /\ \/ /\ plugged
          /\ panel' = [panel EXCEPT !.filled = IF panel.ready THEN frame.picture ELSE Torn]
          /\ pc' = "end" /\ UNCHANGED <<frame, unanswered>>
       \/ Fails
    /\ UNCHANGED <<world, queue, connection, spent>>

-----------------------------------------------------------------------------
(* The device: it answers its commands in order; the panel swaps buffers   *)
(* on the transfer after the one that filled the hidden one.               *)

AckOf(command) ==
    CASE command = "start" -> "start_ack" [] command = "end" -> "end_ack" [] OTHER -> command

Swapped == [panel EXCEPT !.glass = panel.hidden, !.hidden = panel.filled, !.ready = FALSE]

Respond ==
    /\ plugged /\ unanswered # <<>>
    /\ \E silent \in IF May("silent") THEN BOOLEAN ELSE {FALSE} :
         /\ queue' = IF silent THEN queue ELSE Append(queue, AckOf(Head(unanswered)))
         /\ panel' = CASE Head(unanswered) = "start" -> [panel EXCEPT !.ready = ~silent]
                       [] Head(unanswered) = "end" -> Swapped
                       [] OTHER -> panel
    /\ unanswered' = Tail(unanswered)
    /\ UNCHANGED <<world, pc, connection, frame, spent>>

\* The kernel driver polls the same interface; every descriptor is given the answer.
StatusReport ==
    /\ plugged /\ pc # "open" /\ spent.status < MaxStatus
    /\ queue' = Append(queue, "status")
    /\ spent' = [spent EXCEPT !.status = @ + 1]
    /\ UNCHANGED <<world, pc, connection, frame, unanswered, panel>>

Unplug ==
    /\ plugged /\ May("unplug")
    /\ plugged' = FALSE
    /\ UNCHANGED <<given, pc, queue, connection, frame, unanswered, panel, spent>>

Connects == Open \/ Claim \/ Ask \/ Collect \/ Resolve
Sends == WriteCommand \/ AwaitAck \/ WritePixels

Next ==
    \/ Open \/ Claim \/ Ask \/ Collect \/ Resolve
    \/ WriteReport
    \/ \E picture \in Picture : SendFrame(picture)
    \/ WriteCommand \/ AwaitAck \/ WritePixels
    \/ Respond \/ StatusReport \/ Unplug

\* The thread runs; a device that is there gets round to every command.
Fairness == WF_vars(Connects) /\ WF_vars(Sends) /\ WF_vars(Respond)

Spec == Init /\ [][Next]_vars /\ Fairness

-----------------------------------------------------------------------------
TypeOK ==
    /\ pc \in {"open", "claim", "ask", "collect", "resolve", "absent", "idle",
               "start", "start_ack", "pixels", "end", "end_ack"}
    /\ asked.answers \subseteq Exchanges /\ asked.reads \in 0..MaxReads
    /\ claimed \in BOOLEAN /\ link \in BOOLEAN
    /\ frame.picture \in Picture \cup {None} /\ frame.left \in 0..SequencesPerFrame
    /\ frame.acks \in 0..(2 * SequencesPerFrame)
    /\ frame.result \in {"none", "ok", "error"}
    /\ {panel.glass, panel.hidden, panel.filled} \subseteq Picture \cup {None, Torn}

\* A device that misbehaves in no way is found whatever was queued before the run
\* and whatever its driver polls for meanwhile, and a link is kept unless somebody
\* else has the bulk interface (lcd.rs and rgb.rs, connect; hid.rs, ask).
ConnectsWhenItCan ==
    given.faults = {} /\ pc \in {"idle", "absent"} =>
        link = (Is("rgb") \/ ~given.busy)

\* The claim on the bulk interface lives and dies with the link: no descriptor
\* keeps an interface nobody can send a frame through.
ClaimIsTheLinks ==
    pc \notin {"claim", "ask", "collect", "resolve"} => claimed = (link /\ Is("kraken"))

\* A picture whose commands were all acknowledged is on the glass, whole, when
\* send_frame returns: the wait is for this picture's answers, and the second
\* sequence pushes the first one out of the hidden buffer (SEQUENCES_PER_FRAME).
FrameIsShown ==
    pc = "idle" /\ frame.result = "ok" /\ frame.acks = 2 * SequencesPerFrame
        => panel.glass = frame.picture

\* The pixels of a panel that answers never come before it said it was ready
\* (await_ack: skipping the wait "left frames half painted").
PixelsWaitForPanel ==
    [][WritePixels /\ panel' # panel /\ ~May("silent") => panel.ready]_vars

\* A panel that never answers costs a wait, not the daemon: a frame that was
\* begun ends, with an answer or an error.
FrameEnds == pc = "start" ~> pc = "idle"

\* A link that opened has a claim of its own, and one that can open does.
LinkIsWhole == TypeOK /\ ClaimIsTheLinks /\ ConnectsWhenItCan

\* A frame waits for the panel before its pixels, and for nothing for ever.
FramesRunTheirCourse == PixelsWaitForPanel /\ FrameEnds
=============================================================================
