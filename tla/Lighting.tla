------------------------------ MODULE Lighting ------------------------------
(***************************************************************************)
(* The lighting executor (crates/daemon/src/lighting.rs) and the           *)
(* controller it writes to.  The controller acknowledges nothing, so the   *)
(* executor's record of what each channel shows is all the daemon has: it  *)
(* deduplicates against the record, spaces its reports by a floor per      *)
(* channel, and drops the whole record when a write fails.                 *)
(***************************************************************************)
EXTENDS Integers

CONSTANTS
    Channel,      \* the channels the controller reported
    Program,      \* the programs a client asks for
    Dark,         \* what the firmware shows on its own
    NoProgram,    \* no record
    MinInterval,  \* MIN_COMMAND_INTERVAL_MS, in steps of the clock
    MaxAttachments, \* bound: how often the controller is connected
    LightingFaults  \* which misbehaviours a model includes

(* write     a report fails: it may have arrived, or the controller may    *)
(*           have fallen back to its firmware's lighting                   *)
(* unplug    the controller is disconnected and connected again            *)
(* restart   the daemon is restarted                                       *)
LightingFaultKinds == {"write", "unplug", "restart"}

ASSUME LightingAssumption ==
    /\ MinInterval \in Nat \ {0} /\ MaxAttachments \in Nat \ {0}
    /\ NoProgram \notin Program /\ Dark \notin Program
    /\ LightingFaults \subseteq LightingFaultKinds

VARIABLES
    shown,      \* what each channel of the controller shows
    attachments, \* connections so far
    attached,   \* is the controller there
    transport,  \* the connection the executor's file descriptor belongs to, 0 for none
    committed,  \* the executor's record
    sent,       \* time since last_sent, per channel, up to MinInterval
    answer,     \* the last LightingOutcome, until something else happens
    (* What the properties compare with; no action reads these.            *)
    quiet,      \* time since a report last left, per channel, up to MinInterval
    gap         \* the shortest time there was between two reports to one channel

controller == <<shown, attachments, attached>>
lightingVars == <<controller, transport, committed, sent, answer, quiet, gap>>

NoAnswer == [hardware |-> "none", channel |-> NoProgram, program |-> NoProgram]
\* What apply answers, hardware being the HardwareState.
Answer(h, c, p) == [hardware |-> h, channel |-> c, program |-> p]

AllDark == [c \in Channel |-> Dark]
NoRecord == [c \in Channel |-> NoProgram]
LongAgo == [c \in Channel |-> MinInterval]

LightingInit ==
    /\ shown = AllDark /\ attachments = 1 /\ attached = TRUE
    /\ transport \in {0, 1}
    /\ committed = NoRecord
    /\ sent = LongAgo
    /\ quiet = LongAgo /\ gap = MinInterval
    /\ answer = NoAnswer

-----------------------------------------------------------------------------
(* LightingExecutor::apply.                                                *)

AlreadyCommitted(c, p) == committed[c] = p

TooSoon(c) == sent[c] < MinInterval

Deduplicate(c, p) ==
    /\ AlreadyCommitted(c, p)
    /\ answer' = Answer("confirmed", c, p)
    /\ UNCHANGED <<controller, transport, committed, sent, quiet, gap>>

\* For the cadence floor, or because no controller answered at the start.
Refuse(c, p) ==
    /\ ~AlreadyCommitted(c, p)
    /\ TooSoon(c) \/ transport = 0
    /\ answer' = Answer("not_applied", c, p)
    /\ UNCHANGED <<controller, transport, committed, sent, quiet, gap>>

Sending(c, p) ==
    /\ ~AlreadyCommitted(c, p) /\ ~TooSoon(c) /\ transport # 0
    /\ gap' = IF quiet[c] < gap THEN quiet[c] ELSE gap
    /\ quiet' = [quiet EXCEPT ![c] = 0]
    /\ UNCHANGED <<attachments, attached, transport>>

Send(c, p) ==
    /\ Sending(c, p)
    /\ attached /\ transport = attachments
    /\ shown' = [shown EXCEPT ![c] = p]
    /\ sent' = [sent EXCEPT ![c] = 0]
    /\ committed' = [committed EXCEPT ![c] = p]
    /\ answer' = Answer("confirmed", c, p)

\* What a failed report leaves on the controller.
AfterFailure(c, p) ==
    IF attached /\ transport = attachments
    THEN {shown, [shown EXCEPT ![c] = p], AllDark}
    ELSE {shown}

\* Mutant: only the addressed channel is dropped from the record.
ForgetOne(c) == [committed EXCEPT ![c] = NoProgram]

\* The record as a failed report leaves it: every channel is dropped.
AfterUncertain(c) == NoRecord

\* Mutant: a failed report does not count towards the floor.
SendFailsUnstamped(c, p) ==
    /\ Sending(c, p)
    /\ "write" \in LightingFaults \/ ~attached \/ transport # attachments
    /\ shown' \in AfterFailure(c, p)
    /\ committed' = AfterUncertain(c)
    /\ answer' = Answer("uncertain", c, p)
    /\ UNCHANGED sent

SendFails(c, p) ==
    /\ Sending(c, p)
    /\ "write" \in LightingFaults \/ ~attached \/ transport # attachments
    /\ shown' \in AfterFailure(c, p)
    /\ sent' = [sent EXCEPT ![c] = 0]
    /\ committed' = AfterUncertain(c)
    /\ answer' = Answer("uncertain", c, p)

ApplyProgram(c, p) == Deduplicate(c, p) \/ Refuse(c, p) \/ Send(c, p) \/ SendFails(c, p)

-----------------------------------------------------------------------------
(* The world around it.                                                    *)

Later(t) == IF t < MinInterval THEN t + 1 ELSE t

TimePasses ==
    /\ \E c \in Channel : sent[c] < MinInterval \/ quiet[c] < MinInterval
    /\ sent' = [c \in Channel |-> Later(sent[c])]
    /\ quiet' = [c \in Channel |-> Later(quiet[c])]
    /\ answer' = NoAnswer
    /\ UNCHANGED <<controller, transport, committed, gap>>

\* A controller that leaves takes its node along: the descriptor stays dead.
ControllerLeaves ==
    /\ "unplug" \in LightingFaults /\ attached
    /\ attached' = FALSE /\ shown' = AllDark
    /\ answer' = NoAnswer
    /\ UNCHANGED <<attachments, transport, committed, sent, quiet, gap>>

ControllerReturns ==
    /\ ~attached /\ attachments < MaxAttachments
    /\ attached' = TRUE /\ attachments' = attachments + 1
    /\ answer' = NoAnswer
    /\ UNCHANGED <<shown, transport, committed, sent, quiet, gap>>

\* connect: a controller that does not answer its topology leaves no transport.
\* Starting takes longer than the floor.
Restart ==
    /\ "restart" \in LightingFaults
    /\ transport' \in {0} \cup (IF attached THEN {attachments} ELSE {})
    /\ committed' = NoRecord
    /\ sent' = LongAgo /\ quiet' = LongAgo
    /\ answer' = NoAnswer
    /\ UNCHANGED <<controller, gap>>

LightingNext ==
    \/ \E c \in Channel, p \in Program : ApplyProgram(c, p)
    \/ TimePasses
    \/ ControllerLeaves \/ ControllerReturns
    \/ Restart

LightingSpec == LightingInit /\ [][LightingNext]_lightingVars

-----------------------------------------------------------------------------
LightingTypeOK ==
    /\ shown \in [Channel -> Program \cup {Dark}]
    /\ attachments \in 1..MaxAttachments /\ attached \in BOOLEAN /\ transport \in 0..attachments
    /\ committed \in [Channel -> Program \cup {NoProgram}]
    /\ sent \in [Channel -> 0..MinInterval] /\ quiet \in [Channel -> 0..MinInterval]
    /\ gap \in 0..MinInterval
    /\ answer.hardware \in {"none", "confirmed", "not_applied", "uncertain"}

\* As long as its connection lives, what the executor deduplicates against is what
\* the channels show: a report that failed on one channel leaves none of the
\* others deduplicated against a controller that fell back to its firmware.
RecordIsTrue ==
    attached /\ transport = attachments =>
        \A c \in Channel : committed[c] # NoProgram => shown[c] = committed[c]

\* A program answered as confirmed is the one its channel shows.  apply's comment
\* says that a failed report drops the whole record so that no channel is
\* deduplicated against a controller that came back on its firmware defaults, and
\* that this "needs no separate trigger".
ConfirmedIsShown ==
    answer.hardware = "confirmed" => shown[answer.channel] = answer.program

\* Two reports never leave for one channel within the floor, failed ones and
\* changes of program included: cadence is the only backpressure there is.
FloorHolds == gap = MinInterval
=============================================================================
