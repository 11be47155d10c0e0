------------------------------ MODULE Journal ------------------------------
(***************************************************************************)
(* What the daemon writes down and what it lets out: the bounded log, its  *)
(* severities and the redacted export (crates/core/src/diagnostics.rs),    *)
(* what startup registers (crates/daemon/src/startup.rs), and how the      *)
(* sampler's failing collectors reach the log (crates/daemon/src/          *)
(* telemetry.rs and state.rs).                                             *)
(*                                                                         *)
(* A text is a sequence of letters; Blot stands for the placeholder, whose *)
(* brackets no serial holds.                                               *)
(***************************************************************************)
EXTENDS Naturals, Sequences, FiniteSets

LOCAL INSTANCE SequencesExt

CONSTANTS
    Collectors,      \* the threads that sample
    Panics,          \* texts a collector can panic with
    Messages,        \* texts a client's end can carry
    Serials,         \* what a supported device can publish as its serial
    Word,            \* the fixed text of each kind of entry, as it is serialized
    MinSecret,       \* MIN_SECRET_LEN
    Capacity         \* DEFAULT_CAPACITY

Blot == "[redacted]"
Kinds == {"failed", "recovered", "disconnected", "applied"}
Hardware == {"confirmed", "onboard", "not_applied", "uncertain"}

\* No letter of a text is the placeholder, and a panic always says something.
ASSUME JournalAssumption ==
    /\ MinSecret \in Nat \ {0} /\ Capacity \in Nat \ {0}
    /\ DOMAIN Word = Kinds
    /\ \A t \in Panics \cup Messages \cup Serials \cup {Word[k] : k \in Kinds} : Blot \notin Range(t)
    /\ <<>> \notin Panics

VARIABLES
    secrets,    \* Redactor: what must never leave, in the order registered
    entries,    \* DiagnosticsLog.events, oldest first
    failing,    \* SamplerState.failures: what each failing collector said
    reported    \* DaemonState.reported_failures

journalVars == <<secrets, entries, failing, reported>>

Silent == <<>>

\* EventKind::severity, for one kind of each of its arms.
Gravity(kind, hardware) ==
    CASE kind = "failed" -> "warning"
      [] kind = "applied" /\ hardware = "uncertain" -> "error"
      [] kind = "applied" /\ hardware = "not_applied" -> "warning"
      [] OTHER -> "info"

Entry(kind, about, text, hardware) ==
    [kind |-> kind, about |-> about, text |-> text, severity |-> Gravity(kind, hardware)]

\* DiagnosticsLog::record, entry by entry: the oldest leave first.
Kept(log) == SubSeq(log, 1 + IF Len(log) > Capacity THEN Len(log) - Capacity ELSE 0, Len(log))
Record(new) == entries' = Kept(entries \o new)

\* Redactor::add_secret
WithSecret(list, serial) ==
    IF Len(serial) >= MinSecret /\ serial \notin Range(list) THEN Append(list, serial) ELSE list

Starts(text, part) == Len(part) <= Len(text) /\ SubSeq(text, 1, Len(part)) = part

\* str::replace, from the left and without overlap.
Replace(text, secret) ==
    LET from[i \in 1..Len(text) + 1] ==
            IF i > Len(text) THEN <<>>
            ELSE IF Starts(SubSeq(text, i, Len(text)), secret)
                 THEN <<Blot>> \o from[i + Len(secret)]
                 ELSE <<text[i]>> \o from[i + 1]
    IN  from[1]

\* Redactor::redact
Redact(text) == FoldLeft(Replace, text, secrets)

\* Redactor::redacted: every string of the document, its fixed words included, and no
\* document at all when one of those no longer reads back.
Readable == \A e \in Range(entries) : Redact(Word[e.kind]) = Word[e.kind]
Export ==
    IF Readable
    THEN [n \in DOMAIN entries |-> [entries[n] EXCEPT !.text = Redact(entries[n].text)]]
    ELSE <<>>

\* record_discovery: the serials of what was found, up to two devices.
JournalInit ==
    /\ \E found \in {<<>>} \cup {<<s>> : s \in Serials} \cup Serials \X Serials :
        secrets = FoldLeft(WithSecret, <<>>, found)
    /\ entries = <<>>
    /\ failing = [c \in Collectors |-> Silent]
    /\ reported = [c \in Collectors |-> Silent]

\* A pass of a collector: set_failure, by what catch_unwind caught.
CollectorPass(c) ==
    /\ \E text \in Panics \cup {Silent} : failing' = [failing EXCEPT ![c] = text]
    /\ UNCHANGED <<secrets, entries, reported>>

\* As it would be if a recovery did not leave the map of what was reported.
LingeringHealth ==
    LET failed == SelectSeq(SetToSeq(Collectors), LAMBDA c : failing[c] \notin {Silent, reported[c]})
        over == SelectSeq(SetToSeq(Collectors), LAMBDA c : failing[c] = Silent /\ reported[c] # Silent)
    IN  /\ Record([n \in DOMAIN failed |-> Entry("failed", failed[n], failing[failed[n]], "")]
                  \o [n \in DOMAIN over |-> Entry("recovered", over[n], Silent, "")])
        /\ reported' = [c \in Collectors |-> IF failing[c] = Silent THEN reported[c] ELSE failing[c]]
        /\ UNCHANGED <<secrets, failing>>

\* record_collector_health: new details first, then what is no longer failing, each in
\* the order of the collectors.
RecordCollectorHealth ==
    LET order == SetToSeq(Collectors)
        changed == SelectSeq(order, LAMBDA c : failing[c] \notin {Silent, reported[c]})
        over == SelectSeq(order, LAMBDA c : failing[c] = Silent /\ reported[c] # Silent)
        told(kind, list) == [n \in DOMAIN list |-> Entry(kind, list[n], failing[list[n]], "")]
    IN  /\ Record(told("failed", changed) \o told("recovered", over))
        /\ reported' = failing
        /\ UNCHANGED <<secrets, failing>>

\* record_client_disconnected and the like: a text from outside.
RecordClient ==
    /\ \E text \in Messages : Record(<<Entry("disconnected", "client", text, "")>>)
    /\ UNCHANGED <<secrets, failing, reported>>

\* A program was applied, or was not.
RecordOutcome ==
    /\ \E h \in Hardware : Record(<<Entry("applied", h, <<>>, h)>>)
    /\ UNCHANGED <<secrets, failing, reported>>

JournalNext ==
    \/ \E c \in Collectors : CollectorPass(c)
    \/ RecordCollectorHealth
    \/ RecordClient
    \/ RecordOutcome

-----------------------------------------------------------------------------
Occurs(secret, text) ==
    \E i \in 1..Len(text) : Starts(SubSeq(text, i, Len(text)), secret)

\* No registered serial is in an export, whichever of them is part of another and
\* whatever the order they were registered in, and a log is withheld only because one of
\* them is a word of the format (export: "every secret removed from all of it").
NoSecretLeaves ==
    /\ \A e \in Range(Export), s \in Range(secrets) :
        ~Occurs(s, e.text) /\ ~Occurs(s, Word[e.kind])
    /\ Export = <<>> /\ entries # <<>> =>
        \E s \in Range(secrets), e \in Range(entries) : Occurs(s, Word[e.kind])

Mentions(c) == {n \in DOMAIN entries : entries[n].kind \in {"failed", "recovered"} /\ entries[n].about = c}

\* The last word of the log about a collector is what was last known of it, and before a
\* recovery that is still there is the failure it ends, unless that was pushed out
\* (record_collector_health; DiagnosticsLog::record).
LastWordIsTrue ==
    \A c \in Collectors : \A n \in Mentions(c) :
        LET before == {k \in Mentions(c) : k < n}
            e == entries[n]
        IN  /\ (\A k \in Mentions(c) : k <= n) =>
                   /\ e.kind = "failed" => reported[c] = e.text
                   /\ e.kind = "recovered" => reported[c] = Silent
            /\ before # {} =>
                   LET previous == entries[CHOOSE k \in before : \A j \in before : j <= k]
                   IN  /\ e.kind = "recovered" => previous.kind = "failed"
                       /\ e.kind = "failed" => previous.text # e.text

\* The log never outgrows its bound, and only an unconfirmed write is an error
\* (with_capacity, severity).
LogIsBounded ==
    /\ Len(entries) <= Capacity
    /\ \A e \in Range(entries) : e.severity = "error" <=> e.kind = "applied" /\ e.about = "uncertain"

\* The journal keeps what it should and lets nothing else out.
JournalIsHonest == NoSecretLeaves /\ LastWordIsTrue /\ LogIsBounded
=============================================================================
