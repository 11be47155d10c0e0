--------------------------- MODULE Configuration ---------------------------
(***************************************************************************)
(* The configuration on its file (crates/daemon/src/config.rs and          *)
(* config/document.rs): loading with recovery, the operations that change  *)
(* the document, and the atomic replacement of the file, one system call   *)
(* at a time, with a crash or a power loss between any two of them.        *)
(***************************************************************************)
EXTENDS Profiles

CONSTANTS
    Missing,   \* no file
    Unusable,  \* a file the daemon cannot trust
    Partial,   \* a file whose contents were not all written
    FaultSets, \* the misbehaviours that may come together
    MaxStops   \* bound: how often the process dies under each

(* read      reading the file fails                                        *)
(* preserve  renaming an untrusted file aside fails                        *)
(* write     creating, writing or replacing the file fails                 *)
(* sync      syncing the directory fails                                   *)
(* power     the machine loses power                                       *)
FaultKinds == {"read", "preserve", "write", "sync", "power"}

ASSUME ConfigurationAssumption ==
    /\ FaultSets \subseteq SUBSET FaultKinds /\ MaxStops \in [FaultSets -> Nat]
    /\ {Missing, Unusable, Partial} \cap Document = {}
    /\ Partial \notin {Missing, Unusable} /\ Missing # Unusable

VARIABLES
    file,       \* what the path names
    temp,       \* the temporary file beside it
    aside,      \* the files set aside that are no documents of ours
    durable,    \* <<file, aside>> as a power loss would leave them
    document,   \* the document in memory
    previous,   \* commit_change's copy of it while it writes
    state,      \* ConfigState
    stage,      \* "down", "idle", or the next step of a commit
    reply,      \* how the last operation ended
    faults,     \* the misbehaviours of this machine
    stops,      \* how often the process died
    (* What the properties compare with; no action reads these.            *)
    found,      \* what the first start found
    owed        \* the documents a start may come up with

disk == <<file, temp, aside, durable>>
memory == <<document, previous, state, stage, reply>>
ghosts == <<found, owed>>
vars == <<disk, memory, faults, stops, ghosts>>

Init ==
    /\ file \in {Missing, Unusable, DefaultDocument}
    /\ temp = Missing /\ aside = {} /\ durable = <<file, aside>>
    /\ document = DefaultDocument /\ previous = DefaultDocument
    /\ state = "Defaults" /\ stage = "down" /\ reply = "none"
    /\ faults \in FaultSets /\ stops = 0
    /\ found = file
    /\ owed = {DefaultDocument}

-----------------------------------------------------------------------------
(* Configuration::load.                                                    *)

Start(d, s) ==
    /\ stage = "down"
    /\ document' = d /\ previous' = d /\ state' = s
    /\ stage' = "idle" /\ reply' = "none"
    /\ UNCHANGED <<temp, durable, stops, found>>

LoadDocument ==
    /\ file \in Document /\ Valid(file)
    /\ Start(file, "Loaded")
    /\ UNCHANGED <<file, aside, owed>>

LoadMissing ==
    /\ file = Missing
    /\ Start(DefaultDocument, "Defaults")
    /\ UNCHANGED <<file, aside, owed>>

Untrusted ==
    \/ file \in {Unusable, Partial}
    \/ file \in Document /\ ~Valid(file)
    \/ file # Missing /\ "read" \in faults

\* preserve: rename the file aside, or leave it where it is when that fails.
Preserve ==
    \/ file' = Missing /\ aside' = aside \cup ({file} \ Document)
    \/ "preserve" \in faults /\ UNCHANGED <<file, aside>>

LoadRecovered ==
    /\ Untrusted
    /\ Start(DefaultDocument, "Recovered")
    /\ Preserve
    /\ owed' = owed \cup {DefaultDocument}

-----------------------------------------------------------------------------
(* The operations: a refusal, nothing to do, or a commit.                  *)

\* commit_change: change the document in memory, then write it.
CommitChange(d) ==
    /\ stage = "idle"
    /\ previous' = document
    /\ document' = d
    /\ stage' = "create"
    /\ UNCHANGED <<disk, state, reply, stops, ghosts>>

Answer(r) ==
    /\ stage = "idle"
    /\ reply' = r
    /\ UNCHANGED <<disk, document, previous, state, stage, stops, ghosts>>

SaveProfile(n, p) ==
    \/ n = Safe /\ Answer("error")
    \/ n \in Name /\ CommitChange(WithProfile(document, n, p))

Activate(n) ==
    \/ ~Known(document, n) /\ Answer("error")
    \/ Known(document, n) /\ CommitChange(WithActive(document, n))

DeleteProfile(n) ==
    \/ (n = Safe \/ ~Known(document, n)) /\ Answer("error")
    \/ n \in Name /\ Known(document, n) /\ CommitChange(WithoutProfile(document, n))

\* record_program, record_display and record_lighting.
Record(s, v) ==
    \/ document.session[s] = v /\ Answer("ok")
    \/ document.session[s] # v /\ CommitChange(WithSession(document, s, v))

-----------------------------------------------------------------------------
(* write_atomically.                                                       *)

\* Mutant: opens the target itself instead of a temporary file.
CreateInPlace ==
    /\ stage = "create"
    /\ file' = Partial
    /\ stage' = "write"
    /\ UNCHANGED <<temp, aside, durable, document, previous, state, reply, stops, ghosts>>

CreateTemporary ==
    /\ stage = "create"
    /\ temp' = Partial
    /\ stage' = "write"
    /\ UNCHANGED <<file, aside, durable, document, previous, state, reply, stops, ghosts>>

\* write_all and sync_all: the data are on disk before the rename.
WriteTemporary ==
    /\ stage = "write"
    /\ temp' = document
    /\ stage' = "rename"
    /\ UNCHANGED <<file, aside, durable, document, previous, state, reply, stops, ghosts>>

Rename ==
    /\ stage = "rename"
    /\ file' = temp /\ temp' = Missing
    /\ stage' = "sync"
    /\ UNCHANGED <<aside, durable, document, previous, state, reply, stops, ghosts>>

\* Mutant: returns without syncing the directory.
CommitUnsynced ==
    /\ stage = "sync"
    /\ stage' = "idle" /\ reply' = "ok"
    /\ state' = IF state = "Defaults" THEN "Loaded" ELSE state
    /\ previous' = document
    /\ owed' = {document}
    /\ UNCHANGED <<disk, document, stops, found>>

\* The directory sync, whose failure is ignored, and the end of commit.
Committed ==
    /\ stage = "sync"
    /\ \/ durable' = <<file, aside>>
       \/ "sync" \in faults /\ UNCHANGED durable
    /\ stage' = "idle" /\ reply' = "ok"
    /\ state' = IF state = "Defaults" THEN "Loaded" ELSE state
    /\ previous' = document
    /\ owed' = {document}
    /\ UNCHANGED <<file, temp, aside, document, stops, found>>

\* Any step up to the rename may fail: memory is rolled back.  Only a failed
\* rename removes the temporary file.
CommitFails ==
    /\ stage \in {"create", "write", "rename"}
    /\ "write" \in faults
    /\ document' = previous
    /\ stage' = "idle" /\ reply' = "error"
    /\ temp' = IF stage = "rename" THEN Missing ELSE temp
    /\ UNCHANGED <<file, aside, durable, previous, state, stops, ghosts>>

-----------------------------------------------------------------------------
(* The process dies; a power loss may also undo what was not synced.       *)

\* A commit cut off after its rename may or may not have happened.
Down ==
    /\ stage # "down" /\ stops < MaxStops[faults]
    /\ stage' = "down" /\ stops' = stops + 1
    /\ owed' = owed \cup (IF stage = "sync" THEN {document} ELSE {})
    /\ UNCHANGED <<document, previous, state, reply, found>>

Crash ==
    /\ Down
    /\ UNCHANGED disk

PowerLoss ==
    /\ "power" \in faults
    /\ \E kept \in {<<file, aside>>, durable} :
         file' = kept[1] /\ aside' = kept[2] /\ durable' = kept
    /\ temp' \in {temp, Missing}
    /\ Down

-----------------------------------------------------------------------------
Operation ==
    \/ \E n \in Name \cup {Safe}, p \in Profile : SaveProfile(n, p)
    \/ \E n \in Name \cup {Safe} : Activate(n)
    \/ \E n \in Name \cup {Safe} : DeleteProfile(n)
    \/ \E s \in Slot, v \in Value : Record(s, v)

Step ==
    \/ LoadDocument \/ LoadMissing \/ LoadRecovered
    \/ Operation
    \/ CreateTemporary \/ WriteTemporary \/ Rename \/ Committed \/ CommitFails
    \/ Crash \/ PowerLoss

Next == Step /\ UNCHANGED faults

Spec == Init /\ [][Next]_vars

-----------------------------------------------------------------------------
TypeOK ==
    /\ file \in Document \cup {Missing, Unusable, Partial}
    /\ temp \in Document \cup {Missing, Partial}
    /\ document \in Document /\ previous \in Document
    /\ state \in {"Loaded", "Defaults", "Recovered"}
    /\ stage \in {"down", "idle", "create", "write", "rename", "sync"}
    /\ reply \in {"none", "ok", "error"}

\* Whatever interrupts a commit, the file left behind is one the next start
\* loads: complete, and with an active profile that is in it (document.rs: "a
\* reader sees either the previous valid file or the new one").
LoadableAfterCrash ==
    /\ file # Partial
    /\ file \in Document => Valid(file)

\* Between operations the daemon never answers from a document other than the
\* one on disk (commit_change: a failed save must not still be listed), except
\* the defaults it fell back to before anything was saved.
MemoryIsDisk ==
    stage = "idle" =>
        \/ document = file
        \/ state # "Loaded" /\ document = DefaultDocument

\* A start never falls behind an acknowledged save, nor a running daemon: it has
\* the last document a save was acknowledged for, or that of a commit cut off
\* later, or the defaults when the file had to be set aside.
NoSaveIsLost == stage = "idle" => document \in owed

\* load's comment: "Recovery never deletes the unusable file: it is renamed aside
\* so the operator can inspect or export it".
UnusableIsKept ==
    found = Unusable /\ "preserve" \notin faults => (file = Unusable \/ Unusable \in aside)

\* The same when the rename may fail, which the next save then overwrites.
KeptWhateverFails ==
    found = Unusable => (file = Unusable \/ Unusable \in aside)

\* The document is on disk and in memory as one (DocumentStore), although the
\* code changes memory first and needs four system calls for the file.
Store == INSTANCE DocumentStore WITH
    saved <- IF file \in Document THEN file ELSE DefaultDocument,
    held  <- CASE stage = "down"                          -> DefaultDocument
               [] stage \in {"create", "write", "rename"} -> previous
               [] OTHER                                   -> document,
    up    <- stage # "down"

\* A power loss that undoes an unsynced rename is no store's: NoSaveIsLost bounds it.
ImplementsStore ==
    /\ "power" \notin faults => Store!StoreInit
    /\ [][("power" \notin faults) => [Store!StoreNext]_(Store!store)]_vars

\* Nothing the operator saved or wrote by hand is lost: memory is what the disk
\* holds, a save that was answered survives what may happen next, and a file nobody
\* could read is still there.
NothingIsLost == TypeOK /\ MemoryIsDisk /\ NoSaveIsLost /\ UnusableIsKept
=============================================================================
