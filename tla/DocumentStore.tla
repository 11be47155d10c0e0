--------------------------- MODULE DocumentStore ---------------------------
(***************************************************************************)
(* What the configuration promises the rest of the daemon: a document that *)
(* changes on disk and in memory as one, that a failed change leaves       *)
(* alone, and that a restart finds again.                                  *)
(***************************************************************************)
EXTENDS Profiles

VARIABLES
    saved,  \* the document a start would load
    held,   \* the document the running daemon answers from
    up      \* is the daemon running

store == <<saved, held, up>>

StoreInit ==
    /\ saved \in {d \in Document : Valid(d)}
    /\ held = DefaultDocument
    /\ up = FALSE

\* A start answers from the saved document, or from the defaults when it cannot
\* trust the file, which it then sets aside if that is possible.
Open ==
    /\ ~up
    /\ up' = TRUE
    /\ held' \in {saved, DefaultDocument}
    /\ saved' \in {saved, held'}

\* A committed change is in memory and on disk at once.
Change ==
    /\ up
    /\ held' \in Document
    /\ Valid(held')
    /\ saved' = held'
    /\ UNCHANGED up

Die ==
    /\ up
    /\ up' = FALSE
    /\ held' = DefaultDocument
    /\ UNCHANGED saved

StoreNext ==
    \/ Open
    \/ Change
    \/ Die

StoreSpec == StoreInit /\ [][StoreNext]_store
=============================================================================
