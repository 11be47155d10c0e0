------------------------------ MODULE Profiles ------------------------------
(***************************************************************************)
(* The configuration document (crates/daemon/src/config/document.rs) and   *)
(* what config.rs computes from it: the changes it makes to one and what   *)
(* it says a start should replay.                                          *)
(*                                                                         *)
(* What a profile or the session sets is a function from slots to values:  *)
(* the thermal program, the panel's preset and one lighting command per    *)
(* RGB channel.  An absent entry is None.                                  *)
(***************************************************************************)
EXTENDS Integers, Sequences

CONSTANTS
    Name,     \* names an operator gives profiles
    Safe,     \* SAFE_PROFILE_NAME, the built-in profile
    Light,    \* the RGB channels
    Value,    \* programs, presets and lighting commands, Onboard aside
    Onboard,  \* the program that writes nothing
    None      \* an empty Option

Slot == {"program", "display"} \cup Light

ASSUME ProfilesAssumption ==
    /\ Safe \notin Name /\ None \notin Name
    /\ Light \cap {"program", "display"} = {} /\ None \notin Slot
    /\ Onboard \notin Value /\ None \notin Value /\ None # Onboard

\* Every profile has a program; only a program is ever Onboard.
Profile ==
    {p \in [Slot -> Value \cup {Onboard, None}] :
        /\ p["program"] # None
        /\ \A s \in Slot \ {"program"} : p[s] # Onboard}

\* An absent profile is no profile.
ASSUME AbsenceAssumption == None \notin Profile

Session == [Slot -> Value \cup {None}]

SafeProfile == [s \in Slot |-> IF s = "program" THEN Onboard ELSE None]
EmptySession == [s \in Slot |-> None]

\* profiles[n] is None when the file has no profile of that name.
Document ==
    [active: Name \cup {Safe}, profiles: [Name -> Profile \cup {None}], session: Session]

DefaultDocument ==
    [active |-> Safe, profiles |-> [n \in Name |-> None], session |-> EmptySession]

\* What read_document asks of a document that parses.
Valid(d) == d.active # Safe => d.profiles[d.active] # None

-----------------------------------------------------------------------------
(* Lookups.                                                                *)

Known(d, n) == n = Safe \/ (n \in Name /\ d.profiles[n] # None)

ProfileNamed(d, n) ==
    IF n \in Name /\ d.profiles[n] # None THEN d.profiles[n] ELSE SafeProfile

ActiveProfile(d) == ProfileNamed(d, d.active)

\* Mutant: the active profile wins over the session.
ToRestoreOfProfile(d, s) ==
    LET held == IF ActiveProfile(d)[s] # None THEN ActiveProfile(d)[s] ELSE d.session[s]
    IN  IF held = Onboard THEN None ELSE held

\* The session wins slot by slot, the active profile fills the rest, and an
\* Onboard program is nothing to replay.
ToRestore(d, s) ==
    LET held == IF d.session[s] # None THEN d.session[s] ELSE ActiveProfile(d)[s]
    IN  IF held = Onboard THEN None ELSE held

-----------------------------------------------------------------------------
(* Changes.                                                                *)

WithProfile(d, n, p) == [d EXCEPT !.profiles[n] = p]

WithActive(d, n) == [d EXCEPT !.active = n]

\* Mutant: the deleted profile may stay selected.
WithoutProfileOnly(d, n) == [d EXCEPT !.profiles[n] = None]

\* Deleting the active profile selects the safe one in the same document.
WithoutProfile(d, n) ==
    [d EXCEPT !.profiles[n] = None, !.active = IF @ = n THEN Safe ELSE @]

WithSession(d, s, v) == [d EXCEPT !.session[s] = v]
=============================================================================
