---------------------------- MODULE DaemonProofs ----------------------------
(***************************************************************************)
(* First the daemon's session record, for any names, profiles, values,     *)
(* lighting channels and write gates, and any number of restarts, with or  *)
(* without saves that fail.  Then where the commands it is sent come from: *)
(* the editor in which programs are drawn, for any device's range, floors, *)
(* points and nodes, and the lighting rows down to the report on the wire, *)
(* for any colors, levels and channel counts.  They share no state.  Last  *)
(* the gates a command passes on both sides, on any machine.               *)
(***************************************************************************)
EXTENDS Daemon, Editor, Lights, FiniteSetTheorems, TLAPS

-----------------------------------------------------------------------------
(* What is looked up in a document and what a change leaves of it.         *)

\* What a fresh installation starts from is a document.
LEMMA DefaultDocumentType == DefaultDocument \in Document
  BY DEF DefaultDocument, Document, EmptySession, Session

\* A name stands for a profile, unknown names for the safe one.
LEMMA ProfileNamedType ==
    ASSUME NEW d \in Document, NEW n PROVE ProfileNamed(d, n) \in Profile
<1>1. SafeProfile \in Profile
  BY ProfilesAssumption DEF SafeProfile, Profile, Slot
<1>2. QED
  BY <1>1 DEF ProfileNamed, Document

\* A restore never writes Onboard, whatever the session or the profile says.
LEMMA ToRestoreType ==
    ASSUME NEW d \in Document, NEW s \in Slot PROVE ToRestore(d, s) \in Value \cup {None}
<1>1. ActiveProfile(d) \in [Slot -> Value \cup {Onboard, None}]
  BY ProfileNamedType DEF ActiveProfile, Profile
<1>2. d.session[s] \in Value \cup {None}
  BY DEF Document, Session
<1>3. QED
  BY <1>1, <1>2 DEF ToRestore

\* The session wins.
LEMMA ToRestoreSession ==
    ASSUME NEW d \in Document, NEW s \in Slot, d.session[s] # None
    PROVE  ToRestore(d, s) = d.session[s]
  BY ProfilesAssumption DEF ToRestore, Document, Session

\* The changes of profiles and of the selection leave the session alone.
LEMMA SessionUntouched ==
    ASSUME NEW d \in Document, NEW n, NEW p
    PROVE  /\ WithProfile(d, n, p).session = d.session
           /\ WithActive(d, n).session = d.session
           /\ WithoutProfile(d, n).session = d.session
  BY DEF WithProfile, WithActive, WithoutProfile, Document

\* A recorded setting changes its own slot and no other.
LEMMA SessionRecorded ==
    ASSUME NEW d \in Document, NEW s \in Slot, NEW v
    PROVE  WithSession(d, s, v).session = [d.session EXCEPT ![s] = v]
  BY DEF WithSession, Document

-----------------------------------------------------------------------------
(* The inductive invariant.                                                *)

\* What a request comes to is something to write.
PendingIsSet == \A s \in pending : wanted[s] # None

\* A daemon that is down has no handler under way.
DownIsIdle == ~up => pending = {}

\* The value about to be recorded is the one just confirmed, by a live daemon.
NotingWhatRan ==
    noting # None =>
        /\ up /\ noting \in pending
        /\ ran[noting] = wanted[noting] /\ wanted[noting] \in Value

\* Memory is the file, or the defaults of a start that could not trust it.
HeldIsSaved == up => held \in {saved, DefaultDocument}

InSession(d) == \A s \in kept : ran[s] # None => d.session[s] = ran[s]

KeptIsSaved == InSession(saved) /\ (up => InSession(held))

\* What was left running is in the file a start is about to read.
LeftIsSaved == ~up => \A s \in Slot : left[s] # None => saved.session[s] = left[s]

\* A restore in which nothing has gone wrong yet wants what was left running, and
\* has it in every slot it is done with.
RestoreGoesOn ==
    (up /\ resumed = "all") =>
        \A s \in Slot : left[s] # None =>
            /\ wanted[s] = left[s]
            /\ (s \notin pending \/ noting = s) => device[s] = left[s]

IInv ==
    /\ TypeOK
    /\ PendingIsSet
    /\ DownIsIdle
    /\ NotingWhatRan
    /\ HeldIsSaved
    /\ KeptIsSaved
    /\ LeftIsSaved
    /\ RestoreGoesOn

-----------------------------------------------------------------------------
(* Every action preserves the invariant.                                   *)

\* The daemon is down and has done nothing yet.
LEMMA InitInv == Init => IInv
<1> SUFFICES ASSUME Init PROVE IInv
  OBVIOUS
<1>1. TypeOK
  <2>1. Nothing \in Session
    BY DEF Nothing, Session
  <2>2. wanted \in [Slot -> Value \cup {Onboard, None}] /\ gate \in [Slot -> BOOLEAN]
    BY DEF Init, Nothing
  <2>3. stops \in 0..MaxStops
    BY DaemonAssumption DEF Init
  <2>4. QED
    BY <2>1, <2>2, <2>3, DefaultDocumentType DEF Init, TypeOK
<1>2. PendingIsSet /\ DownIsIdle /\ NotingWhatRan /\ HeldIsSaved /\ LeftIsSaved /\ RestoreGoesOn
  BY DEF Init, PendingIsSet, DownIsIdle, NotingWhatRan, HeldIsSaved, LeftIsSaved, RestoreGoesOn, Nothing
<1>3. KeptIsSaved
  BY DEF Init, KeptIsSaved, InSession, Nothing
<1>4. QED
  BY <1>1, <1>2, <1>3 DEF IInv

\* A handler that starts knows what it wants and has noted nothing.
LEMMA HandleInv ==
    ASSUME NEW w \in [Slot -> Value \cup {Onboard, None}], Handle(w)
    PROVE  /\ wanted' \in [Slot -> Value \cup {Onboard, None}]
           /\ pending' \subseteq Slot /\ noting' \in Slot \cup {None}
           /\ PendingIsSet' /\ NotingWhatRan'
  BY DEF Handle, PendingIsSet, NotingWhatRan

\* DaemonState::start: what was saved is what is wanted.
LEMMA StartInv == ASSUME IInv, Start PROVE IInv'
<1> DEFINE w == [s \in Slot |-> ToRestore(held', s)]
<1>1. held' \in Document /\ saved' \in Document /\ up' = TRUE /\ ~up
  BY DefaultDocumentType DEF IInv, TypeOK, Start, Open
<1>2. w \in [Slot -> Value \cup {Onboard, None}]
  BY <1>1, ToRestoreType
<1>3. Handle(w)
  BY DEF Start
<1> HIDE DEF w
<1>4. /\ wanted' \in [Slot -> Value \cup {Onboard, None}]
      /\ pending' \subseteq Slot /\ noting' \in Slot \cup {None}
      /\ PendingIsSet' /\ NotingWhatRan'
  BY <1>2, <1>3, HandleInv
<1>5. TypeOK'
  <2>1. chosen' \in Value \cup {None} /\ kept' \subseteq Slot /\ left' \in Session
    BY DEF IInv, TypeOK, Start, Nothing, Session
  <2>2. /\ gate' \in [Slot -> BOOLEAN] /\ device' \in Session
        /\ stops' \in 0..MaxStops /\ ran' \in Session /\ resumed' = "all"
    BY DEF IInv, TypeOK, Start
  <2>3. QED
    BY <1>1, <1>4, <2>1, <2>2 DEF TypeOK
<1>6. HeldIsSaved'
  BY DEF HeldIsSaved, Start, Open
<1>7. KeptIsSaved'
  <2>1. CASE held' = saved
    BY <2>1 DEF IInv, KeptIsSaved, InSession, Start, Open
  <2>2. CASE held' # saved
    BY <2>2 DEF KeptIsSaved, InSession, Start
  <2>3. QED
    BY <2>1, <2>2
<1>8. LeftIsSaved' /\ DownIsIdle'
  BY <1>1 DEF LeftIsSaved, DownIsIdle
<1>9. RestoreGoesOn'
  <2> SUFFICES ASSUME NEW s \in Slot, left'[s] # None
               PROVE  wanted'[s] = left'[s] /\ s \in pending' /\ noting' # s
    BY DEF RestoreGoesOn
  <2>1. left' = left /\ held' = saved
    BY DEF Start, Nothing
  <2>2. saved.session[s] = left[s]
    BY <1>1, <2>1 DEF IInv, LeftIsSaved
  <2>3. w[s] = left[s]
    BY <1>1, <2>1, <2>2, ToRestoreSession DEF w
  <2>4. QED
    BY <1>3, <2>1, <2>3, ProfilesAssumption DEF Handle
<1>10. QED
  BY <1>4, <1>5, <1>6, <1>7, <1>8, <1>9 DEF IInv

\* A committed change that leaves the session alone.
LEMMA ChangeInv ==
    ASSUME IInv, Change, held'.session = held.session, UNCHANGED <<ran, left, kept>>
    PROVE  /\ saved' \in Document /\ held' \in Document /\ up' \in BOOLEAN
           /\ HeldIsSaved' /\ KeptIsSaved' /\ LeftIsSaved' /\ DownIsIdle'
  BY DEF IInv, Change, DownIsIdle, HeldIsSaved, KeptIsSaved, LeftIsSaved, InSession

\* A request that touches neither the store nor the hardware.
LEMMA ApplyInv ==
    ASSUME IInv, NEW s \in Slot, NEW v \in Value \cup {Onboard}, Apply(s, v)
    PROVE  IInv'
<1> DEFINE w == [Nothing EXCEPT ![s] = v]
<1>1. w \in [Slot -> Value \cup {Onboard, None}] /\ Handle(w)
  BY DEF Apply, Nothing
<1> HIDE DEF w
<1>2. /\ wanted' \in [Slot -> Value \cup {Onboard, None}]
      /\ pending' \subseteq Slot /\ noting' \in Slot \cup {None}
      /\ PendingIsSet' /\ NotingWhatRan'
  BY <1>1, HandleInv
<1>3. TypeOK' /\ HeldIsSaved' /\ KeptIsSaved' /\ LeftIsSaved' /\ RestoreGoesOn' /\ DownIsIdle'
  BY <1>2 DEF IInv, TypeOK, Apply, Serving, DownIsIdle, store, hardware, HeldIsSaved, KeptIsSaved, InSession,
              LeftIsSaved, RestoreGoesOn
<1>4. QED
  BY <1>2, <1>3 DEF IInv

\* A save that fails changes nothing that is held.
LEMMA SaveFailsInv == ASSUME IInv, SaveFails PROVE IInv'
  BY DEF IInv, TypeOK, SaveFails, store, hardware, handler, DownIsIdle, PendingIsSet, NotingWhatRan,
         HeldIsSaved, KeptIsSaved, InSession, LeftIsSaved, RestoreGoesOn

\* A saved change of the profiles leaves the session alone.
LEMMA ProfileChangeInv ==
    ASSUME IInv, Change, held'.session = held.session, resumed' = "no",
           chosen' \in {chosen, None}, UNCHANGED <<hardware, handler, stops, ran, left, kept>>
    PROVE  IInv'
<1>1. /\ saved' \in Document /\ held' \in Document /\ up' \in BOOLEAN
      /\ HeldIsSaved' /\ KeptIsSaved' /\ LeftIsSaved' /\ DownIsIdle'
  BY ChangeInv
<1>2. TypeOK' /\ PendingIsSet' /\ NotingWhatRan' /\ RestoreGoesOn'
  BY <1>1 DEF IInv, TypeOK, Change, hardware, handler, PendingIsSet, NotingWhatRan, RestoreGoesOn
<1>3. QED
  BY <1>1, <1>2 DEF IInv

\* save_profile and delete_profile are such changes.
LEMMA ProfilesInv ==
    ASSUME IInv, NEW n \in Name, NEW p, SaveProfile(n, p) \/ DeleteProfile(n)
    PROVE  IInv'
<1>1. held \in Document
  BY DEF IInv, TypeOK
<1>2. Change /\ held'.session = held.session /\ resumed' = "no" /\ chosen' \in {chosen, None}
  BY <1>1, SessionUntouched DEF SaveProfile, DeleteProfile
<1>3. UNCHANGED <<hardware, handler, stops, ran, left, kept>>
  BY DEF SaveProfile, DeleteProfile
<1>4. QED
  BY <1>2, <1>3, ProfileChangeInv

\* activate_profile: the settings of the profile are applied one after another.
LEMMA ActivateInv == ASSUME IInv, NEW n \in Name \cup {Safe}, ActivateProfile(n) PROVE IInv'
<1> DEFINE profile == ProfileNamed(held, n)
<1>1. held \in Document
  BY DEF IInv, TypeOK
<1>2. profile \in Profile
  BY <1>1, ProfileNamedType
<1>3. /\ profile \in [Slot -> Value \cup {Onboard, None}]
      /\ profile["program"] \in Value \cup {Onboard}
  BY <1>2 DEF Profile, Slot
<1>4. Change /\ held'.session = held.session
  BY <1>1, SessionUntouched DEF ActivateProfile
<1>5. Handle(profile) /\ resumed' = "no" /\ UNCHANGED <<hardware, stops, ran, left, kept>>
  BY DEF ActivateProfile
<1>6. chosen' \in Value \cup {None}
  BY <1>3 DEF ActivateProfile
<1> HIDE DEF profile
<1>7. /\ saved' \in Document /\ held' \in Document /\ up' \in BOOLEAN
      /\ HeldIsSaved' /\ KeptIsSaved' /\ LeftIsSaved' /\ DownIsIdle'
  BY <1>4, <1>5, ChangeInv
<1>8. /\ wanted' \in [Slot -> Value \cup {Onboard, None}]
      /\ pending' \subseteq Slot /\ noting' \in Slot \cup {None}
      /\ PendingIsSet' /\ NotingWhatRan'
  BY <1>3, <1>5, HandleInv
<1>9. TypeOK' /\ RestoreGoesOn'
  BY <1>5, <1>6, <1>7, <1>8 DEF IInv, TypeOK, hardware, RestoreGoesOn
<1>10. QED
  BY <1>7, <1>8, <1>9 DEF IInv

\* A write that was refused, had nothing to do or did not go through ends the
\* claim that the restore put everything back.
LEMMA MissInv ==
    ASSUME IInv, NEW s \in pending, Refuse(s) \/ LeaveOnboard(s) \/ WriteMisses(s)
    PROVE  IInv'
<1>1. /\ pending' = pending \ {s} /\ noting = None
      /\ resumed' \in {"no", "some"}
      /\ UNCHANGED <<store, gate, wanted, noting, stops, ran, left, kept, chosen>>
  BY DEF Refuse, LeaveOnboard, WriteMisses, Done, hardware
<1>2. device' \in Session
  BY DEF IInv, TypeOK, Session, Refuse, LeaveOnboard, WriteMisses, hardware
<1>3. TypeOK'
  BY <1>1, <1>2 DEF IInv, TypeOK, store
<1>4. QED
  BY <1>1, <1>3 DEF IInv, store, DownIsIdle, PendingIsSet, NotingWhatRan, HeldIsSaved, KeptIsSaved,
                    InSession, LeftIsSaved, RestoreGoesOn

\* A write was confirmed; what ran is about to be noted.
LEMMA ConfirmedInv == ASSUME IInv, NEW s \in pending, WriteConfirmed(s) PROVE IInv'
<1>1. s \in Slot /\ wanted[s] \in Value
  BY DEF IInv, TypeOK, PendingIsSet, WriteConfirmed
<1>2. up
  BY <1>1 DEF IInv, TypeOK, WriteConfirmed, DownIsIdle
<1>3. /\ noting' = s /\ noting = None /\ kept' = kept \ {s}
      /\ device' = [device EXCEPT ![s] = wanted[s]] /\ ran' = [ran EXCEPT ![s] = wanted[s]]
      /\ UNCHANGED <<store, gate, wanted, pending, stops, left, resumed>>
  BY DEF WriteConfirmed
<1>4. TypeOK'
  <2>1. device' \in Session /\ ran' \in Session
    BY <1>1, <1>3 DEF IInv, TypeOK, Session
  <2>2. chosen' \in Value \cup {None}
    BY DEF IInv, TypeOK, WriteConfirmed
  <2>3. QED
    BY <1>1, <1>3, <2>1, <2>2 DEF IInv, TypeOK, store
<1>5. PendingIsSet' /\ HeldIsSaved' /\ LeftIsSaved' /\ DownIsIdle'
  BY <1>3 DEF IInv, PendingIsSet, HeldIsSaved, LeftIsSaved, DownIsIdle, store
<1>6. NotingWhatRan'
  BY <1>1, <1>2, <1>3 DEF IInv, TypeOK, Session, NotingWhatRan, store
<1>7. KeptIsSaved'
  BY <1>1, <1>3 DEF IInv, TypeOK, Session, KeptIsSaved, InSession, store
<1>8. RestoreGoesOn'
  BY <1>1, <1>3, ProfilesAssumption DEF IInv, TypeOK, Session, RestoreGoesOn, store
<1>9. QED
  BY <1>4, <1>5, <1>6, <1>7, <1>8 DEF IInv

\* The handler is done with the slot it was about to record.
LEMMA NotedInv ==
    ASSUME IInv, noting # None, noting' = None, Done(noting, "confirmed"),
           UNCHANGED <<hardware, stops, ran, left>>
    PROVE  /\ pending' \subseteq Slot /\ PendingIsSet' /\ NotingWhatRan'
           /\ wanted' = wanted /\ resumed' = resumed
           /\ up' = up => RestoreGoesOn' /\ DownIsIdle'
<1>1. pending' = pending \ {noting} /\ wanted' = wanted /\ resumed' = resumed
  BY DEF Done
<1>2. up' = up => RestoreGoesOn' /\ DownIsIdle'
  BY <1>1, ProfilesAssumption DEF IInv, TypeOK, RestoreGoesOn, DownIsIdle, hardware
<1>3. QED
  BY <1>1, <1>2 DEF IInv, TypeOK, PendingIsSet, NotingWhatRan

\* remember: the session follows what ran.
LEMMA RememberInv == ASSUME IInv, Remember PROVE IInv'
<1>1. /\ up /\ noting \in pending /\ noting \in Slot /\ noting # None
      /\ ran[noting] = wanted[noting] /\ wanted[noting] \in Value
  BY DEF IInv, TypeOK, NotingWhatRan, Remember
<1>2. /\ kept' = kept \cup {noting} /\ noting' = None /\ Done(noting, "confirmed")
      /\ UNCHANGED <<hardware, stops, ran, left>>
  BY DEF Remember
<1>3. /\ saved' \in Document /\ held' \in Document /\ up' = up /\ held' \in {saved', DefaultDocument}
      /\ held'.session[noting] = wanted[noting] /\ saved'.session[noting] = wanted[noting]
      /\ \A s \in Slot \ {noting} :
           held'.session[s] = held.session[s] /\ saved'.session[s] \in {saved.session[s], held.session[s]}
  <2>1. CASE held.session[noting] = wanted[noting]
    <3>1. UNCHANGED store
      BY <2>1 DEF Remember
    <3>2. held # DefaultDocument
      BY <1>1, <2>1, ProfilesAssumption DEF DefaultDocument, EmptySession
    <3>3. held = saved
      BY <1>1, <3>2 DEF IInv, HeldIsSaved
    <3>4. QED
      BY <2>1, <3>1, <3>3 DEF IInv, TypeOK, store
  <2>2. CASE held.session[noting] # wanted[noting]
    <3>1. held' = WithSession(held, noting, wanted[noting]) /\ Change
      BY <2>2 DEF Remember
    <3>2. held'.session = [held.session EXCEPT ![noting] = wanted[noting]]
      BY <1>1, <3>1, SessionRecorded DEF IInv, TypeOK
    <3>3. held.session \in [Slot -> Value \cup {None}]
      BY DEF IInv, TypeOK, Document, Session
    <3>4. QED
      BY <1>1, <3>1, <3>2, <3>3 DEF Change
  <2>3. QED
    BY <2>1, <2>2
<1>4. /\ pending' \subseteq Slot /\ PendingIsSet' /\ NotingWhatRan'
      /\ wanted' = wanted /\ resumed' = resumed /\ RestoreGoesOn' /\ DownIsIdle'
  BY <1>1, <1>2, <1>3, NotedInv
<1>5. TypeOK'
  <2>1. chosen' \in Value \cup {None}
    BY <1>1 DEF IInv, TypeOK, Remember
  <2>2. QED
    BY <1>1, <1>2, <1>3, <1>4, <2>1 DEF IInv, TypeOK, hardware
<1>6. KeptIsSaved'
  BY <1>1, <1>2, <1>3 DEF IInv, TypeOK, KeptIsSaved, InSession
<1>7. HeldIsSaved' /\ LeftIsSaved'
  BY <1>1, <1>3 DEF HeldIsSaved, LeftIsSaved
<1>8. QED
  BY <1>4, <1>5, <1>6, <1>7 DEF IInv

\* remember: the save failed and the answer is the same.
LEMMA RememberFailsInv == ASSUME IInv, RememberFails PROVE IInv'
<1>1. /\ noting # None /\ noting' = None /\ Done(noting, "confirmed")
      /\ UNCHANGED <<store, hardware, stops, ran, left, kept, chosen>>
  BY DEF RememberFails
<1>2. /\ pending' \subseteq Slot /\ PendingIsSet' /\ NotingWhatRan'
      /\ wanted' = wanted /\ resumed' = resumed /\ RestoreGoesOn' /\ DownIsIdle'
  BY <1>1, NotedInv DEF store
<1>3. QED
  BY <1>1, <1>2 DEF IInv, TypeOK, store, hardware, HeldIsSaved, KeptIsSaved, InSession,
                    LeftIsSaved

\* What had been recorded is in the file the daemon leaves behind.
LEMMA StopInv == ASSUME IInv, Stop PROVE IInv'
<1>1. Nothing \in [Slot -> Value \cup {Onboard, None}] /\ Nothing \in Session
  BY DEF Nothing, Session
<1>2. /\ wanted' = Nothing /\ pending' = {} /\ noting' = None /\ up' = FALSE
      /\ held' = DefaultDocument /\ saved' = saved /\ resumed' = "no"
      /\ UNCHANGED <<gate, ran, kept, chosen>>
  BY DEF Stop, Handle, Die, Nothing
<1>3. left' \in Session
  BY DEF IInv, TypeOK, Session, Stop
<1>4. TypeOK'
  <2>1. stops' \in 0..MaxStops /\ device' \in Session
    BY <1>1, DaemonAssumption DEF IInv, TypeOK, Stop
  <2>2. QED
    BY <1>1, <1>2, <1>3, <2>1, DefaultDocumentType DEF IInv, TypeOK
<1>5. LeftIsSaved'
  BY <1>2 DEF IInv, KeptIsSaved, InSession, LeftIsSaved, Stop
<1>6. QED
  BY <1>2, <1>4, <1>5 DEF IInv, PendingIsSet, NotingWhatRan, HeldIsSaved, KeptIsSaved,
                          InSession, RestoreGoesOn, DownIsIdle

\* Every step keeps what is held, what is saved and what ran together.
LEMMA NextInv == IInv /\ [Next]_vars => IInv'
<1> SUFFICES ASSUME IInv, [Next]_vars PROVE IInv'
  OBVIOUS
<1>1. CASE Start
  BY <1>1, StartInv
<1>2. CASE (\E s \in Slot, v \in Value : Apply(s, v)) \/ Apply("program", Onboard)
  BY <1>2, ApplyInv DEF Slot
<1>3. CASE SaveFails
  BY <1>3, SaveFailsInv
<1>4. CASE \/ \E n \in Name, p \in Offered : SaveProfile(n, p)
           \/ \E n \in Name : DeleteProfile(n)
  <2>1. ASSUME NEW n \in Name, NEW p \in Offered, SaveProfile(n, p) PROVE IInv'
    BY <2>1, ProfilesInv
  <2>2. ASSUME NEW n \in Name, DeleteProfile(n) PROVE IInv'
    BY <2>2, ProfilesInv
  <2>3. QED
    BY <1>4, <2>1, <2>2
<1>5. CASE \E n \in Name \cup {Safe} : ActivateProfile(n)
  BY <1>5, ActivateInv
<1>6. CASE \E s \in Upcoming : Write(s)
  BY <1>6, MissInv, ConfirmedInv DEF Upcoming, Write
<1>7. CASE Remember \/ RememberFails \/ Stop
  BY <1>7, RememberInv, RememberFailsInv, StopInv
<1>8. CASE UNCHANGED vars
  BY <1>8 DEF IInv, TypeOK, vars, store, hardware, handler, ghosts, PendingIsSet, NotingWhatRan,
              HeldIsSaved, KeptIsSaved, InSession, LeftIsSaved, RestoreGoesOn, DownIsIdle
<1>9. QED
  BY <1>1, <1>2, <1>3, <1>4, <1>5, <1>6, <1>7, <1>8 DEF Next

-----------------------------------------------------------------------------
(* The theorems.                                                           *)

\* The inductive invariant holds throughout.
THEOREM Inductive == Spec => []IInv
  BY InitInv, NextInv, PTL DEF Spec

\* The types of what the daemon keeps, writes and remembers (state.rs).
THEOREM TypesHold == Spec => []TypeOK
<1>1. IInv => TypeOK
  BY DEF IInv
<1>2. QED
  BY <1>1, Inductive, PTL

\* The session record is what ran (execute, illuminate, show and remember in
\* state.rs), for any sequence of requests, failed saves and restarts.
THEOREM SessionIsKept == Spec => []SessionIsWhatRan
<1>1. IInv => SessionIsWhatRan
  BY DEF IInv, KeptIsSaved, InSession, Serving, SessionIsWhatRan
<1>2. QED
  BY <1>1, Inductive, PTL

\* A start whose writes all go through resumes what was recorded as running
\* (restore_active_profile in state.rs, program_to_restore and its siblings in
\* config.rs), wherever the daemon died.
THEOREM RestartResumes == Spec => []RestoredAsLeft
<1>1. IInv => RestoredAsLeft
  BY DEF IInv, RestoreGoesOn, Serving, RestoredAsLeft
<1>2. QED
  BY <1>1, Inductive, PTL

-----------------------------------------------------------------------------
(* The programs that are drawn: Editor.                                    *)

\* A product grows with its factor.
LEMMA ProductGrows ==
    ASSUME NEW d \in Nat, NEW a \in Int, NEW b \in Int, a <= b
    PROVE  d * a \in Int /\ d * b \in Int /\ d * a <= d * b
<1>1. b - a \in Nat
  OBVIOUS
<1>2. d * (b - a) \in Nat
  BY <1>1
<1>3. d * (b - a) = d * b - d * a
  OBVIOUS
<1> QED BY <1>2, <1>3

\* A quotient and what is left.
LEMMA Quotient ==
    ASSUME NEW n \in Int, NEW d \in Nat \ {0}
    PROVE  n \div d \in Int /\ d * (n \div d) \in Int /\ d * (n \div d) <= n /\ n < d * (n \div d) + d
<1>1. n \div d \in Int /\ n % d \in 0..(d - 1) /\ n = d * (n \div d) + (n % d)
  OBVIOUS
<1> QED BY <1>1

\* The quotient is the one number whose multiple leaves less than the divisor.
LEMMA QuotientIs ==
    ASSUME NEW n \in Int, NEW d \in Nat \ {0}, NEW q \in Int, d * q <= n, n < d * q + d
    PROVE  n \div d = q
<1> DEFINE r == n \div d
<1>1. r \in Int /\ d * r \in Int /\ d * r <= n /\ n < d * r + d
  BY Quotient
<1> HIDE DEF r
<1>2. d * q \in Int /\ d * (q + 1) = d * q + d /\ d * (r + 1) = d * r + d
  BY <1>1
<1>3. ~(r + 1 <= q)
  BY <1>1, <1>2, ProductGrows
<1>4. ~(q + 1 <= r)
  BY <1>1, <1>2, ProductGrows
<1>5. r = q
  BY <1>1, <1>3, <1>4
<1> QED BY <1>5 DEF r

\* A larger dividend has no smaller quotient.
LEMMA QuotientGrows ==
    ASSUME NEW m \in Int, NEW n \in Int, NEW d \in Nat \ {0}, m <= n
    PROVE  m \div d \in Int /\ n \div d \in Int /\ m \div d <= n \div d
<1> DEFINE q == m \div d
           r == n \div d
<1>1. q \in Int /\ d * q \in Int /\ d * q <= m /\ r \in Int /\ d * r \in Int /\ n < d * r + d
  BY Quotient
<1> HIDE DEF q, r
<1>2. d * (r + 1) = d * r + d
  BY <1>1
<1>3. ~(r + 1 <= q)
  BY <1>1, <1>2, ProductGrows
<1>4. q <= r
  BY <1>1, <1>3
<1> QED BY <1>1, <1>4 DEF q, r

\* A rounded quotient lies where its numerator does.
LEMMA RoundedLies ==
    ASSUME NEW w \in Nat \ {0}, NEW a \in Int, NEW b \in Int, NEW x \in Int, w * a <= x, x <= w * b
    PROVE  Rounded(x, w) \in Int /\ a <= Rounded(x, w) /\ Rounded(x, w) <= b
<1> DEFINE d == 2 * w
<1>1. d \in Nat \ {0} /\ w * a \in Int /\ w * b \in Int
  OBVIOUS
<1>2. d * a = 2 * (w * a) /\ d * b = 2 * (w * b)
  OBVIOUS
<1>3. (2 * (w * a) + w) \div d = a /\ (2 * (w * b) + w) \div d = b
  <2>1. 2 * (w * a) + w \in Int /\ 2 * (w * b) + w \in Int
    BY <1>1
  <2> HIDE DEF d
  <2>2. d = 2 * w
    BY DEF d
  <2>3. d * a <= 2 * (w * a) + w /\ 2 * (w * a) + w < d * a + d
    BY <1>1, <1>2, <2>2
  <2>4. d * b <= 2 * (w * b) + w /\ 2 * (w * b) + w < d * b + d
    BY <1>1, <1>2, <2>2
  <2> QED BY <1>1, <2>1, <2>3, <2>4, QuotientIs
<1>4. 2 * x + w \in Int /\ 2 * (w * a) + w <= 2 * x + w /\ 2 * x + w <= 2 * (w * b) + w
  BY <1>1
<1>5. (2 * x + w) \div d \in Int /\ a <= (2 * x + w) \div d /\ (2 * x + w) \div d <= b
  <2> HIDE DEF d
  <2>1. 2 * (w * a) + w \in Int /\ 2 * (w * b) + w \in Int
    BY <1>1
  <2> QED BY <1>1, <1>3, <1>4, <2>1, QuotientGrows
<1> QED BY <1>5 DEF Rounded

\* A larger numerator is not rounded to less.
LEMMA RoundedGrows ==
    ASSUME NEW w \in Nat \ {0}, NEW x \in Int, NEW y \in Int, x <= y
    PROVE  Rounded(x, w) \in Int /\ Rounded(y, w) \in Int /\ Rounded(x, w) <= Rounded(y, w)
<1>1. 2 * w \in Nat \ {0} /\ 2 * x + w \in Int /\ 2 * y + w \in Int /\ 2 * x + w <= 2 * y + w
  OBVIOUS
<1> QED BY <1>1, QuotientGrows DEF Rounded

\* A scale of A steps read on one of B.
LEMMA ScaleHolds ==
    ASSUME NEW A \in Nat \ {0}, NEW B \in Nat, NEW x \in 0..A, NEW y \in 0..A, x <= y
    PROVE  /\ (x * B + A \div 2) \div A \in 0..B /\ (y * B + A \div 2) \div A \in 0..B
           /\ (x * B + A \div 2) \div A <= (y * B + A \div 2) \div A
<1> DEFINE h == A \div 2
<1>1. h \in Nat /\ h < A
  OBVIOUS
<1> HIDE DEF h
<1>2. x * B = B * x /\ y * B = B * y /\ A * B = B * A
  OBVIOUS
<1>3. B * 0 <= B * x /\ B * x <= B * y /\ B * y <= B * A /\ B * x \in Int /\ B * y \in Int /\ B * A \in Int
  BY ProductGrows
<1>4. B * x + h \in Int /\ B * y + h \in Int /\ B * A + h \in Int /\ 0 <= B * x + h /\ B * x + h <= B * y + h
      /\ B * y + h <= B * A + h
  BY <1>1, <1>3
<1>5. 0 \div A = 0
  BY QuotientIs
<1>6. (B * A + h) \div A = B
  BY <1>1, <1>2, <1>3, <1>4, QuotientIs
<1>7. /\ 0 <= (B * x + h) \div A /\ (B * x + h) \div A <= (B * y + h) \div A
      /\ (B * y + h) \div A <= B /\ (B * x + h) \div A \in Int /\ (B * y + h) \div A \in Int
  <2>1. (B * x + h) \div A \in Int /\ (B * y + h) \div A \in Int
        /\ (B * x + h) \div A <= (B * y + h) \div A
    BY <1>4, QuotientGrows
  <2>2. 0 \div A <= (B * x + h) \div A
    BY <1>4, QuotientGrows
  <2>3. (B * y + h) \div A <= (B * A + h) \div A
    BY <1>4, QuotientGrows
  <2> QED BY <1>5, <1>6, <2>1, <2>2, <2>3
<1> QED BY <1>2, <1>7 DEF h

\* A setting written to the device, in order.
LEMMA DutyOfPercent ==
    ASSUME NEW p \in Percent, NEW q \in Percent, p <= q
    PROVE  /\ DutyFromPercent(p) \in Duty /\ DutyFromPercent(q) \in Duty
           /\ DutyFromPercent(p) <= DutyFromPercent(q)
<1>1. Lesser(p, MaxPercent) = p /\ Lesser(q, MaxPercent) = q
  BY CurvesAssumption DEF Lesser, Percent
<1> QED BY <1>1, CurvesAssumption, ScaleHolds DEF DutyFromPercent, Percent, Duty

\* A duty read as a setting, in order.
LEMMA PercentOfDuty ==
    ASSUME NEW d \in Duty, NEW e \in Duty, d <= e
    PROVE  /\ DutyToPercent(d) \in Percent /\ DutyToPercent(e) \in Percent
           /\ DutyToPercent(d) <= DutyToPercent(e)
<1>1. MaxDuty \in Nat \ {0} /\ MaxPercent \in Nat
  BY CurvesAssumption
<1> QED BY <1>1, ScaleHolds DEF DutyToPercent, Percent, Duty

\* A percentage survives the trip to the device and back.
LEMMA PercentSurvives ==
    ASSUME NEW p \in Percent
    PROVE  DutyToPercent(DutyFromPercent(p)) = p
<1> DEFINE P == MaxPercent
           M == MaxDuty
           h == P \div 2
           k == M \div 2
           d == DutyFromPercent(p)
<1>1. P \in Nat \ {0} /\ M \in Nat \ {0} /\ P <= M /\ p \in Nat /\ p <= P
  BY CurvesAssumption DEF Percent
<1>2. h \in Nat /\ k \in Nat /\ 2 * h <= P /\ P <= 2 * h + 1 /\ 2 * k <= M /\ M <= 2 * k + 1
  BY <1>1
<1>3. p * M \in Nat /\ p * M = M * p
  BY <1>1
<1>4. d = (M * p + h) \div P
  BY <1>1, <1>3 DEF DutyFromPercent, Lesser
<1>5. DutyToPercent(d) = (P * d + k) \div M
  <2>1. d \in Int
    <3> HIDE DEF P, M, h
    <3> QED BY <1>1, <1>2, <1>3, <1>4, Quotient
  <2>2. d * P = P * d
    BY <1>1, <2>1
  <2> HIDE DEF d
  <2> QED BY <2>2 DEF DutyToPercent
<1> HIDE DEF P, M, h, k, d
<1>6. d \in Int /\ P * d \in Int /\ P * d <= M * p + h /\ M * p + h < P * d + P
  BY <1>1, <1>2, <1>3, <1>4, Quotient
<1>7. ASSUME P < M PROVE (P * d + k) \div M = p
  <2>1. M * p <= P * d + k
    BY <1>1, <1>2, <1>3, <1>6, <1>7
  <2>2. P * d + k < M * p + M
    BY <1>1, <1>2, <1>3, <1>6, <1>7
  <2>3. P * d + k \in Int
    BY <1>2, <1>6
  <2> QED BY <1>1, <1>3, <2>1, <2>2, <2>3, QuotientIs
<1>8. ASSUME P = M PROVE (P * d + k) \div M = p
  <2>1. (M * p + h) \div P = p
    BY <1>1, <1>2, <1>3, <1>8, QuotientIs
  <2>2. M * p <= P * d + k /\ P * d + k < M * p + M
    BY <1>1, <1>2, <1>3, <1>4, <1>8, <2>1
  <2>3. P * d + k \in Int
    BY <1>2, <1>6
  <2> QED BY <1>1, <1>3, <2>2, <2>3, QuotientIs
<1>9. DutyToPercent(d) = p
  <2>1. P < M \/ P = M
    BY <1>1
  <2> QED BY <1>5, <1>7, <1>8, <2>1
<1> QED BY <1>9 DEF d

\* Clamping keeps the order and what is within.
LEMMA Clamps ==
    ASSUME NEW low \in Int, NEW high \in Int, low <= high, NEW x \in Int
    PROVE  /\ Clamped(x, low, high) \in low..high
           /\ x \in low..high => Clamped(x, low, high) = x
BY DEF Clamped, Lesser

\* A set of positions has a least one.
LEMMA LeastOf ==
    ASSUME NEW N \in Nat, NEW S, S \subseteq 1..N, S # {}
    PROVE  \E n \in S : \A m \in S : n <= m
<1> DEFINE T == {S \cap (1..n) : n \in S}
<1>1. IsWellFoundedOn(StrictSubsetOrdering(1..N), FiniteSubsetsOf(1..N))
  BY FS_StrictSubsetOrderingWellFounded
<1>2. T \subseteq FiniteSubsetsOf(1..N) /\ T # {}
  <2>1. IsFiniteSet(1..N)
    BY FS_Interval
  <2>2. \A n \in S : S \cap (1..n) \in FiniteSubsetsOf(1..N)
    <3> TAKE n \in S
    <3>1. S \cap (1..n) \in SUBSET (1..N)
      OBVIOUS
    <3>2. IsFiniteSet(S \cap (1..n))
      BY <2>1, <3>1, FS_Subset
    <3> QED BY <3>1, <3>2 DEF FiniteSubsetsOf
  <2> QED BY <2>2
<1> HIDE DEF T
<1>3. PICK x \in T : \A y \in T : ~(<<y, x>> \in StrictSubsetOrdering(1..N))
  BY <1>1, <1>2, WFMin
<1> USE DEF T
<1>4. PICK n \in S : x = S \cap (1..n)
  BY <1>3
<1>5. ASSUME NEW m \in S, m < n
      PROVE  FALSE
  <2>1. S \cap (1..m) \in T
    OBVIOUS
  <2>2. n \in x /\ n \notin S \cap (1..m) /\ S \cap (1..m) \subseteq x
    BY <1>4, <1>5
  <2>3. <<S \cap (1..m), x>> \in StrictSubsetOrdering(1..N)
    BY <1>2, <1>3, <2>1, <2>2 DEF StrictSubsetOrdering, FiniteSubsetsOf
  <2> QED BY <1>3, <2>1, <2>3
<1> QED BY <1>5

\* The segment of a point, and where it lies on it.
Lower(p) == Lesser(p \div StepC, NodeCount - 2)
From(p) == PointIndex(Lower(p))
Width(p) == PointIndex(Lower(p) + 1) - From(p)
Line(nodes_, p) == nodes_[Lower(p)] * Width(p) + (nodes_[Lower(p) + 1] - nodes_[Lower(p)]) * (p - From(p))

\* A point is on a segment of nodes that has a width.
LEMMA SegmentOf ==
    ASSUME NEW p \in Point
    PROVE  /\ Lower(p) \in Node /\ Lower(p) + 1 \in Node
           /\ From(p) \in Nat /\ Width(p) \in Nat \ {0} /\ p - From(p) \in 0..Width(p)
<1> DEFINE S == StepC
           N == NodeCount
           L == PointCount - 1
           q == p \div S
           m == N - 2
<1>1. /\ S \in Nat \ {0} /\ N \in Nat /\ N >= 2 /\ L \in Nat /\ m \in Nat
      /\ m * S \in Nat /\ (N - 1) * S \in Nat /\ (N - 1) * S = m * S + S
      /\ m * S + 1 <= L /\ L <= (N - 1) * S /\ p \in Nat /\ p <= L
  BY CurvesAssumption DEF Point
<1>2. q \in Int /\ S * q \in Int /\ S * q <= p /\ p < S * q + S
  <2> HIDE DEF S
  <2> QED BY <1>1, Quotient
<1>3. Lower(p) = (IF q < m THEN q ELSE m) /\ From(p) = PointIndex(Lower(p))
      /\ Width(p) = PointIndex(Lower(p) + 1) - From(p)
      /\ Node = 0..(N - 1)
      /\ \A n \in Int : PointIndex(n) = IF n * S < L THEN n * S ELSE L
  BY DEF Lower, From, Width, Lesser, Node, PointIndex
<1> HIDE DEF S, N, L, q, m
<1>4. q \in Nat
  <2>1. ~(q + 1 <= 0)
    <3>1. S * (q + 1) = S * q + S /\ S * 0 = 0
      BY <1>1, <1>2
    <3> QED BY <1>1, <1>2, <3>1, ProductGrows
  <2> QED BY <1>2, <2>1
<1>5. m = N - 2
  BY DEF m
<1>6. CASE q < m
  <2>1. Lower(p) = q /\ Lower(p) \in Node /\ Lower(p) + 1 \in Node
    BY <1>1, <1>3, <1>4, <1>5, <1>6
  <2>2. q * S = S * q /\ (q + 1) * S = S * q + S
    BY <1>1, <1>2
  <2>3. S * (q + 1) <= S * m /\ S * (q + 1) = S * q + S /\ S * m = m * S
    BY <1>1, <1>4, <1>6, ProductGrows
  <2>4. PointIndex(q) = S * q /\ PointIndex(q + 1) = S * q + S
    <3>1. /\ PointIndex(q) = IF q * S < L THEN q * S ELSE L
          /\ PointIndex(q + 1) = IF (q + 1) * S < L THEN (q + 1) * S ELSE L
      BY <1>3, <1>4
    <3>2. S * q + S < L /\ S * q < L
      BY <1>1, <1>2, <2>3
    <3> QED BY <2>2, <3>1, <3>2
  <2>5. From(p) = S * q /\ Width(p) = S
    BY <1>1, <1>2, <1>3, <2>1, <2>4
  <2>6. S * q \in Nat
    BY <1>1, <1>4
  <2> QED BY <1>1, <1>2, <2>1, <2>5, <2>6
<1>7. CASE ~(q < m)
  <2>1. Lower(p) = m /\ Lower(p) \in Node /\ Lower(p) + 1 \in Node /\ m + 1 = N - 1
    BY <1>1, <1>3, <1>5, <1>7
  <2>2. S * m <= S * q /\ S * m = m * S
    BY <1>1, <1>4, <1>7, ProductGrows
  <2>3. PointIndex(m) = m * S /\ PointIndex(m + 1) = L
    BY <1>1, <1>3, <2>1
  <2>4. From(p) = m * S /\ Width(p) = L - m * S
    BY <1>3, <2>1, <2>3
  <2> QED BY <1>1, <1>2, <2>1, <2>2, <2>4
<1> QED BY <1>6, <1>7

\* A point is on the segment of the one before it, or begins the next.
LEMMA SegmentsFollow ==
    ASSUME NEW p \in Point, p > 0
    PROVE  p - 1 \in Point /\ Lower(p) \in {Lower(p - 1), Lower(p - 1) + 1}
<1> DEFINE S == StepC
           q == p \div S
           r == (p - 1) \div S
<1>1. S \in Nat \ {0} /\ p \in Nat /\ p - 1 \in Point /\ p - 1 \in Nat /\ NodeCount \in Nat
  BY CurvesAssumption DEF Point
<1>2. /\ q \in Int /\ S * q \in Int /\ S * q <= p /\ p < S * q + S
      /\ r \in Int /\ S * r \in Int /\ S * r <= p - 1 /\ p - 1 < S * r + S /\ r <= q
  <2> HIDE DEF S
  <2> QED BY <1>1, Quotient, QuotientGrows
<1>3. /\ Lower(p) = IF q < NodeCount - 2 THEN q ELSE NodeCount - 2
      /\ Lower(p - 1) = IF r < NodeCount - 2 THEN r ELSE NodeCount - 2
  BY DEF Lower, Lesser
<1> HIDE DEF S, q, r
<1>4. ~(r + 2 <= q)
  <2>1. S * (r + 2) = S * r + 2 * S
    BY <1>1, <1>2
  <2> QED BY <1>1, <1>2, <2>1, ProductGrows
<1>5. q = r \/ q = r + 1
  BY <1>2, <1>4
<1> QED BY <1>1, <1>2, <1>3, <1>5

\* Nodes in order, above the floor of their channel.
Ramp(c, curve) ==
    /\ curve \in [Node -> Duty]
    /\ \A m, n \in Node : m <= n => curve[m] <= curve[n]
    /\ \A n \in Node : curve[n] >= MinDuty[c]

\* A point lies between the nodes of its segment.
LEMMA PointLies ==
    ASSUME NEW c \in Channel, NEW curve, Ramp(c, curve), NEW p \in Point
    PROVE  /\ Interpolate(curve)[p] = Rounded(Line(curve, p), Width(p)) /\ Interpolate(curve)[p] \in Duty
           /\ curve[Lower(p)] <= Interpolate(curve)[p] /\ Interpolate(curve)[p] <= curve[Lower(p) + 1]
           /\ Line(curve, p) \in Int
<1> DEFINE w == Width(p)
           a == curve[Lower(p)]
           b == curve[Lower(p) + 1]
           k == p - From(p)
           x == Line(curve, p)
<1>1. w \in Nat \ {0} /\ k \in 0..w /\ Lower(p) \in Node /\ Lower(p) + 1 \in Node
  BY SegmentOf
<1>2. a \in Duty /\ b \in Duty /\ a <= b /\ MaxDuty \in Nat
  BY <1>1, CurvesAssumption DEF Ramp, Node
<1>3. x = a * w + (b - a) * k
  BY DEF Line
<1>4. Interpolate(curve)[p] = Clamped(Rounded(x, w), 0, MaxDuty)
  BY DEF Interpolate, Line, Width, From, Lower
<1> HIDE DEF w, a, b, k, x
<1>5. a \in Int /\ b \in Int /\ b - a \in Nat /\ k \in Int /\ a \in 0..MaxDuty /\ b \in 0..MaxDuty
  BY <1>1, <1>2 DEF Duty
<1>6. (b - a) * 0 <= (b - a) * k /\ (b - a) * k <= (b - a) * w /\ (b - a) * k \in Int
  BY <1>1, <1>5, ProductGrows
<1>7. a * w = w * a /\ (b - a) * w = w * b - w * a /\ (b - a) * 0 = 0 /\ w * a \in Int /\ w * b \in Int
  BY <1>1, <1>5
<1>8. x \in Int /\ w * a <= x /\ x <= w * b
  BY <1>3, <1>6, <1>7
<1>9. Rounded(x, w) \in Int /\ a <= Rounded(x, w) /\ Rounded(x, w) <= b
  BY <1>1, <1>5, <1>8, RoundedLies
<1>10. Clamped(Rounded(x, w), 0, MaxDuty) = Rounded(x, w) /\ Rounded(x, w) \in Duty
  <2>1. Rounded(x, w) \in 0..MaxDuty
    BY <1>2, <1>5, <1>9
  <2>2. 0 <= MaxDuty /\ MaxDuty \in Int
    BY <1>2
  <2> QED BY <1>9, <2>1, <2>2, Clamps DEF Duty
<1> QED BY <1>4, <1>8, <1>9, <1>10 DEF w, a, b, x

\* Nodes in order draw a curve that the daemon takes.
LEMMA InterpolationIsValid ==
    ASSUME NEW c \in Channel, NEW curve, Ramp(c, curve)
    PROVE  Interpolate(curve) \in [Point -> Duty] /\ ValidCurve(c, Interpolate(curve))
<1> DEFINE drawn_ == Interpolate(curve)
<1>1. \A p \in Point : drawn_[p] \in Duty /\ curve[Lower(p)] <= drawn_[p] /\ drawn_[p] <= curve[Lower(p) + 1]
  BY PointLies
<1>2. drawn_ \in [Point -> Duty]
  BY <1>1 DEF Interpolate
<1>3. ASSUME NEW p \in Point PROVE drawn_[p] >= MinDuty[c]
  <2>1. /\ Lower(p) \in Node /\ curve[Lower(p)] \in Duty /\ drawn_[p] \in Duty
        /\ MinDuty[c] \in Int /\ MaxDuty \in Nat
    BY <1>1, SegmentOf, CurvesAssumption DEF Ramp, Channel
  <2> HIDE DEF drawn_
  <2> QED BY <1>1, <2>1 DEF Ramp, Duty
<1>4. ASSUME NEW p \in Point, p > 0 PROVE drawn_[p] >= drawn_[p - 1]
  <2>1. p - 1 \in Point /\ Lower(p) \in {Lower(p - 1), Lower(p - 1) + 1}
    BY <1>4, SegmentsFollow
  <2>2. drawn_[p] \in Int /\ drawn_[p - 1] \in Int
    BY <1>1, <2>1, CurvesAssumption DEF Duty
  <2>3. CASE Lower(p) = Lower(p - 1) + 1
    <3>1. curve[Lower(p)] <= drawn_[p] /\ drawn_[p - 1] <= curve[Lower(p)] /\ curve[Lower(p)] \in Int
      <4>1. curve[Lower(p)] \in Duty
        BY SegmentOf DEF Ramp
      <4> QED BY <1>1, <2>1, <2>3, <4>1, CurvesAssumption DEF Duty
    <3> HIDE DEF drawn_
    <3> QED BY <2>2, <3>1
  <2>4. CASE Lower(p) = Lower(p - 1)
    <3> DEFINE w == Width(p)
               a == curve[Lower(p)]
               b == curve[Lower(p) + 1]
               k == p - From(p)
    <3>1. Width(p - 1) = w /\ From(p - 1) = From(p)
      BY <2>4 DEF Width, From
    <3>2. Line(curve, p) = a * w + (b - a) * k /\ Line(curve, p - 1) = a * w + (b - a) * (p - 1 - From(p))
      BY <2>4, <3>1 DEF Line
    <3>3. w \in Nat \ {0} /\ k \in Int /\ Lower(p) \in Node /\ Lower(p) + 1 \in Node /\ From(p) \in Nat
          /\ p - 1 - From(p) = k - 1
      <4>1. p \in Int
        BY CurvesAssumption DEF Point
      <4> QED BY <4>1, SegmentOf
    <3>4. a \in Duty /\ b \in Duty /\ a <= b /\ MaxDuty \in Nat
      BY <3>3, CurvesAssumption DEF Ramp, Node
    <3>5. drawn_[p] = Rounded(Line(curve, p), w) /\ drawn_[p - 1] = Rounded(Line(curve, p - 1), w)
          /\ Line(curve, p) \in Int /\ Line(curve, p - 1) \in Int
      BY <2>1, <3>1, PointLies
    <3> HIDE DEF w, a, b, k, drawn_
    <3>6. b - a \in Nat
      BY <3>4 DEF Duty
    <3>7. /\ (b - a) * (k - 1) <= (b - a) * k
          /\ (b - a) * (k - 1) \in Int /\ (b - a) * k \in Int /\ a * w \in Int
      BY <3>3, <3>4, <3>6, ProductGrows DEF Duty
    <3>8. Line(curve, p - 1) <= Line(curve, p)
      BY <3>2, <3>3, <3>7
    <3>9. Rounded(Line(curve, p - 1), w) <= Rounded(Line(curve, p), w)
      BY <3>3, <3>5, <3>8, RoundedGrows
    <3> QED BY <2>2, <3>5, <3>9
  <2> QED BY <2>1, <2>3, <2>4
<1> HIDE DEF drawn_
<1>5. ValidCurve(c, drawn_)
  BY <1>3, <1>4 DEF ValidCurve, ValidDuty
<1> QED BY <1>2, <1>5 DEF drawn_

\* A curve that never steps down is in order from any point to any later one.
LEMMA CurveRises ==
    ASSUME NEW c \in Channel, NEW curve \in [Point -> Duty], ValidCurve(c, curve),
           NEW p \in Point, NEW q \in Point, p <= q
    PROVE  curve[p] <= curve[q]
<1> DEFINE N == PointCount
           Bad == {k \in 1..N : p + k \in Point /\ ~(curve[p] <= curve[p + k])}
<1>1. N \in Nat /\ Point = 0..(N - 1) /\ p \in Nat /\ q \in Nat /\ q <= N - 1 /\ N >= 2
      /\ \A i \in Point : curve[i] \in Int
  <2>1. (NodeCount - 2) * StepC \in Nat /\ (NodeCount - 1) * StepC \in Nat
    BY CurvesAssumption
  <2>2. N \in Nat /\ N >= 2
    BY <2>1, CurvesAssumption
  <2>3. \A i \in Point : curve[i] \in Duty
    OBVIOUS
  <2> QED BY <2>2, <2>3, CurvesAssumption DEF Point, Duty
<1>2. \A i \in Point : i > 0 => curve[i] >= curve[i - 1]
  BY DEF ValidCurve
<1>3. Bad \subseteq 1..N
  OBVIOUS
<1>4. ASSUME Bad # {} PROVE FALSE
  <2>1. PICK k \in Bad : \A j \in Bad : k <= j
    BY <1>1, <1>3, <1>4, LeastOf
  <2>2. k \in 1..N /\ p + k \in Point /\ ~(curve[p] <= curve[p + k])
    BY <2>1
  <2> HIDE DEF N
  <2>3. p + k > 0 /\ p + k - 1 \in Point /\ p + k - 1 = p + (k - 1)
    BY <1>1, <2>2
  <2>4. curve[p + k] >= curve[p + (k - 1)]
    <3> DEFINE i == p + k
    <3>1. i \in Point /\ i > 0 /\ i - 1 = p + (k - 1)
      BY <1>1, <2>2, <2>3
    <3> HIDE DEF i
    <3>2. curve[i] >= curve[i - 1]
      BY <1>2, <3>1
    <3>3. curve[i] >= curve[p + (k - 1)]
      BY <3>1, <3>2
    <3> QED BY <3>3 DEF i
  <2>5. CASE k = 1
    <3>1. p + (k - 1) = p
      BY <1>1, <2>5
    <3> QED BY <1>1, <2>2, <2>4, <3>1
  <2>6. CASE k > 1
    <3>1. k - 1 \in 1..N /\ ~(k <= k - 1)
      BY <1>1, <2>2, <2>6
    <3>2. k - 1 \notin Bad
      BY <2>1, <3>1
    <3>3. curve[p] <= curve[p + (k - 1)]
      BY <2>3, <3>1, <3>2
    <3> QED BY <1>1, <2>2, <2>3, <2>4, <3>3
  <2> QED BY <2>2, <2>5, <2>6
<1>5. CASE p = q
  BY <1>1, <1>5
<1>6. CASE p < q
  <2>1. q - p \in 1..N /\ p + (q - p) = q
    <3> HIDE DEF N
    <3> QED BY <1>1, <1>6
  <2>2. q - p \notin Bad
    BY <1>4
  <2> QED BY <2>1, <2>2
<1> QED BY <1>1, <1>5, <1>6

\* The nodes of a curve that is valid are in order and above the floor.
LEMMA SampledIsRamp ==
    ASSUME NEW c \in Channel, NEW curve \in [Point -> Duty], ValidCurve(c, curve)
    PROVE  Ramp(c, Sampled(curve))
<1> DEFINE S == StepC
           L == PointCount - 1
<1>1. S \in Nat \ {0} /\ L \in Nat /\ Point = 0..L /\ Node = 0..(NodeCount - 1) /\ NodeCount \in Nat
  <2>1. (NodeCount - 2) * StepC \in Nat /\ (NodeCount - 1) * StepC \in Nat
    BY CurvesAssumption
  <2> QED BY <2>1, CurvesAssumption DEF Point, Node
<1>2. \A n \in Node : PointIndex(n) = IF n * S < L THEN n * S ELSE L
  BY DEF PointIndex, Lesser
<1> HIDE DEF S, L
<1>3. \A n \in Node : n \in Nat /\ n * S \in Nat /\ n * S = S * n
  BY <1>1
<1>4. \A n \in Node : PointIndex(n) \in Point
  BY <1>1, <1>2, <1>3
<1>5. ASSUME NEW m \in Node, NEW n \in Node, m <= n PROVE PointIndex(m) <= PointIndex(n)
  <2>1. S * m <= S * n
    BY <1>1, <1>3, <1>5, ProductGrows
  <2>2. m * S \in Int /\ n * S \in Int /\ m * S <= n * S
    BY <1>3, <2>1
  <2>3. PointIndex(m) = (IF m * S < L THEN m * S ELSE L) /\ PointIndex(n) = IF n * S < L THEN n * S ELSE L
    BY <1>2
  <2> QED BY <1>1, <2>2, <2>3
<1>6. Sampled(curve) \in [Node -> Duty] /\ \A n \in Node : Sampled(curve)[n] = curve[PointIndex(n)]
  BY <1>4 DEF Sampled
<1>7. \A m, n \in Node : m <= n => Sampled(curve)[m] <= Sampled(curve)[n]
  BY <1>4, <1>5, <1>6, CurveRises
<1>8. \A n \in Node : Sampled(curve)[n] >= MinDuty[c]
  BY <1>4, <1>6 DEF ValidCurve, ValidDuty
<1> QED BY <1>6, <1>7, <1>8 DEF Ramp

\* The ramp the editor starts with is in order.
LEMMA StartIsRamp == \A c \in Channel : Ramp(c, StartingRamp)
<1> DEFINE P == MaxPercent
           K == NodeCount - 1
           w == 5 * K
           x(n) == 2 * P * K + n * 3 * P
<1>1. P \in Nat \ {0} /\ K \in Nat \ {0} /\ w \in Nat \ {0} /\ Node = 0..K
  BY CurvesAssumption DEF Node
<1>2. StartingRamp = [n \in Node |-> DutyFromPercent(Rounded(x(n), w))]
  BY DEF StartingRamp
<1>3. Percent = 0..P /\ w = 5 * K
  BY DEF Percent
<1>4. \A n \in Int : x(n) = 2 * (P * K) + 3 * (P * n)
  BY <1>1
<1> HIDE DEF P, K, w, x
<1>5. ASSUME NEW m \in Node, NEW n \in Node, m <= n
      PROVE  /\ Rounded(x(m), w) \in Percent /\ Rounded(x(n), w) \in Percent
             /\ Rounded(x(m), w) <= Rounded(x(n), w)
  <2>1. m \in Int /\ n \in Int /\ 0 <= m /\ n <= K /\ P \in Nat
    BY <1>1
  <2>2. P * 0 <= P * m /\ P * m <= P * n /\ P * n <= P * K /\ P * m \in Int /\ P * n \in Int /\ P * K \in Int
    BY <1>1, <1>5, <2>1, ProductGrows
  <2>3. x(m) = 2 * (P * K) + 3 * (P * m) /\ x(n) = 2 * (P * K) + 3 * (P * n)
    BY <1>4, <2>1
  <2>4. w * 0 = 0 /\ w * P = 5 * (P * K) /\ P * 0 = 0 /\ P * K >= 0
    BY <1>1, <1>3
  <2>5. x(m) \in Int /\ x(n) \in Int /\ x(m) <= x(n) /\ w * 0 <= x(m) /\ x(n) <= w * P
        /\ x(m) <= w * P /\ w * 0 <= x(n)
    BY <2>2, <2>3, <2>4
  <2>6. Rounded(x(m), w) \in Int /\ 0 <= Rounded(x(m), w) /\ Rounded(x(m), w) <= P
    <3> DEFINE y == x(m)
           none == 0
    <3>1. y \in Int /\ w * none <= y /\ y <= w * P /\ none \in Int /\ P \in Int
      BY <2>1, <2>5
    <3> HIDE DEF y, none
    <3>2. Rounded(y, w) \in Int /\ none <= Rounded(y, w) /\ Rounded(y, w) <= P
      BY <1>1, <3>1, RoundedLies
    <3> QED BY <3>2 DEF y, none
  <2>7. Rounded(x(n), w) \in Int /\ 0 <= Rounded(x(n), w) /\ Rounded(x(n), w) <= P
    <3> DEFINE y == x(n)
           none == 0
    <3>1. y \in Int /\ w * none <= y /\ y <= w * P /\ none \in Int /\ P \in Int
      BY <2>1, <2>5
    <3> HIDE DEF y, none
    <3>2. Rounded(y, w) \in Int /\ none <= Rounded(y, w) /\ Rounded(y, w) <= P
      BY <1>1, <3>1, RoundedLies
    <3> QED BY <3>2 DEF y, none
  <2>8. Rounded(x(m), w) <= Rounded(x(n), w)
    BY <1>1, <2>5, RoundedGrows
  <2> QED BY <1>3, <2>6, <2>7, <2>8
<1>6. \A n \in Node : n \in Int
  BY <1>1
<1>7. StartingRamp \in [Node -> Duty]
  BY <1>2, <1>5, <1>6, DutyOfPercent
<1>8. \A m, n \in Node : m <= n => StartingRamp[m] <= StartingRamp[n]
  BY <1>2, <1>5, DutyOfPercent
<1>9. ASSUME NEW c \in Channel, NEW n \in Node PROVE StartingRamp[n] >= MinDuty[c]
  <2>1. 0 \in Node /\ 0 <= n
    BY <1>1
  <2>2. StartingRamp[0] <= StartingRamp[n] /\ StartingRamp[0] \in Duty /\ StartingRamp[n] \in Duty
    BY <1>7, <1>8, <2>1
  <2>3. MinDuty[c] <= StartingRamp[0] /\ MinDuty[c] \in Int
    BY EditorAssumption, CurvesAssumption DEF Channel
  <2> QED BY <2>2, <2>3, CurvesAssumption DEF Duty
<1> QED BY <1>7, <1>8, <1>9 DEF Ramp

\* Setting a node keeps the others in order, and setting it to what it was moves nothing.
LEMMA SetNodeHolds ==
    ASSUME NEW c \in Channel, NEW curve, Ramp(c, curve), NEW node \in Node, NEW duty \in Duty
    PROVE  /\ SetNode(curve, node, duty) \in [Node -> Duty] /\ SetNode(curve, node, duty)[node] = duty
           /\ duty >= MinDuty[c] => Ramp(c, SetNode(curve, node, duty))
           /\ SetNode(curve, node, curve[node]) = curve
<1> DEFINE moved == SetNode(curve, node, duty)
<1>1. /\ \A n \in Node : n \in Int /\ curve[n] \in Duty /\ curve[n] \in Int
      /\ duty \in Int /\ MinDuty[c] \in Int /\ node \in Int
      /\ \A m, n \in Node : m <= n => curve[m] <= curve[n]
      /\ \A n \in Node : curve[n] >= MinDuty[c]
  BY CurvesAssumption DEF Ramp, Node, Duty, Channel
<1>2. \A n \in Node : moved[n] = IF n = node THEN duty
                                 ELSE IF n > node /\ curve[n] < duty THEN duty
                                 ELSE IF n < node /\ curve[n] > duty THEN duty
                                 ELSE curve[n]
  BY <1>1 DEF SetNode
<1>3. moved \in [Node -> Duty] /\ moved[node] = duty
  <2>1. moved = [n \in Node |-> moved[n]]
    BY DEF SetNode
  <2>2. \A n \in Node : moved[n] \in Duty
    BY <1>1, <1>2
  <2> HIDE DEF moved
  <2> QED BY <1>2, <2>1, <2>2
<1> HIDE DEF moved
<1>4. \A m, n \in Node : m <= n => moved[m] <= moved[n]
  <2> SUFFICES ASSUME NEW m \in Node, NEW n \in Node, m <= n PROVE moved[m] <= moved[n]
    OBVIOUS
  <2>1. curve[m] <= curve[n]
    BY <1>1
  <2> QED BY <1>1, <1>2, <2>1
<1>5. duty >= MinDuty[c] => \A n \in Node : moved[n] >= MinDuty[c]
  BY <1>1, <1>2
<1>6. SetNode(curve, node, curve[node]) = curve
  <2> DEFINE same == SetNode(curve, node, curve[node])
  <2>1. same = [n \in Node |-> same[n]] /\ curve = [n \in Node |-> curve[n]]
    BY DEF SetNode, Ramp
  <2>2. ASSUME NEW n \in Node PROVE same[n] = curve[n]
    <3>1. same[n] = CASE n = node -> curve[node]
                      [] n > node /\ curve[n] < curve[node] -> curve[node]
                      [] n < node /\ curve[n] > curve[node] -> curve[node]
                      [] OTHER -> curve[n]
      BY DEF SetNode
    <3>2. ~(n > node /\ curve[n] < curve[node]) /\ ~(n < node /\ curve[n] > curve[node])
      BY <1>1
    <3> QED BY <3>1, <3>2
  <2> HIDE DEF same
  <2>3. same = curve
    BY <2>1, <2>2
  <2> QED BY <2>3 DEF same
<1> QED BY <1>3, <1>4, <1>5, <1>6 DEF Ramp, moved

\* What is drawn is within the device's range, in order and above the floors.
DrawnWithin ==
    /\ mode \in CoolingMode
    /\ duties \in [Channel -> Duty] /\ \A c \in Channel : duties[c] >= MinDuty[c]
    /\ nodes \in [Channel -> [Node -> Duty]] /\ \A c \in Channel : Ramp(c, nodes[c])

\* What was confirmed and what is on its way passed the gate.
GatePassed ==
    /\ applied \in CoolingProgram /\ ValidProgram(applied)
    /\ inFlight \in CoolingProgram /\ ValidProgram(inFlight)

\* A curve under a gesture is the one at the press with one node set.
HeldCurve ==
    \/ drag = NoDrag
    \/ \E c \in Channel : drag = [of |-> "duty", channel |-> c]
    \/ \E c \in Channel, n \in Node, base \in [Node -> Duty], duty \in Duty :
        /\ Ramp(c, base)
        /\ drag = [of |-> "node", channel |-> c, node |-> n, base |-> base]
        /\ nodes[c] = SetNode(base, n, duty)

\* The inductive invariant of Editor.
EditorIInv == DrawnWithin /\ GatePassed /\ HeldCurve

\* What is drawn within passes the gate.
LEMMA ProgramPasses ==
    ASSUME DrawnWithin
    PROVE  EditorProgram \in CoolingProgram /\ ValidProgram(EditorProgram)
<1> USE DEF DrawnWithin
<1>1. CASE mode = "onboard"
  <2>1. EditorProgram = [mode |-> "onboard"]
    BY <1>1 DEF EditorProgram, NoProgram
  <2> QED BY <2>1 DEF CoolingProgram, ValidProgram
<1>2. CASE mode = "fixed"
  <2>1. EditorProgram = [mode |-> "fixed", of |-> duties]
    BY <1>2 DEF EditorProgram
  <2> QED BY <2>1 DEF CoolingProgram, ValidProgram, ValidDuty, Channel
<1>3. CASE mode = "curve"
  <2> DEFINE of == [c \in Channel |-> Interpolate(nodes[c])]
  <2>1. EditorProgram = [mode |-> "curve", of |-> of]
    BY <1>3 DEF EditorProgram
  <2>2. \A c \in Channel : Interpolate(nodes[c]) \in [Point -> Duty] /\ ValidCurve(c, Interpolate(nodes[c]))
    BY InterpolationIsValid
  <2>3. of \in [Channel -> [Point -> Duty]] /\ \A c \in Channel : ValidCurve(c, of[c])
    BY <2>2
  <2> HIDE DEF of
  <2> QED BY <2>1, <2>3 DEF CoolingProgram, ValidProgram, Channel
<1> QED BY <1>1, <1>2, <1>3 DEF CoolingMode

\* A duty that was clamped is within, one that was within is itself.
LEMMA ClampedDutyHolds ==
    ASSUME NEW c \in Channel, NEW d \in Int
    PROVE  /\ ClampedDuty(c, d) \in Duty /\ ClampedDuty(c, d) >= MinDuty[c]
           /\ d \in Duty /\ d >= MinDuty[c] => ClampedDuty(c, d) = d
<1>1. MinDuty[c] \in Int /\ MaxDuty \in Int /\ 0 <= MinDuty[c] /\ MinDuty[c] <= MaxDuty
  BY CurvesAssumption DEF Channel
<1>2. ClampedDuty(c, d) \in MinDuty[c]..MaxDuty /\ (d \in MinDuty[c]..MaxDuty => ClampedDuty(c, d) = d)
  BY <1>1, Clamps DEF ClampedDuty
<1> QED BY <1>1, <1>2 DEF Duty

\* One press of a stepper asks for a setting there is.
LEMMA SteppedHolds ==
    ASSUME NEW d \in Duty, NEW steps \in {-1, 1}
    PROVE  /\ Clamped(DutyToPercent(d) + steps, 0, MaxPercent) \in Percent
           /\ Stepped(d, steps) \in Duty /\ Stepped(d, steps) \in Int
<1>1. DutyToPercent(d) \in Percent /\ d <= d
  BY PercentOfDuty, CurvesAssumption DEF Duty
<1>2. DutyToPercent(d) + steps \in Int /\ 0 <= MaxPercent /\ MaxPercent \in Int
  BY <1>1, CurvesAssumption DEF Percent
<1>3. Clamped(DutyToPercent(d) + steps, 0, MaxPercent) \in Percent
  <2> DEFINE x == DutyToPercent(d) + steps
             none == 0
  <2>1. x \in Int /\ none \in Int /\ none <= MaxPercent /\ MaxPercent \in Int
    BY <1>2
  <2> HIDE DEF x, none
  <2>2. Clamped(x, none, MaxPercent) \in none..MaxPercent
    BY <2>1, Clamps
  <2> QED BY <2>2 DEF Percent, x, none
<1>4. Stepped(d, steps) \in Duty
  <2> DEFINE p == Clamped(DutyToPercent(d) + steps, 0, MaxPercent)
  <2>1. p \in Percent /\ p <= p
    BY <1>3, CurvesAssumption DEF Percent
  <2> HIDE DEF p
  <2>2. DutyFromPercent(p) \in Duty
    BY <2>1, DutyOfPercent
  <2> QED BY <2>2 DEF Stepped, p
<1> QED BY <1>3, <1>4, CurvesAssumption DEF Duty

\* A duty that is set leaves the duties within.
LEMMA SetDutyHolds ==
    ASSUME DrawnWithin, NEW c \in Channel, NEW d \in Int, SetDuty(c, d)
    PROVE  duties' \in [Channel -> Duty] /\ \A e \in Channel : duties'[e] >= MinDuty[e]
<1>1. ClampedDuty(c, d) \in Duty /\ ClampedDuty(c, d) >= MinDuty[c]
  BY ClampedDutyHolds
<1>2. duties' = [duties EXCEPT ![c] = ClampedDuty(c, d)] /\ duties \in [Channel -> Duty]
  BY DEF SetDuty, DrawnWithin
<1> QED BY <1>1, <1>2 DEF DrawnWithin

\* So does a node, whatever curve it is set on.
LEMMA SetNodeFromHolds ==
    ASSUME DrawnWithin, NEW c \in Channel, NEW base, Ramp(c, base), NEW n \in Node, NEW d \in Int,
           SetNodeFrom(c, base, n, d)
    PROVE  /\ nodes' \in [Channel -> [Node -> Duty]] /\ \A e \in Channel : Ramp(e, nodes'[e])
           /\ mode' = "curve" /\ \E duty \in Duty : nodes'[c] = SetNode(base, n, duty)
<1> DEFINE duty == ClampedDuty(c, d)
<1>1. duty \in Duty /\ duty >= MinDuty[c]
  BY ClampedDutyHolds
<1>2. nodes' = [nodes EXCEPT ![c] = SetNode(base, n, duty)] /\ mode' = "curve"
      /\ nodes \in [Channel -> [Node -> Duty]]
  BY DEF SetNodeFrom, DrawnWithin
<1> HIDE DEF duty
<1>3. SetNode(base, n, duty) \in [Node -> Duty] /\ Ramp(c, SetNode(base, n, duty))
  BY <1>1, SetNodeHolds
<1>4. nodes' \in [Channel -> [Node -> Duty]] /\ nodes'[c] = SetNode(base, n, duty)
      /\ \A e \in Channel : e # c => nodes'[e] = nodes[e]
  BY <1>2, <1>3
<1> QED BY <1>1, <1>2, <1>3, <1>4 DEF DrawnWithin

\* The editor opens within.
LEMMA EditorInitHolds == EditorInit => EditorIInv
<1> SUFFICES ASSUME EditorInit PROVE EditorIInv
  OBVIOUS
<1> USE DEF EditorInit
<1>1. \A c \in Channel : Clamped(DutyFromPercent(MaxPercent \div 2), MinDuty[c], MaxDuty) \in Duty
                         /\ Clamped(DutyFromPercent(MaxPercent \div 2), MinDuty[c], MaxDuty) >= MinDuty[c]
  <2>1. MaxPercent \div 2 \in Percent /\ MaxPercent \div 2 <= MaxPercent \div 2
    BY CurvesAssumption DEF Percent
  <2>2. DutyFromPercent(MaxPercent \div 2) \in Int
    BY <2>1, DutyOfPercent, CurvesAssumption DEF Duty
  <2> QED BY <2>2, ClampedDutyHolds DEF ClampedDuty
<1>2. \A c \in Channel : nodes[c] = StartingRamp /\ Ramp(c, StartingRamp)
  BY StartIsRamp
<1>3. nodes \in [Channel -> [Node -> Duty]]
  BY <1>2 DEF Ramp
<1>4. DrawnWithin
  BY <1>1, <1>2, <1>3 DEF DrawnWithin, CoolingMode
<1>5. NoProgram \in CoolingProgram /\ ValidProgram(NoProgram)
  BY DEF NoProgram, CoolingProgram, ValidProgram
<1> QED BY <1>4, <1>5 DEF EditorIInv, GatePassed, HeldCurve

\* Every gesture of the operator keeps the invariant.
LEMMA GesturesHold ==
    ASSUME EditorIInv,
           \/ \E to \in CoolingMode : SetMode(to)
           \/ \E c \in Channel, steps \in {-1, 1} :
               AdjustDuty(c, steps) \/ \E n \in Node : AdjustNode(c, n, steps)
           \/ \E c \in Channel, percent \in Percent :
               PressDuty(c, percent) \/ \E n \in Node : PressNode(c, n, percent)
           \/ \E percent \in Percent : DragTo(percent)
           \/ EndDrag
    PROVE  EditorIInv'
<1> USE DEF EditorIInv
<1>0. \A percent \in Percent : DutyFromPercent(percent) \in Int
  BY DutyOfPercent, CurvesAssumption DEF Percent, Duty
<1>1. ASSUME NEW to \in CoolingMode, SetMode(to) PROVE EditorIInv'
  BY <1>1 DEF SetMode, DrawnWithin, GatePassed, HeldCurve
<1>2. ASSUME NEW c \in Channel, NEW steps \in {-1, 1}, AdjustDuty(c, steps) PROVE EditorIInv'
  <2>1. Stepped(duties[c], steps) \in Int
    BY SteppedHolds DEF DrawnWithin
  <2>2. SetDuty(c, Stepped(duties[c], steps))
    BY <1>2 DEF AdjustDuty
  <2>3. duties' \in [Channel -> Duty] /\ \A e \in Channel : duties'[e] >= MinDuty[e]
    BY <2>1, <2>2, SetDutyHolds
  <2>4. UNCHANGED <<mode, nodes, applied, inFlight, drag>>
    BY <1>2 DEF AdjustDuty
  <2> QED BY <2>3, <2>4 DEF DrawnWithin, GatePassed, HeldCurve
<1>3. ASSUME NEW c \in Channel, NEW steps \in {-1, 1}, NEW n \in Node, AdjustNode(c, n, steps)
      PROVE EditorIInv'
  <2>1. Stepped(nodes[c][n], steps) \in Int /\ Ramp(c, nodes[c])
    BY SteppedHolds DEF DrawnWithin
  <2>2. SetNodeFrom(c, nodes[c], n, Stepped(nodes[c][n], steps))
    BY <1>3 DEF AdjustNode
  <2>3. nodes' \in [Channel -> [Node -> Duty]] /\ (\A e \in Channel : Ramp(e, nodes'[e])) /\ mode' = "curve"
    BY <2>1, <2>2, SetNodeFromHolds
  <2>4. UNCHANGED <<duties, applied, inFlight, drag>> /\ drag = NoDrag
    BY <1>3 DEF AdjustNode
  <2> QED BY <2>3, <2>4 DEF DrawnWithin, GatePassed, HeldCurve, CoolingMode
<1>4. ASSUME NEW c \in Channel, NEW percent \in Percent, PressDuty(c, percent) PROVE EditorIInv'
  <2>1. SetDuty(c, DutyFromPercent(percent))
    BY <1>4 DEF PressDuty
  <2>2. duties' \in [Channel -> Duty] /\ \A e \in Channel : duties'[e] >= MinDuty[e]
    BY <1>0, <2>1, SetDutyHolds
  <2>3. UNCHANGED <<mode, nodes, applied, inFlight>> /\ drag' = [of |-> "duty", channel |-> c]
    BY <1>4 DEF PressDuty
  <2> QED BY <2>2, <2>3 DEF DrawnWithin, GatePassed, HeldCurve
<1>5. ASSUME NEW c \in Channel, NEW percent \in Percent, NEW n \in Node, PressNode(c, n, percent)
      PROVE EditorIInv'
  <2>1. Ramp(c, nodes[c]) /\ nodes[c] \in [Node -> Duty]
    BY DEF DrawnWithin
  <2>2. SetNodeFrom(c, nodes[c], n, DutyFromPercent(percent))
    BY <1>5 DEF PressNode
  <2>3. /\ nodes' \in [Channel -> [Node -> Duty]] /\ mode' = "curve"
        /\ \A e \in Channel : Ramp(e, nodes'[e])
        /\ \E duty \in Duty : nodes'[c] = SetNode(nodes[c], n, duty)
    BY <1>0, <2>1, <2>2, SetNodeFromHolds
  <2>4. /\ UNCHANGED <<duties, applied, inFlight>>
        /\ drag' = [of |-> "node", channel |-> c, node |-> n, base |-> nodes[c]]
    BY <1>5 DEF PressNode
  <2>5. HeldCurve'
    BY <2>1, <2>3, <2>4 DEF HeldCurve
  <2> QED BY <2>3, <2>4, <2>5 DEF DrawnWithin, GatePassed, CoolingMode
<1>6. ASSUME NEW percent \in Percent, DragTo(percent) PROVE EditorIInv'
  <2>0. UNCHANGED <<applied, inFlight, drag>>
    BY <1>6 DEF DragTo
  <2>1. CASE /\ drag.of = "node"
             /\ SetNodeFrom(drag.channel, DragBase, drag.node, DutyFromPercent(percent))
             /\ UNCHANGED duties
    <3>1. PICK c \in Channel, n \in Node, base \in [Node -> Duty] :
            Ramp(c, base) /\ drag = [of |-> "node", channel |-> c, node |-> n, base |-> base]
      BY <2>1 DEF HeldCurve, NoDrag
    <3>2. SetNodeFrom(c, base, n, DutyFromPercent(percent))
      BY <2>1, <3>1 DEF DragBase
    <3>3. /\ nodes' \in [Channel -> [Node -> Duty]] /\ mode' = "curve"
          /\ \A e \in Channel : Ramp(e, nodes'[e])
          /\ \E duty \in Duty : nodes'[c] = SetNode(base, n, duty)
      BY <1>0, <3>1, <3>2, SetNodeFromHolds
    <3>4. HeldCurve'
      BY <2>0, <3>1, <3>3 DEF HeldCurve
    <3> QED BY <2>0, <2>1, <3>3, <3>4 DEF DrawnWithin, GatePassed, CoolingMode
  <2>2. CASE /\ drag.of = "duty"
             /\ SetDuty(drag.channel, DutyFromPercent(percent))
             /\ UNCHANGED <<mode, nodes>>
    <3>1. PICK c \in Channel : drag = [of |-> "duty", channel |-> c]
      BY <2>2 DEF HeldCurve, NoDrag
    <3>2. SetDuty(c, DutyFromPercent(percent))
      BY <2>2, <3>1
    <3>3. duties' \in [Channel -> Duty] /\ \A e \in Channel : duties'[e] >= MinDuty[e]
      BY <1>0, <3>2, SetDutyHolds
    <3> QED BY <2>0, <2>2, <3>3 DEF DrawnWithin, GatePassed, HeldCurve
  <2> QED BY <1>6, <2>1, <2>2 DEF DragTo
<1>7. CASE EndDrag
  BY <1>7 DEF EndDrag, drawn, DrawnWithin, GatePassed, HeldCurve
<1> QED BY <1>1, <1>2, <1>3, <1>4, <1>5, <1>6, <1>7

\* So does a program the daemon reports.
LEMMA AdoptionHolds ==
    ASSUME EditorIInv, NEW program \in Committed, AdoptCommitted(program)
    PROVE  EditorIInv'
<1> USE DEF EditorIInv
<1>0. /\ UNCHANGED <<inFlight, drag, gestures>> /\ drag = NoDrag
      /\ program \in CoolingProgram /\ ValidProgram(program)
  BY EditorAssumption DEF AdoptCommitted
<1>1. CASE /\ program.mode = "onboard"
           /\ mode' = "onboard" /\ applied' = program
           /\ UNCHANGED <<duties, nodes>>
  BY <1>0, <1>1 DEF DrawnWithin, GatePassed, HeldCurve, CoolingMode
<1>2. CASE /\ program.mode = "fixed"
           /\ duties' = [c \in Channel |-> ClampedDuty(c, program.of[c])]
           /\ mode' = "fixed" /\ applied' = program
           /\ UNCHANGED nodes
  <2>1. program.of \in [Channel -> Duty]
    BY <1>0, <1>2 DEF CoolingProgram
  <2>2. \A c \in Channel : program.of[c] \in Int
    BY <2>1, CurvesAssumption DEF Duty
  <2>3. \A c \in Channel : /\ ClampedDuty(c, program.of[c]) \in Duty
                          /\ ClampedDuty(c, program.of[c]) >= MinDuty[c]
    BY <2>2, ClampedDutyHolds
  <2>4. duties' \in [Channel -> Duty] /\ \A e \in Channel : duties'[e] >= MinDuty[e]
    BY <1>2, <2>3
  <2> QED BY <1>0, <1>2, <2>4 DEF DrawnWithin, GatePassed, HeldCurve, CoolingMode
<1>3. CASE /\ program.mode = "curve"
           /\ nodes' = [c \in Channel |-> Sampled(program.of[c])]
           /\ mode' = "curve" /\ applied' = program
           /\ UNCHANGED duties
  <2>1. program.of \in [Channel -> [Point -> Duty]] /\ \A c \in Channel : ValidCurve(c, program.of[c])
    BY <1>0, <1>3 DEF CoolingProgram, ValidProgram, Channel
  <2>2. \A c \in Channel : Ramp(c, Sampled(program.of[c]))
    BY <2>1, SampledIsRamp
  <2>3. nodes' \in [Channel -> [Node -> Duty]] /\ \A e \in Channel : Ramp(e, nodes'[e])
    BY <1>3, <2>2 DEF Ramp
  <2> QED BY <1>0, <1>3, <2>3 DEF DrawnWithin, GatePassed, HeldCurve, CoolingMode
<1> QED BY <1>1, <1>2, <1>3 DEF AdoptCommitted

\* So does a write and its confirmation.
LEMMA WritesHold ==
    ASSUME EditorIInv, Sends \/ RecordApplied
    PROVE  EditorIInv'
<1> USE DEF EditorIInv
<1>1. CASE Sends
  <2>1. inFlight' \in CoolingProgram /\ ValidProgram(inFlight')
    BY <1>1, ProgramPasses DEF Sends
  <2> QED BY <1>1, <2>1 DEF Sends, drawn, DrawnWithin, GatePassed, HeldCurve
<1>2. CASE RecordApplied
  <2>1. NoProgram \in CoolingProgram /\ ValidProgram(NoProgram)
    BY DEF NoProgram, CoolingProgram, ValidProgram
  <2> QED BY <1>2, <2>1 DEF RecordApplied, drawn, DrawnWithin, GatePassed, HeldCurve
<1> QED BY <1>1, <1>2

\* So does a revert to what was confirmed and what is read back.
LEMMA CancelHolds ==
    ASSUME EditorIInv, NEW read \in Readback, Cancel(read)
    PROVE  EditorIInv'
<1> USE DEF EditorIInv
<1>0. UNCHANGED <<applied, inFlight, drag>> /\ drag = NoDrag /\ mode' = read.mode
  BY DEF Cancel
<1>1. read.mode \in CoolingMode /\ read.duty \in Int
  BY EditorAssumption, CurvesAssumption DEF Duty
<1>2. duties' \in [Channel -> Duty] /\ \A e \in Channel : duties'[e] >= MinDuty[e]
  <2>1. \A c \in Channel : ClampedDuty(c, read.duty) \in Duty /\ ClampedDuty(c, read.duty) >= MinDuty[c]
    BY <1>1, ClampedDutyHolds
  <2> QED BY <2>1 DEF Cancel
<1>3. nodes' \in [Channel -> [Node -> Duty]] /\ \A e \in Channel : Ramp(e, nodes'[e])
  <2>1. CASE applied.mode = "curve" /\ nodes' = [c \in Channel |-> Sampled(applied.of[c])]
    <3>1. applied.of \in [Channel -> [Point -> Duty]] /\ \A c \in Channel : ValidCurve(c, applied.of[c])
      BY <2>1 DEF GatePassed, CoolingProgram, ValidProgram, Channel
    <3>2. \A c \in Channel : Ramp(c, Sampled(applied.of[c]))
      BY <3>1, SampledIsRamp
    <3> QED BY <2>1, <3>2 DEF Ramp
  <2>2. CASE nodes' = nodes
    BY <2>2 DEF DrawnWithin
  <2> QED BY <2>1, <2>2 DEF Cancel
<1> QED BY <1>0, <1>1, <1>2, <1>3 DEF DrawnWithin, GatePassed, HeldCurve

\* Every step keeps it.
LEMMA EditorStepHolds == EditorIInv /\ [EditorNext]_editorVars => EditorIInv'
<1> SUFFICES ASSUME EditorIInv, [EditorNext]_editorVars PROVE EditorIInv'
  OBVIOUS
<1>1. CASE UNCHANGED editorVars
  BY <1>1 DEF editorVars, drawn, EditorIInv, DrawnWithin, GatePassed, HeldCurve
<1>2. CASE EditorNext
  BY <1>2, GesturesHold, AdoptionHolds, WritesHold, CancelHolds DEF EditorNext
<1> QED BY <1>1, <1>2

\* What the editor relies on holds of every behaviour of it.
THEOREM EditorInductive == EditorSpec => []EditorIInv
<1>1. EditorInit => EditorIInv
  BY EditorInitHolds
<1>2. EditorIInv /\ [EditorNext]_editorVars => EditorIInv'
  BY EditorStepHolds
<1> QED BY <1>1, <1>2, PTL DEF EditorSpec

\* The invariant says the screen is sound.
LEMMA EditorInvImpliesSound == EditorIInv => EditorIsSound
<1> SUFFICES ASSUME EditorIInv PROVE EditorIsSound
  OBVIOUS
<1> USE DEF EditorIInv
<1>1. EditorTypeOK
  <2>1. applied.mode = "onboard" \/ DOMAIN applied.of = Channel
    BY DEF GatePassed, CoolingProgram
  <2>2. drag = NoDrag \/ (drag.of \in {"duty", "node"} /\ drag.channel \in Channel)
    BY DEF HeldCurve
  <2> QED BY <2>1, <2>2 DEF EditorTypeOK, DrawnWithin
<1>2. ScreenIsValid
  BY ProgramPasses DEF ScreenIsValid
<1>3. DragComesBack
  <2> SUFFICES ASSUME drag.of = "node", nodes[drag.channel][drag.node] = drag.base[drag.node]
               PROVE  nodes[drag.channel] = drag.base
    BY DEF DragComesBack
  <2>1. PICK c \in Channel, n \in Node, base \in [Node -> Duty], duty \in Duty :
          /\ Ramp(c, base)
          /\ drag = [of |-> "node", channel |-> c, node |-> n, base |-> base]
          /\ nodes[c] = SetNode(base, n, duty)
    BY DEF HeldCurve, NoDrag
  <2>2. SetNode(base, n, duty)[n] = duty /\ SetNode(base, n, base[n]) = base
    BY <2>1, SetNodeHolds
  <2>3. nodes[c][n] = base[n]
    BY <2>1
  <2>4. duty = base[n]
    BY <2>1, <2>2, <2>3
  <2> QED BY <2>1, <2>2, <2>4
<1> QED BY <1>1, <1>2, <1>3 DEF EditorIsSound

\* (EditorIsSound) The screen holds a program the daemon takes, and a gesture leaves it as drawn.
THEOREM EditorStaysSound == EditorSpec => []EditorIsSound
BY EditorInductive, EditorInvImpliesSound, PTL

\* Clamping follows the order.
LEMMA ClampsInOrder ==
    ASSUME NEW low \in Int, NEW high \in Int, NEW x \in Int, NEW y \in Int, x <= y, low <= high
    PROVE  Clamped(x, low, high) <= Clamped(y, low, high)
BY DEF Clamped, Lesser

\* A setting clamped as a duty reads as the same setting clamped as a percentage.
LEMMA ClampedReadsBack ==
    ASSUME NEW c \in Channel, NEW p \in Percent
    PROVE  DutyToPercent(ClampedDuty(c, DutyFromPercent(p))) =
               Clamped(p, DutyToPercent(MinDuty[c]), MaxPercent)
<1> DEFINE d == DutyFromPercent(p)
           f == MinDuty[c]
           g == DutyToPercent(f)
<1>1. d \in Duty /\ f \in Duty /\ DutyToPercent(d) = p /\ p <= p
  BY CurvesAssumption, DutyOfPercent, PercentSurvives DEF Duty, Channel, Percent
<1>2. /\ MaxDuty \in Int /\ MaxPercent \in Int /\ p \in Int /\ p <= MaxPercent
      /\ d \in Int /\ f \in Int /\ d <= MaxDuty
  BY <1>1, CurvesAssumption DEF Duty, Percent
<1>3. ClampedDuty(c, d) = IF d < f THEN f ELSE d
  BY <1>2 DEF ClampedDuty, Clamped, Lesser
<1>4. g \in Percent
  BY <1>1, <1>2, PercentOfDuty
<1>5. Clamped(p, g, MaxPercent) = IF p < g THEN g ELSE p
  BY <1>2, <1>4 DEF Clamped, Lesser, Percent
<1>6. CASE d < f
  <2>1. p <= g
    BY <1>1, <1>2, <1>6, PercentOfDuty
  <2>2. Clamped(p, g, MaxPercent) = g
    BY <1>2, <1>4, <1>5, <2>1 DEF Percent
  <2> QED BY <1>3, <1>6, <2>2
<1>7. CASE ~(d < f)
  <2>1. f <= d
    BY <1>2, <1>7
  <2>2. g <= p
    BY <1>1, <2>1, PercentOfDuty
  <2>3. Clamped(p, g, MaxPercent) = p
    BY <1>2, <1>4, <1>5, <2>2 DEF Percent
  <2> QED BY <1>1, <1>3, <1>7, <2>3
<1> QED BY <1>6, <1>7

\* Clamping to the whole range first changes nothing.
LEMMA ClampedTwice ==
    ASSUME NEW g \in Percent, NEW x \in Int
    PROVE  Clamped(Clamped(x, 0, MaxPercent), g, MaxPercent) = Clamped(x, g, MaxPercent)
BY CurvesAssumption DEF Clamped, Lesser, Percent

\* One press of a stepper is one setting.
LEMMA StepsHold == EditorIInv => StepIsOneSetting
<1> SUFFICES ASSUME EditorIInv, NEW c \in Channel, NEW steps \in {-1, 1}, AdjustDuty(c, steps)
             PROVE  DutyToPercent(duties'[c]) =
                        Clamped(DutyToPercent(duties[c]) + steps, DutyToPercent(MinDuty[c]), MaxPercent)
  BY DEF StepIsOneSetting
<1> DEFINE x == DutyToPercent(duties[c]) + steps
           p == Clamped(x, 0, MaxPercent)
           g == DutyToPercent(MinDuty[c])
<1>1. duties \in [Channel -> Duty] /\ duties[c] \in Duty /\ MinDuty[c] \in Duty
  BY CurvesAssumption DEF EditorIInv, DrawnWithin, Duty, Channel
<1>2. p \in Percent
  BY <1>1, SteppedHolds
<1>3. x \in Int /\ g \in Percent
  <2>1. \A e \in Duty : e <= e
    BY CurvesAssumption DEF Duty
  <2>2. DutyToPercent(duties[c]) \in Percent /\ g \in Percent
    BY <1>1, <2>1, PercentOfDuty
  <2> QED BY <2>2, CurvesAssumption DEF Percent
<1>4. duties'[c] = ClampedDuty(c, DutyFromPercent(p))
  BY <1>1 DEF AdjustDuty, SetDuty, Stepped
<1> HIDE DEF p
<1>5. DutyToPercent(duties'[c]) = Clamped(p, g, MaxPercent)
  BY <1>2, <1>4, ClampedReadsBack
<1> USE DEF p
<1> HIDE DEF x, g
<1>6. Clamped(p, g, MaxPercent) = Clamped(x, g, MaxPercent)
  BY <1>3, ClampedTwice
<1> QED BY <1>5, <1>6 DEF x, g

\* What is adopted is what would be written.
LEMMA AdoptionsAreWritten == AdoptedIsWritten
<1> SUFFICES ASSUME NEW program \in Committed, AdoptCommitted(program)
             PROVE  EditorProgram' = program
  BY DEF AdoptedIsWritten
<1>0. program \in CoolingProgram /\ ValidProgram(program)
  BY EditorAssumption
<1>1. CASE program.mode = "onboard"
  <2>1. program = [mode |-> "onboard"]
    BY <1>0, <1>1 DEF CoolingProgram
  <2>2. mode' = "onboard"
    BY <1>1 DEF AdoptCommitted
  <2> QED BY <2>1, <2>2 DEF EditorProgram, NoProgram
<1>2. CASE program.mode = "fixed"
  <2>1. program \in [mode : {"fixed"}, of : [Channel -> Duty]]
    BY <1>0, <1>2 DEF CoolingProgram
  <2>2. program.of \in [Channel -> Duty] /\ program = [mode |-> "fixed", of |-> program.of]
    BY <2>1
  <2>3. \A c \in Channel : program.of[c] \in Duty /\ program.of[c] \in Int /\ program.of[c] >= MinDuty[c]
    BY <1>0, <1>2, <2>2, CurvesAssumption DEF ValidProgram, ValidDuty, Channel, Duty
  <2>4. duties' = [c \in Channel |-> ClampedDuty(c, program.of[c])] /\ mode' = "fixed"
    BY <1>2 DEF AdoptCommitted
  <2>5. \A c \in Channel : ClampedDuty(c, program.of[c]) = program.of[c]
    BY <2>3, ClampedDutyHolds
  <2>6. duties' = program.of
    BY <2>2, <2>4, <2>5
  <2>7. EditorProgram' = [mode |-> "fixed", of |-> duties']
    BY <2>4 DEF EditorProgram
  <2> QED BY <2>2, <2>6, <2>7
<1>3. CASE program.mode = "curve"
  <2>1. program \in [mode : {"curve"}, of : [Channel -> [Point -> Duty]]]
    BY <1>0, <1>3 DEF CoolingProgram
  <2>2. program.of \in [Channel -> [Point -> Duty]] /\ program = [mode |-> "curve", of |-> program.of]
    BY <2>1
  <2>3. /\ nodes' = [c \in Channel |-> Sampled(program.of[c])] /\ mode' = "curve"
        /\ \A c \in Channel : Drawable(program.of[c])
    BY <1>3 DEF AdoptCommitted
  <2>4. [c \in Channel |-> Interpolate(nodes'[c])] = program.of
    BY <2>2, <2>3 DEF Drawable
  <2>5. EditorProgram' = [mode |-> "curve", of |-> [c \in Channel |-> Interpolate(nodes'[c])]]
    BY <2>3 DEF EditorProgram
  <2> QED BY <2>2, <2>4, <2>5
<1> QED BY <1>0, <1>1, <1>2, <1>3 DEF CoolingProgram

\* (EditorKeepsTheGrid) Neither adopting a program nor stepping a duty moves what nobody moved.
THEOREM EditorStaysOnTheGrid == EditorSpec => EditorKeepsTheGrid
<1>1. EditorIInv => (editorVars' # editorVars => AdoptedIsWritten /\ StepIsOneSetting)
  BY StepsHold, AdoptionsAreWritten
<1> QED BY <1>1, EditorInductive, PTL DEF EditorKeepsTheGrid

-----------------------------------------------------------------------------
(* The lighting rows and their reports: Lights.                            *)

\* What a row may hold: a mode, a color of the picker or its own default, a pace.
Hue == {Digits(packed) : packed \in Swatch \cup {Accent}}
Pace == {"slowest", "slower", "normal", "faster", "fastest"}
RowMode == {"fixed", "off", "breathing", "spectrum_wave"}
AsRow(kind, color, brightness, speed, direction) ==
    [mode |-> kind, color |-> color, brightness |-> brightness, speed |-> speed, direction |-> direction]
IsRow(row) ==
    \E kind \in RowMode, color \in Hue, speed \in Pace, direction \in Directions : \E brightness :
        row = AsRow(kind, color, brightness, speed, direction)

\* What a row becomes, mode by mode.
OffProgram == [mode |-> "off"]
StillProgram(color, brightness) == [mode |-> "fixed", color |-> ParsedColor(color), brightness |-> brightness]
BreathProgram(color, brightness, speed) ==
    [mode |-> "breathing", colors |-> <<ParsedColor(color)>>, brightness |-> brightness,
     speed |-> speed, direction |-> "forward"]
WaveProgram(brightness, speed, direction) ==
    [mode |-> "spectrum_wave", colors |-> <<>>, brightness |-> brightness,
     speed |-> speed, direction |-> direction]

\* A program that a row can become.
IsRowProgram(p) ==
    \/ p = OffProgram
    \/ \E color \in Hue : \E brightness : p = StillProgram(color, brightness)
    \/ \E color \in Hue, speed \in Pace : \E brightness : p = BreathProgram(color, brightness, speed)
    \/ \E speed \in Pace, direction \in Directions : \E brightness :
        p = WaveProgram(brightness, speed, direction)

\* A row becomes one of these.
LEMMA RowPrograms == ASSUME NEW row, IsRow(row) PROVE IsRowProgram(RowProgram(row))
<1>0. PICK kind \in RowMode, color \in Hue, speed \in Pace, direction \in Directions :
        \E brightness : row = AsRow(kind, color, brightness, speed, direction)
  BY DEF IsRow
<1>1. PICK brightness : row = AsRow(kind, color, brightness, speed, direction)
  BY <1>0
<1>2. /\ row.mode = kind /\ row.color = color /\ row.brightness = brightness
      /\ row.speed = speed /\ row.direction = direction
  BY <1>1 DEF AsRow
<1>3. CASE kind = "off"
  <2>1. RowProgram(row) = OffProgram
    BY <1>2, <1>3 DEF RowProgram, OffProgram, Effects
  <2> QED BY <2>1 DEF IsRowProgram
<1>4. CASE kind = "fixed"
  <2>1. RowProgram(row) = StillProgram(color, brightness)
    BY <1>2, <1>4 DEF RowProgram, StillProgram, Effects
  <2> QED BY <2>1 DEF IsRowProgram
<1>5. CASE kind = "breathing"
  <2>1. UsesColor("breathing") /\ ~AcceptsDirection("breathing")
    <3>1. 1 \in 1..8 /\ 1 \notin 0..0
      OBVIOUS
    <3> QED BY <3>1 DEF UsesColor, ColorRange, Effects, AcceptsDirection
  <2>2. RowProgram(row) = BreathProgram(color, brightness, speed)
    BY <1>2, <1>5, <2>1 DEF RowProgram, Effects, DirectionSent, BreathProgram
  <2> QED BY <2>2 DEF IsRowProgram
<1>6. CASE kind = "spectrum_wave"
  <2>1. ~UsesColor("spectrum_wave") /\ AcceptsDirection("spectrum_wave")
    BY DEF UsesColor, ColorRange, Effects, AcceptsDirection
  <2>2. RowProgram(row) = WaveProgram(brightness, speed, direction)
    BY <1>2, <1>6, <2>1 DEF RowProgram, Effects, DirectionSent, WaveProgram
  <2> QED BY <2>2 DEF IsRowProgram
<1> QED BY <1>3, <1>4, <1>5, <1>6 DEF RowMode

\* Each channel has a bit of its own.
LEMMA BitsTell ==
    ASSUME NEW channel \in 1..MaxChannels
    PROVE  {c \in 1..MaxChannels : (ChannelBit(channel) \div ChannelBit(c)) % 2 = 1} = {channel}
<1>1. 1..MaxChannels = {1, 2, 3}
  BY DEF MaxChannels
<1>2. ChannelBit(1) = 1 /\ ChannelBit(2) = 2 /\ ChannelBit(3) = 4
  BY DEF ChannelBit
<1>3. /\ (1 \div 1) % 2 = 1 /\ (1 \div 2) % 2 = 0 /\ (1 \div 4) % 2 = 0
      /\ (2 \div 1) % 2 = 0 /\ (2 \div 2) % 2 = 1 /\ (2 \div 4) % 2 = 0
      /\ (4 \div 1) % 2 = 0 /\ (4 \div 2) % 2 = 0 /\ (4 \div 4) % 2 = 1
  OBVIOUS
<1>4. CASE channel = 1
  BY <1>1, <1>2, <1>3, <1>4
<1>5. CASE channel = 2
  BY <1>1, <1>2, <1>3, <1>5
<1>6. CASE channel = 3
  BY <1>1, <1>2, <1>3, <1>6
<1> QED BY <1>1, <1>4, <1>5, <1>6

\* The position of a speed on its ladder, and the one found again from its two bytes.
LEMMA SpeedsTell ==
    ASSUME NEW speed \in Pace, NEW effect \in Effects
    PROVE  /\ SpeedIndex(speed) \in 1..5
           /\ Speeds[CHOOSE i \in 1..5 :
                SpeedValues(effect)[i] = SpeedValues(effect)[SpeedIndex(speed)]] = speed
           /\ SpeedValues(effect)[SpeedIndex(speed)] =
                <<SpeedValues(effect)[SpeedIndex(speed)][1], SpeedValues(effect)[SpeedIndex(speed)][2]>>
<1>1. 1..5 = {1, 2, 3, 4, 5}
  OBVIOUS
<1>2. \E i \in 1..5 : Speeds[i] = speed
  BY <1>1 DEF Speeds, Pace
<1>3. SpeedIndex(speed) \in 1..5 /\ Speeds[SpeedIndex(speed)] = speed
  BY <1>2 DEF SpeedIndex
<1> DEFINE s == SpeedIndex(speed)
           V == SpeedValues(effect)
<1>4. \A i \in 1..5 : V[i] = V[s] => i = s
  <2> HIDE DEF s
  <2>1. CASE effect = "breathing"
    BY <1>1, <1>3, <2>1 DEF SpeedValues, s
  <2>2. CASE effect = "spectrum_wave"
    BY <1>1, <1>3, <2>2 DEF SpeedValues, s
  <2> QED BY <2>1, <2>2 DEF Effects
<1>5. (CHOOSE i \in 1..5 : V[i] = V[s]) = s
  <2> HIDE DEF s, V
  <2> QED BY <1>3, <1>4 DEF s
<1>6. V[s] = <<V[s][1], V[s][2]>>
  <2> HIDE DEF s
  <2>1. CASE effect = "breathing"
    BY <1>1, <1>3, <2>1 DEF SpeedValues, s
  <2>2. CASE effect = "spectrum_wave"
    BY <1>1, <1>3, <2>2 DEF SpeedValues, s
  <2> QED BY <2>1, <2>2 DEF Effects
<1> QED BY <1>3, <1>5, <1>6

\* Three numbers are a color.
LEMMA ColorOfBytes ==
    ASSUME NEW s, s = [i \in 1..3 |-> s[i]]
    PROVE  <<s[1], s[2], s[3]>> = s
<1>1. <<s[1], s[2], s[3]>> = [i \in 1..3 |-> <<s[1], s[2], s[3]>>[i]]
  OBVIOUS
<1>2. \A i \in 1..3 : <<s[1], s[2], s[3]>>[i] = s[i]
  <2>1. \A i \in 1..3 : i = 1 \/ i = 2 \/ i = 3
    OBVIOUS
  <2> QED BY <2>1
<1> QED BY <1>1, <1>2

\* A report that carries one color, read where it was put.
LEMMA ReportReads ==
    ASSUME NEW channel \in 1..MaxChannels, NEW p, NEW color, Encoding(p).colors = <<color>>
    PROVE  LET r == Report(channel, p)
               e == Encoding(p)
           IN  /\ r[2] = ChannelBit(channel) /\ r[4] = e.mode /\ r[5] = e.speed[1] /\ r[6] = e.speed[2]
               /\ r[7] = color[2] /\ r[8] = color[1] /\ r[9] = color[3]
               /\ r[FooterOffset] = IF p.mode \in Effects /\ p.direction = "backward" THEN 2 ELSE 0
               /\ r[FooterOffset + 1] = 1
<1> DEFINE r == Report(channel, p)
           e == Encoding(p)
           bit == ChannelBit(channel)
           header == <<42, 4, bit, bit, e.mode, e.speed[1], e.speed[2]>>
           backward == p.mode \in Effects /\ p.direction = "backward"
           footer == <<IF backward THEN 2 ELSE 0, Len(e.colors), e.variant, 8, 3>>
           triplet(c) == <<c[2], c[1], c[3]>>
<1>1. r = [i \in 0..(ReportBytes - 1) |->
            CASE i < ColorOffset -> header[i + 1]
              [] i \in ColorOffset..(ColorOffset + 3 * Len(e.colors) - 1) ->
                    triplet(e.colors[(i - ColorOffset) \div 3 + 1])[((i - ColorOffset) % 3) + 1]
              [] i \in FooterOffset..(FooterOffset + 4) -> footer[i - FooterOffset + 1]
              [] OTHER -> 0]
  BY DEF Report
<1>2. Len(e.colors) = 1 /\ e.colors[1] = color
  OBVIOUS
<1> HIDE DEF r, e, bit, backward
<1>3. ReportBytes - 1 = 63 /\ ColorOffset = 7 /\ FooterOffset = 55
  BY DEF ReportBytes, ColorOffset, FooterOffset
<1> HIDE DEF header, triplet, footer
<1>4. \A i \in 0..63 :
        /\ i < 7 => r[i] = header[i + 1]
        /\ i \in 7..9 => r[i] = triplet(e.colors[(i - 7) \div 3 + 1])[((i - 7) % 3) + 1]
        /\ i \in 55..59 => r[i] = footer[i - 55 + 1]
  <2> SUFFICES ASSUME NEW i \in 0..63
               PROVE  /\ i < 7 => r[i] = header[i + 1]
                      /\ i \in 7..9 => r[i] = triplet(e.colors[(i - 7) \div 3 + 1])[((i - 7) % 3) + 1]
                      /\ i \in 55..59 => r[i] = footer[i - 55 + 1]
    OBVIOUS
  <2>1. r[i] = CASE i < ColorOffset -> header[i + 1]
                 [] i \in ColorOffset..(ColorOffset + 3 * Len(e.colors) - 1) ->
                       triplet(e.colors[(i - ColorOffset) \div 3 + 1])[((i - ColorOffset) % 3) + 1]
                 [] i \in FooterOffset..(FooterOffset + 4) -> footer[i - FooterOffset + 1]
                 [] OTHER -> 0
    BY <1>1, <1>3
  <2>2. ColorOffset + 3 * Len(e.colors) - 1 = 9 /\ FooterOffset + 4 = 59
    BY <1>2, <1>3
  <2>3. CASE i < 7
    BY <1>3, <2>1, <2>2, <2>3
  <2>4. CASE i \in 7..9
    <3> DEFINE x == triplet(e.colors[(i - ColorOffset) \div 3 + 1])[((i - ColorOffset) % 3) + 1]
    <3>1. ~(i < ColorOffset) /\ i \in ColorOffset..(ColorOffset + 3 * Len(e.colors) - 1)
          /\ ~(i < 7) /\ ~(i \in 55..59)
      BY <1>3, <2>2, <2>4
    <3>2. x = triplet(e.colors[(i - 7) \div 3 + 1])[((i - 7) % 3) + 1]
      BY <1>3, Zenon
    <3>3. i \notin FooterOffset..(FooterOffset + 4)
      BY <1>3, <3>1
    <3> HIDE DEF x
    <3>4. r[i] = CASE i < ColorOffset -> header[i + 1]
                   [] i \in ColorOffset..(ColorOffset + 3 * Len(e.colors) - 1) -> x
                   [] i \in FooterOffset..(FooterOffset + 4) -> footer[i - FooterOffset + 1]
                   [] OTHER -> 0
      BY <2>1 DEF x
    <3>5. r[i] = x
      BY <3>1, <3>3, <3>4
    <3> QED BY <3>1, <3>2, <3>5
  <2>5. CASE i \in 55..59
    BY <1>3, <2>1, <2>2, <2>5
  <2> QED BY <2>3, <2>4, <2>5
<1>5. r[2] = header[3] /\ r[4] = header[5] /\ r[5] = header[6] /\ r[6] = header[7]
  BY <1>4
<1>6. r[7] = triplet(color)[1] /\ r[8] = triplet(color)[2] /\ r[9] = triplet(color)[3]
  <2>1. (7 - 7) \div 3 + 1 = 1 /\ (8 - 7) \div 3 + 1 = 1 /\ (9 - 7) \div 3 + 1 = 1
        /\ ((7 - 7) % 3) + 1 = 1 /\ ((8 - 7) % 3) + 1 = 2 /\ ((9 - 7) % 3) + 1 = 3
    OBVIOUS
  <2>2. /\ r[7] = triplet(e.colors[(7 - 7) \div 3 + 1])[((7 - 7) % 3) + 1]
        /\ r[8] = triplet(e.colors[(8 - 7) \div 3 + 1])[((8 - 7) % 3) + 1]
        /\ r[9] = triplet(e.colors[(9 - 7) \div 3 + 1])[((9 - 7) % 3) + 1]
    BY <1>4
  <2> QED BY <1>2, <2>1, <2>2
<1>7. r[55] = footer[1] /\ r[56] = footer[2]
  <2>1. r[55] = footer[55 - 55 + 1] /\ r[56] = footer[56 - 55 + 1]
    BY <1>4
  <2> QED BY <2>1
<1>8. header[3] = bit /\ header[5] = e.mode /\ header[6] = e.speed[1] /\ header[7] = e.speed[2]
  BY DEF header
<1>9. triplet(color)[1] = color[2] /\ triplet(color)[2] = color[1] /\ triplet(color)[3] = color[3]
  BY DEF triplet
<1>10. footer[1] = (IF backward THEN 2 ELSE 0) /\ footer[2] = 1
  BY <1>2 DEF footer
<1> QED BY <1>3, <1>5, <1>6, <1>7, <1>8, <1>9, <1>10 DEF r, e, bit, backward

\* The one color of a program, as it goes on the wire.
LEMMA OneColor ==
    ASSUME NEW p, IsRowProgram(p)
    PROVE  \E color : /\ Encoding(p).colors = <<color>> /\ color = [i \in 1..3 |-> color[i]]
                      /\ p.mode # "spectrum_wave" =>
                            \A channel \in 1..MaxChannels : Meant(channel, p).colors = <<color>>
<1>0. Black = [i \in 1..3 |-> Black[i]]
  BY ColorOfBytes DEF Black
<1>1. CASE p = OffProgram
  <2>1. Encoding(p).colors = <<Black>>
    BY <1>1 DEF Encoding, OffProgram
  <2>2. \A channel \in 1..MaxChannels : Meant(channel, p).colors = <<Black>>
    BY <1>1 DEF Meant, OffProgram
  <2> QED BY <1>0, <2>1, <2>2
<1>2. ASSUME NEW c \in Hue, NEW b, p = StillProgram(c, b)
      PROVE  \E color : /\ Encoding(p).colors = <<color>> /\ color = [i \in 1..3 |-> color[i]]
                        /\ p.mode # "spectrum_wave" =>
                              \A channel \in 1..MaxChannels : Meant(channel, p).colors = <<color>>
  <2> DEFINE color == Scaled(ParsedColor(c), b)
  <2>1. Encoding(p).colors = <<color>>
    BY <1>2 DEF Encoding, StillProgram
  <2>2. \A channel \in 1..MaxChannels : Meant(channel, p).colors = <<color>>
    BY <1>2 DEF Meant, StillProgram
  <2>3. color = [i \in 1..3 |-> color[i]]
    BY DEF Scaled
  <2> HIDE DEF color
  <2> QED BY <2>1, <2>2, <2>3
<1>3. ASSUME NEW c \in Hue, NEW s \in Pace, NEW b, p = BreathProgram(c, b, s)
      PROVE  \E color : /\ Encoding(p).colors = <<color>> /\ color = [i \in 1..3 |-> color[i]]
                        /\ p.mode # "spectrum_wave" =>
                              \A channel \in 1..MaxChannels : Meant(channel, p).colors = <<color>>
  <2> DEFINE color == Scaled(ParsedColor(c), b)
             lit == [i \in DOMAIN p.colors |-> Scaled(p.colors[i], p.brightness)]
  <2>0. p.mode = "breathing" /\ p.colors = <<ParsedColor(c)>> /\ p.brightness = b
    BY <1>3 DEF BreathProgram
  <2>1. lit = <<color>>
    <3>1. DOMAIN p.colors = 1..1 /\ p.colors[1] = ParsedColor(c)
      BY <2>0
    <3>2. lit = [i \in 1..1 |-> color]
      <4>1. lit = [i \in 1..1 |-> Scaled(p.colors[i], b)]
        BY <2>0, <3>1
      <4>2. \A i \in 1..1 : Scaled(p.colors[i], b) = color
        <5>1. \A i \in 1..1 : i = 1
          OBVIOUS
        <5> QED BY <3>1, <5>1
      <4> HIDE DEF lit, color
      <4> QED BY <4>1, <4>2, Zenon
    <3>3. <<color>> = [i \in 1..1 |-> color]
      <4> HIDE DEF color
      <4> QED OBVIOUS
    <3> QED BY <3>2, <3>3
  <2>2. Encoding(p).colors = lit
    BY <2>0 DEF Encoding
  <2>3. \A channel \in 1..MaxChannels : Meant(channel, p).colors = lit
    BY <2>0 DEF Meant
  <2>4. color = [i \in 1..3 |-> color[i]]
    BY DEF Scaled
  <2> HIDE DEF color, lit
  <2> QED BY <2>1, <2>2, <2>3, <2>4
<1>4. ASSUME NEW s \in Pace, NEW x \in Directions, NEW b, p = WaveProgram(b, s, x)
      PROVE  \E color : /\ Encoding(p).colors = <<color>> /\ color = [i \in 1..3 |-> color[i]]
                        /\ p.mode # "spectrum_wave" =>
                              \A channel \in 1..MaxChannels : Meant(channel, p).colors = <<color>>
  <2>1. Encoding(p).colors = <<Black>> /\ p.mode = "spectrum_wave"
    BY <1>4 DEF Encoding, WaveProgram
  <2> QED BY <1>0, <2>1
<1> QED BY <1>1, <1>2, <1>3, <1>4 DEF IsRowProgram

\* What is left of a program besides its colors.
LEMMA KindOfProgram ==
    ASSUME NEW p, IsRowProgram(p)
    PROVE  \/ /\ p.mode \in {"off", "fixed"} /\ Encoding(p).mode = 0
           \/ /\ p.mode = "breathing" /\ p.direction = "forward" /\ p.speed \in Pace
              /\ Encoding(p).mode = 7 /\ Encoding(p).speed = SpeedValues("breathing")[SpeedIndex(p.speed)]
              /\ Len(p.colors) = 1
           \/ /\ p.mode = "spectrum_wave" /\ p.direction \in Directions /\ p.speed \in Pace
              /\ Encoding(p).mode = 2 /\ Encoding(p).speed = SpeedValues("spectrum_wave")[SpeedIndex(p.speed)]
              /\ Len(p.colors) = 0
<1>1. CASE p = OffProgram
  BY <1>1 DEF OffProgram, Encoding
<1>2. ASSUME NEW c \in Hue, NEW b, p = StillProgram(c, b) PROVE p.mode = "fixed" /\ Encoding(p).mode = 0
  BY <1>2 DEF StillProgram, Encoding
<1>3. ASSUME NEW c \in Hue, NEW s \in Pace, NEW b, p = BreathProgram(c, b, s)
      PROVE  /\ p.mode = "breathing" /\ p.direction = "forward" /\ p.speed \in Pace
             /\ Encoding(p).mode = 7 /\ Encoding(p).speed = SpeedValues("breathing")[SpeedIndex(p.speed)]
             /\ Len(p.colors) = 1
  <2>1. p.mode = "breathing" /\ p.direction = "forward" /\ p.speed \in Pace /\ p.colors = <<ParsedColor(c)>>
    BY <1>3 DEF BreathProgram
  <2> QED BY <2>1 DEF Encoding
<1>4. ASSUME NEW s \in Pace, NEW x \in Directions, NEW b, p = WaveProgram(b, s, x)
      PROVE  /\ p.mode = "spectrum_wave" /\ p.direction \in Directions /\ p.speed \in Pace
             /\ Encoding(p).mode = 2 /\ Encoding(p).speed = SpeedValues("spectrum_wave")[SpeedIndex(p.speed)]
             /\ Len(p.colors) = 0
  <2>1. p.mode = "spectrum_wave" /\ p.direction = x /\ p.speed \in Pace /\ p.colors = <<>>
    BY <1>4 DEF WaveProgram
  <2> QED BY <2>1 DEF Encoding
<1> QED BY <1>1, <1>2, <1>3, <1>4 DEF IsRowProgram

\* What a row asks for is valid and fits in a report.
LEMMA RowsFit ==
    ASSUME NEW channel \in 1..MaxChannels, NEW p, IsRowProgram(p)
    PROVE  ValidLight(p) /\ Encodable(channel, p)
<1>1. ValidLight(p)
  <2>1. /\ 1 \in ColorRange("breathing") /\ 0 \in ColorRange("spectrum_wave")
        /\ AcceptsDirection("spectrum_wave")
    <3>1. 1 \in 1..8 /\ 0 \in 0..0
      OBVIOUS
    <3> QED BY <3>1 DEF ColorRange, AcceptsDirection
  <2>2. "off" \notin Effects /\ "fixed" \notin Effects
    BY DEF Effects
  <2> QED BY <2>1, <2>2, KindOfProgram DEF ValidLight
<1>2. PICK color : Encoding(p).colors = <<color>>
  BY OneColor
<1>3. Len(Encoding(p).colors) = 1
  BY <1>2
<1>4. MaxColors >= 1
  BY DEF MaxColors, FooterOffset, ReportBytes, ColorOffset
<1> QED BY <1>1, <1>3, <1>4 DEF Encodable

\* The firmware makes of a row's report what the row means.
LEMMA RowsAreUnderstood ==
    ASSUME NEW channel \in 1..MaxChannels, NEW p, IsRowProgram(p)
    PROVE  Understood(Report(channel, p)) = Meant(channel, p)
<1> DEFINE r == Report(channel, p)
           e == Encoding(p)
           u == Understood(r)
           w == Meant(channel, p)
           lit(i) == <<r[8 + 3 * i], r[7 + 3 * i], r[9 + 3 * i]>>
           effect == CASE r[4] = 0 -> "still" [] r[4] = 7 -> "breathing" [] r[4] = 2 -> "spectrum_wave"
           pace == <<r[5], r[6]>>
           colors == IF effect = "spectrum_wave" THEN <<>> ELSE [i \in 1..r[FooterOffset + 1] |-> lit(i - 1)]
           speed == IF effect = "still" THEN "none"
                    ELSE Speeds[CHOOSE i \in 1..5 : SpeedValues(effect)[i] = pace]
<1>1. PICK color : /\ Encoding(p).colors = <<color>> /\ color = [i \in 1..3 |-> color[i]]
                   /\ p.mode # "spectrum_wave" => w.colors = <<color>>
  BY OneColor
<1>2. /\ r[2] = ChannelBit(channel) /\ r[4] = e.mode /\ r[5] = e.speed[1] /\ r[6] = e.speed[2]
      /\ r[7] = color[2] /\ r[8] = color[1] /\ r[9] = color[3]
      /\ r[FooterOffset] = IF p.mode \in Effects /\ p.direction = "backward" THEN 2 ELSE 0
      /\ r[FooterOffset + 1] = 1
  BY <1>1, ReportReads
<1>3. u = [channels |-> {c \in 1..MaxChannels : (r[2] \div ChannelBit(c)) % 2 = 1},
           effect |-> effect, colors |-> colors, speed |-> speed, backward |-> r[FooterOffset] = 2]
  BY DEF Understood
<1>4. w = [channels |-> {channel}, effect |-> IF p.mode \in Effects THEN p.mode ELSE "still",
           colors |-> w.colors,
           speed |-> IF p.mode \in Effects THEN p.speed ELSE "none",
           backward |-> p.mode \in Effects /\ p.direction = "backward"]
  <2> DEFINE X == CASE p.mode = "off" -> <<Black>>
                    [] p.mode = "fixed" -> <<Scaled(p.color, p.brightness)>>
                    [] p.mode = "breathing" -> [i \in DOMAIN p.colors |-> Scaled(p.colors[i], p.brightness)]
                    [] p.mode = "spectrum_wave" -> <<>>
             k == IF p.mode \in Effects THEN p.mode ELSE "still"
             v == IF p.mode \in Effects THEN p.speed ELSE "none"
             y == p.mode \in Effects /\ p.direction = "backward"
  <2>1. w = [channels |-> {channel}, effect |-> k, colors |-> X, speed |-> v, backward |-> y]
    BY DEF Meant
  <2> HIDE DEF X, k, v, y, w
  <2>2. w.colors = X
    BY <2>1
  <2>3. w = [channels |-> {channel}, effect |-> k, colors |-> w.colors, speed |-> v, backward |-> y]
    BY <2>1, <2>2, Zenon
  <2> QED BY <2>3 DEF k, v, y
<1> HIDE DEF r, e, u, w
<1>5. {c \in 1..MaxChannels : (r[2] \div ChannelBit(c)) % 2 = 1} = {channel}
  BY <1>2, BitsTell
<1>6. effect = IF p.mode \in Effects THEN p.mode ELSE "still"
  <2>1. \/ r[4] = 0 /\ p.mode \in {"off", "fixed"}
        \/ r[4] = 7 /\ p.mode = "breathing"
        \/ r[4] = 2 /\ p.mode = "spectrum_wave"
    <3>1. \/ p.mode \in {"off", "fixed"} /\ Encoding(p).mode = 0
          \/ p.mode = "breathing" /\ Encoding(p).mode = 7
          \/ p.mode = "spectrum_wave" /\ Encoding(p).mode = 2
      BY KindOfProgram, Zenon
    <3>2. r[4] = Encoding(p).mode
      BY <1>2 DEF e
    <3> QED BY <3>1, <3>2
  <2> QED BY <2>1 DEF Effects
<1> HIDE DEF effect
<1>7. colors = w.colors
  <2>1. CASE p.mode = "spectrum_wave"
    <3>1. w.colors = <<>>
      BY <2>1 DEF w, Meant
    <3> QED BY <1>6, <2>1, <3>1 DEF Effects
  <2>2. CASE p.mode # "spectrum_wave"
    <3>1. lit(1 - 1) = color
      <4>1. lit(0) = <<r[8], r[7], r[9]>>
        OBVIOUS
      <4>2. lit(0) = <<color[1], color[2], color[3]>>
        BY <1>2, <4>1
      <4> QED BY <1>1, <4>2, ColorOfBytes
    <3>2. [i \in 1..1 |-> lit(i - 1)] = <<color>>
      <4> HIDE DEF lit
      <4>1. \A i \in 1..1 : lit(i - 1) = color
        <5>1. \A i \in 1..1 : i = 1
          OBVIOUS
        <5> QED BY <3>1, <5>1
      <4>2. <<color>> = [i \in 1..1 |-> color]
        OBVIOUS
      <4> QED BY <4>1, <4>2
    <3>3. effect # "spectrum_wave"
      BY <1>6, <2>2
    <3> HIDE DEF lit
    <3> QED BY <1>1, <1>2, <2>2, <3>2, <3>3
  <2> QED BY <2>1, <2>2
<1>8. speed = IF p.mode \in Effects THEN p.speed ELSE "none"
  <2>1. CASE p.mode \in Effects
    <3>1. effect = p.mode /\ effect \in Effects /\ effect # "still"
      BY <1>6, <2>1 DEF Effects
    <3>2. p.speed \in Pace /\ e.speed = SpeedValues(effect)[SpeedIndex(p.speed)]
      BY <2>1, <3>1, KindOfProgram DEF Effects, e
    <3>3. pace = SpeedValues(effect)[SpeedIndex(p.speed)]
      BY <1>2, <3>1, <3>2, SpeedsTell
    <3>4. Speeds[CHOOSE i \in 1..5 : SpeedValues(effect)[i] = pace] = p.speed
      BY <3>1, <3>2, <3>3, SpeedsTell
    <3> QED BY <2>1, <3>1, <3>4
  <2>2. CASE p.mode \notin Effects
    BY <1>6, <2>2
  <2> QED BY <2>1, <2>2
<1>9. (r[FooterOffset] = 2) = (p.mode \in Effects /\ p.direction = "backward")
  BY <1>2
<1> HIDE DEF colors, speed
<1>10. u = w
  BY <1>3, <1>4, <1>5, <1>6, <1>7, <1>8, <1>9
<1> QED BY <1>10 DEF u, w, r

\* The rows are of channels that are there and hold what a row may; no row was refused,
\* and a strip shows what was committed for it.
RowsWithin ==
    /\ answer \in Nat
    /\ listed \subseteq Channels(answer) /\ DOMAIN rows = listed
    /\ \A c \in listed : IsRow(rows[c])

StripsShow ==
    /\ ~refused
    /\ DOMAIN committed = Channels(answer) /\ DOMAIN strip = Channels(answer)
    /\ \A c \in Channels(answer) : committed[c].mode # "none" => strip[c] = Meant(c, committed[c])

\* The inductive invariant of Lights.
LightsIInv == RowsWithin /\ StripsShow

\* The channels of a controller can all be addressed.
LEMMA ChannelsFit == \A count \in Nat : Channels(count) \subseteq 1..MaxChannels
BY DEF Channels, MaxChannels

\* A row whose one field is chosen anew is a row.
LEMMA EditedRow ==
    ASSUME NEW row, IsRow(row), NEW kind \in RowMode, NEW color \in Hue, NEW speed \in Pace,
           NEW direction \in Directions, NEW level
    PROVE  /\ IsRow([row EXCEPT !.mode = kind]) /\ IsRow([row EXCEPT !.color = color])
           /\ IsRow([row EXCEPT !.brightness = level]) /\ IsRow([row EXCEPT !.speed = speed])
           /\ IsRow([row EXCEPT !.direction = direction])
<1>0. PICK m \in RowMode, c \in Hue, s \in Pace, d \in Directions : \E b : row = AsRow(m, c, b, s, d)
  BY DEF IsRow
<1>1. PICK b : row = AsRow(m, c, b, s, d)
  BY <1>0
<1>2. /\ [row EXCEPT !.mode = kind] = AsRow(kind, c, b, s, d)
      /\ [row EXCEPT !.color = color] = AsRow(m, color, b, s, d)
      /\ [row EXCEPT !.brightness = level] = AsRow(m, c, level, s, d)
      /\ [row EXCEPT !.speed = speed] = AsRow(m, c, b, speed, d)
      /\ [row EXCEPT !.direction = direction] = AsRow(m, c, b, s, direction)
  BY <1>1 DEF AsRow
<1>3. IsRow([row EXCEPT !.mode = kind])
  BY <1>2 DEF IsRow
<1>4. IsRow([row EXCEPT !.color = color])
  BY <1>2 DEF IsRow
<1>5. IsRow([row EXCEPT !.brightness = level])
  BY <1>2 DEF IsRow
<1>6. IsRow([row EXCEPT !.speed = speed])
  BY <1>2 DEF IsRow
<1>7. IsRow([row EXCEPT !.direction = direction])
  BY <1>2 DEF IsRow
<1> QED BY <1>3, <1>4, <1>5, <1>6, <1>7

\* An edit of a row to another row keeps the invariant.
LEMMA EditHolds ==
    ASSUME LightsIInv, NEW channel \in DOMAIN rows, NEW row, IsRow(row), Edit(channel, row)
    PROVE  LightsIInv'
<1> USE DEF LightsIInv
<1>1. UNCHANGED <<answer, listed, committed, strip, refused>>
  BY DEF Edit
<1>2. rows' = [rows EXCEPT ![channel] = row]
  BY DEF Edit
<1>3. DOMAIN rows' = listed /\ \A c \in listed : IsRow(rows'[c])
  BY <1>2 DEF RowsWithin
<1> QED BY <1>1, <1>3 DEF RowsWithin, StripsShow

\* There are no rows before the first answer.
LEMMA LightsInitHolds == LightsInit => LightsIInv
<1> SUFFICES ASSUME LightsInit PROVE LightsIInv
  OBVIOUS
<1>1. answer \in Nat /\ listed = {} /\ rows = <<>> /\ ~refused /\ strip = committed
      /\ committed = [c \in Channels(answer) |-> [mode |-> "none"]]
  BY LightsAssumption DEF LightsInit
<1>2. DOMAIN rows = {}
  BY <1>1
<1>3. \A c \in Channels(answer) : committed[c].mode = "none"
  BY <1>1
<1> QED BY <1>1, <1>2, <1>3 DEF LightsIInv, RowsWithin, StripsShow

\* So does what the daemon answers.
LEMMA SyncHolds == ASSUME LightsIInv, Sync PROVE LightsIInv'
<1> USE DEF LightsIInv
<1>1. UNCHANGED <<answer, committed, strip, refused>> /\ listed' \subseteq Channels(answer)
  BY DEF Sync
<1>2. IsRow(FreshRow)
  <2>1. FreshRow = AsRow("fixed", Digits(Accent), 100, "normal", "forward")
    BY DEF FreshRow, AsRow
  <2>2. "fixed" \in RowMode /\ Digits(Accent) \in Hue /\ "normal" \in Pace /\ "forward" \in Directions
    BY DEF RowMode, Hue, Pace, Directions
  <2> QED BY <2>1, <2>2 DEF IsRow
<1>3. rows' = [c \in listed' |-> IF c \in DOMAIN rows THEN rows[c] ELSE FreshRow]
  BY DEF Sync
<1>4. DOMAIN rows' = listed' /\ \A c \in listed' : IsRow(rows'[c])
  BY <1>2, <1>3 DEF RowsWithin
<1> QED BY <1>1, <1>4 DEF RowsWithin, StripsShow

\* So does a choice of a mode, a brightness, a speed or a direction.
LEMMA ChoicesHold ==
    ASSUME LightsIInv, NEW channel \in DOMAIN rows,
           \/ ChooseMode(channel) \/ SetBrightness(channel)
           \/ ChooseSpeed(channel) \/ ChooseDirection(channel)
    PROVE  LightsIInv'
<1>0. IsRow(rows[channel]) /\ Paces \subseteq Pace
  <2>1. \A i \in 1..5 : Speeds[i] \in Pace
    <3>1. 1..5 = {1, 2, 3, 4, 5}
      OBVIOUS
    <3> QED BY <3>1 DEF Speeds, Pace
  <2> QED BY <2>1, LightsAssumption DEF LightsIInv, RowsWithin
<1>a. "fixed" \in RowMode /\ Digits(Accent) \in Hue /\ "normal" \in Pace /\ "forward" \in Directions
  BY DEF RowMode, Hue, Pace, Directions
<1>1. ASSUME ChooseMode(channel) PROVE LightsIInv'
  <2>1. PICK kind \in Modes : Edit(channel, [rows[channel] EXCEPT !.mode = kind])
    BY <1>1 DEF ChooseMode
  <2>2. kind \in RowMode
    BY LightsAssumption DEF Modes, Effects, RowMode
  <2>3. IsRow([rows[channel] EXCEPT !.mode = kind])
    BY <1>0, <1>a, <2>2, EditedRow
  <2> QED BY <2>1, <2>3, EditHolds
<1>2. ASSUME SetBrightness(channel) PROVE LightsIInv'
  <2>1. PICK level \in Level : Edit(channel, [rows[channel] EXCEPT !.brightness = WithinRange(level)])
    BY <1>2 DEF SetBrightness
  <2>3. IsRow([rows[channel] EXCEPT !.brightness = WithinRange(level)])
    BY <1>0, <1>a, EditedRow
  <2> QED BY <2>1, <2>3, EditHolds
<1>3. ASSUME ChooseSpeed(channel) PROVE LightsIInv'
  <2>1. PICK speed \in Paces : Edit(channel, [rows[channel] EXCEPT !.speed = speed])
    BY <1>3 DEF ChooseSpeed
  <2>3. IsRow([rows[channel] EXCEPT !.speed = speed])
    BY <1>0, <1>a, <2>1, EditedRow
  <2> QED BY <2>1, <2>3, EditHolds
<1>4. ASSUME ChooseDirection(channel) PROVE LightsIInv'
  <2>1. PICK direction \in Directions : Edit(channel, [rows[channel] EXCEPT !.direction = direction])
    BY <1>4 DEF ChooseDirection
  <2>3. IsRow([rows[channel] EXCEPT !.direction = direction])
    BY <1>0, <1>a, <2>1, EditedRow
  <2> QED BY <2>1, <2>3, EditHolds
<1> QED BY <1>1, <1>2, <1>3, <1>4

\* So does a color picked for the channel whose swatches are showing.
LEMMA ColorHolds == ASSUME LightsIInv, ChooseColor PROVE LightsIInv'
<1>1. PICK color \in Swatch : Edit(picker, [rows[picker] EXCEPT !.color = Digits(color)])
  BY DEF ChooseColor
<1>2. picker \in DOMAIN rows /\ IsRow(rows[picker]) /\ Digits(color) \in Hue
  BY DEF ChooseColor, LightsIInv, RowsWithin, Hue
<1>3. "fixed" \in RowMode /\ "normal" \in Pace /\ "forward" \in Directions
  BY DEF RowMode, Pace, Directions
<1>4. IsRow([rows[picker] EXCEPT !.color = Digits(color)])
  BY <1>2, <1>3, EditedRow
<1> QED BY <1>1, <1>2, <1>4, EditHolds

\* So does a row that is sent: it is taken, and the strip shows it.
LEMMA SendHolds == ASSUME LightsIInv, NEW channel \in DOMAIN rows, SendLighting(channel) PROVE LightsIInv'
<1> USE DEF LightsIInv
<1> DEFINE program == RowProgram(rows[channel])
           told == Understood(Report(channel, program))
<1>1. channel \in Channels(answer) /\ channel \in 1..MaxChannels /\ IsRow(rows[channel])
  BY ChannelsFit DEF RowsWithin
<1>2. IsRowProgram(program)
  BY <1>1, RowPrograms
<1>3. ValidCommand(channel, program, Channels(answer)) /\ Encodable(channel, program)
  <2> HIDE DEF program
  <2> QED BY <1>1, <1>2, RowsFit DEF ValidCommand
<1>4. told = Meant(channel, program)
  <2> HIDE DEF program
  <2> QED BY <1>1, <1>2, RowsAreUnderstood
<1>5. told.channels = {channel}
  BY <1>4 DEF Meant
<1>6. /\ committed' = [committed EXCEPT ![channel] = program]
      /\ strip' = [c \in DOMAIN strip |-> IF c \in told.channels THEN told ELSE strip[c]]
      /\ UNCHANGED <<answer, listed, rows, refused>>
  BY <1>3 DEF SendLighting
<1> HIDE DEF program, told
<1>7. ASSUME NEW c \in Channels(answer), committed'[c].mode # "none"
      PROVE  strip'[c] = Meant(c, committed'[c])
  <2>1. CASE c = channel
    BY <1>4, <1>5, <1>6, <2>1 DEF StripsShow
  <2>2. CASE c # channel
    BY <1>5, <1>6, <1>7, <2>2 DEF StripsShow
  <2> QED BY <2>1, <2>2
<1>8. DOMAIN committed' = Channels(answer) /\ DOMAIN strip' = Channels(answer)
  BY <1>6 DEF StripsShow
<1>9. StripsShow'
  BY <1>6, <1>7, <1>8 DEF StripsShow
<1> QED BY <1>6, <1>9 DEF RowsWithin

\* Every step keeps it.
LEMMA LightsStepHolds == LightsIInv /\ [LightsNext]_lightsVars => LightsIInv'
<1> SUFFICES ASSUME LightsIInv, [LightsNext]_lightsVars PROVE LightsIInv'
  OBVIOUS
<1>1. CASE UNCHANGED lightsVars
  BY <1>1 DEF lightsVars, LightsIInv, RowsWithin, StripsShow
<1>2. ASSUME NEW channel \in DOMAIN rows, OpenPicker(channel) PROVE LightsIInv'
  BY <1>2 DEF OpenPicker, LightsIInv, RowsWithin, StripsShow
<1> QED BY <1>1, <1>2, SyncHolds, ChoicesHold, ColorHolds, SendHolds DEF LightsNext

\* What the rows rely on holds of every behaviour of them.
THEOREM LightsInductive == LightsSpec => []LightsIInv
<1>1. LightsInit => LightsIInv
  BY LightsInitHolds
<1>2. LightsIInv /\ [LightsNext]_lightsVars => LightsIInv'
  BY LightsStepHolds
<1> QED BY <1>1, <1>2, PTL DEF LightsSpec

\* (RowsAreTold) No row asks for what is refused, and each strip shows what was committed for it.
THEOREM RowsStayTold == LightsSpec => []RowsAreTold
<1>1. LightsIInv => RowsAreTold
  BY DEF LightsIInv, StripsShow, RowsAreTold
<1> QED BY <1>1, LightsInductive, PTL

-----------------------------------------------------------------------------
(* The grid and the curve, for any percentage and any nodes, in order or   *)
(* not.                                                                    *)

\* A percentage is read back, and no two share a duty (duty_from_percent, duty_to_percent).
THEOREM SettingsSurvive == \A percent \in Percent : SettingSurvives(percent)
<1> SUFFICES ASSUME NEW percent \in Percent PROVE SettingSurvives(percent)
  OBVIOUS
<1>1. DutyToPercent(DutyFromPercent(percent)) = percent
  BY PercentSurvives
<1>2. ASSUME percent > 0 PROVE DutyFromPercent(percent) > DutyFromPercent(percent - 1)
  <2>1. percent - 1 \in Percent /\ percent - 1 <= percent /\ percent - 1 # percent
    BY <1>2, CurvesAssumption DEF Percent
  <2>2. /\ DutyFromPercent(percent) \in Duty /\ DutyFromPercent(percent - 1) \in Duty
        /\ DutyFromPercent(percent - 1) <= DutyFromPercent(percent)
    BY <2>1, DutyOfPercent
  <2>3. DutyFromPercent(percent - 1) # DutyFromPercent(percent)
    BY <1>1, <2>1, PercentSurvives
  <2> QED BY <2>2, <2>3, CurvesAssumption DEF Duty
<1> QED BY <1>1, <1>2 DEF SettingSurvives

\* A point is the nearest byte to its place on the segment, between the two nodes.
LEMMA PointIsNearest ==
    ASSUME NEW curve \in [Node -> Duty], NEW p \in Point
    PROVE  LET w == Width(p)
               a == curve[Lower(p)]
               b == curve[Lower(p) + 1]
               k == p - From(p)
               y == Interpolate(curve)[p]
           IN  /\ y \in Duty
               /\ k = 0 => y = a
               /\ k = w => y = b
               /\ 2 * ((y - a) * w - (b - a) * k) \in -w..w
<1> DEFINE w == Width(p)
           a == curve[Lower(p)]
           b == curve[Lower(p) + 1]
           k == p - From(p)
           x == Line(curve, p)
           low == IF a <= b THEN a ELSE b
           high == IF a <= b THEN b ELSE a
           r == Rounded(x, w)
           y == Interpolate(curve)[p]
           t == (b - a) * k
<1>1. w \in Nat \ {0} /\ k \in 0..w /\ Lower(p) \in Node /\ Lower(p) + 1 \in Node
  BY SegmentOf
<1>2. a \in 0..MaxDuty /\ b \in 0..MaxDuty /\ MaxDuty \in Nat
  BY <1>1, CurvesAssumption DEF Duty
<1>3. x = a * w + t
  BY DEF Line
<1>4. y = Clamped(r, 0, MaxDuty)
  BY DEF Interpolate, Line, Width, From, Lower
<1>5. low \in 0..MaxDuty /\ high \in 0..MaxDuty /\ low <= high
  BY <1>2
<1>6. t \in Int /\ w * low <= a * w + t /\ a * w + t <= w * high /\ a * w \in Int
      /\ (k = 0 => t = 0) /\ (k = w => t = w * b - w * a) /\ a * w = w * a /\ w * a \in Int /\ w * b \in Int
  <2>1. a * w = w * a /\ w * a \in Int /\ w * b \in Int /\ k \in Int /\ b - a \in Int /\ a - b \in Int
    <3> HIDE DEF a, b, w, k
    <3> QED BY <1>1, <1>2
  <2>2. t \in Int /\ (k = 0 => t = 0) /\ (k = w => t = w * b - w * a)
    <3> HIDE DEF a, b, w, k
    <3> QED BY <1>1, <1>2, <2>1
  <2>3. CASE a <= b
    <3>1. (b - a) * 0 <= (b - a) * k /\ (b - a) * k <= (b - a) * w
      <4> HIDE DEF a, b, w, k
      <4> QED BY <1>1, <1>2, <2>1, <2>3, ProductGrows
    <3>2. (b - a) * w = w * b - w * a /\ (b - a) * 0 = 0
      <4> HIDE DEF a, b, w, k
      <4> QED BY <1>1, <1>2
    <3>3. low = a /\ high = b
      BY <2>3
    <3> HIDE DEF a, b, w, k, low, high
    <3> QED BY <2>1, <2>2, <3>1, <3>2, <3>3
  <2>4. CASE ~(a <= b)
    <3>1. (a - b) * 0 <= (a - b) * k /\ (a - b) * k <= (a - b) * w
      <4> HIDE DEF a, b, w, k
      <4> QED BY <1>1, <1>2, <2>1, <2>4, ProductGrows
    <3>2. (a - b) * w = w * a - w * b /\ (a - b) * 0 = 0 /\ (a - b) * k = -t
      <4> HIDE DEF a, b, w, k
      <4> QED BY <1>1, <1>2, <2>1
    <3>3. low = b /\ high = a
      BY <2>4
    <3> HIDE DEF a, b, w, k, low, high, t
    <3> QED BY <2>1, <2>2, <3>1, <3>2, <3>3
  <2> QED BY <2>1, <2>2, <2>3, <2>4
<1> HIDE DEF w, a, b, k, x, low, high, r, y, t
<1>7. x \in Int /\ w * low <= x /\ x <= w * high
  BY <1>3, <1>6
<1>8. r \in Int /\ low <= r /\ r <= high
  BY <1>1, <1>5, <1>7, RoundedLies DEF r
<1>9. r \in 0..MaxDuty /\ y = r
  <2>1. r \in 0..MaxDuty /\ 0 <= MaxDuty /\ MaxDuty \in Int
    BY <1>2, <1>5, <1>8
  <2> QED BY <1>4, <2>1, <1>8, Clamps
<1>10. ASSUME k = 0 PROVE y = a
  <2>1. w * a <= x /\ x <= w * a
    BY <1>3, <1>6, <1>10
  <2>2. a <= r /\ r <= a
    BY <1>1, <1>2, <1>7, <2>1, RoundedLies DEF r
  <2> QED BY <1>2, <1>8, <1>9, <2>2
<1>11. ASSUME k = w PROVE y = b
  <2>1. w * b <= x /\ x <= w * b
    BY <1>3, <1>6, <1>11
  <2>2. b <= r /\ r <= b
    BY <1>1, <1>2, <1>7, <2>1, RoundedLies DEF r
  <2> QED BY <1>2, <1>8, <1>9, <2>2
<1>12. 2 * ((y - a) * w - t) \in -w..w
  <2> DEFINE d == 2 * w
             z == 2 * x + w
  <2>1. d \in Nat \ {0} /\ z \in Int /\ r = z \div d
    BY <1>1, <1>7 DEF Rounded, r
  <2>2. d * r <= z /\ z < d * r + d
    <3> HIDE DEF d, z
    <3> QED BY <2>1, Quotient
  <2>3. w * r \in Int /\ d * r = 2 * (w * r) /\ (r - a) * w = w * r - w * a
    BY <1>1, <1>2, <1>8
  <2>4. 2 * ((r - a) * w - t) = 2 * (w * r) - 2 * x
    BY <1>3, <1>6, <2>3
  <2>5. 2 * (w * r) - 2 * x <= w /\ 2 * (w * r) - 2 * x >= -w
    BY <1>1, <1>7, <2>2, <2>3
  <2> QED BY <1>1, <1>7, <1>9, <2>3, <2>4, <2>5
<1> QED BY <1>9, <1>10, <1>11, <1>12 DEF w, a, b, k, y, t, Duty

\* Where the points of the nodes are, and the segments between them.
LEMMA NodesAreIndexed ==
    ASSUME NEW n \in Node
    PROVE  /\ PointIndex(n) \in Point
           /\ n < NodeCount - 1 => /\ Lower(PointIndex(n)) = n /\ From(PointIndex(n)) = PointIndex(n)
                                   /\ PointIndex(n) < PointIndex(n + 1)
           /\ n = NodeCount - 1 => /\ Lower(PointIndex(n)) = n - 1
                                   /\ PointIndex(n) - From(PointIndex(n)) = Width(PointIndex(n))
           /\ n < NodeCount - 1 => \A p \in Point :
                p \in PointIndex(n)..PointIndex(n + 1) => Lower(p) = n \/ p = PointIndex(n + 1)
<1> DEFINE S == StepC
           N == NodeCount
           L == PointCount - 1
           m == N - 2
<1>1. /\ S \in Nat \ {0} /\ N \in Nat /\ N >= 2 /\ L \in Nat /\ m \in Nat
      /\ m * S \in Nat /\ (N - 1) * S \in Nat /\ (N - 1) * S = m * S + S
      /\ m * S + 1 <= L /\ L <= (N - 1) * S /\ n \in 0..(N - 1) /\ Point = 0..L
  BY CurvesAssumption DEF Point, Node
<1>2. /\ \A i \in Int : PointIndex(i) = IF i * S < L THEN i * S ELSE L
      /\ \A p \in Int : Lower(p) = IF p \div S < m THEN p \div S ELSE m
      /\ \A p : From(p) = PointIndex(Lower(p)) /\ Width(p) = PointIndex(Lower(p) + 1) - From(p)
  BY DEF PointIndex, Lesser, Lower, From, Width
<1>3. m = N - 2
  OBVIOUS
<1> HIDE DEF S, L, m
<1>4. ASSUME n < N - 1
      PROVE  /\ PointIndex(n) = S * n /\ S * n \in Nat /\ S * n < L
             /\ PointIndex(n + 1) = IF n + 1 < N - 1 THEN S * n + S ELSE L
             /\ n + 1 < N - 1 => S * n + S < L
             /\ L <= S * n + S \/ n < m
  <2>1. n \in Nat /\ n <= m /\ m \in Int
    BY <1>1, <1>3, <1>4
  <2>2. S * n \in Nat /\ S * n <= S * m /\ n * S = S * n /\ (n + 1) * S = S * n + S /\ S * m = m * S
        /\ S * (n + 1) = S * n + S
    BY <1>1, <2>1, ProductGrows
  <2>3. PointIndex(n) = S * n /\ S * n < L
    <3>1. PointIndex(n) = IF n * S < L THEN n * S ELSE L
      BY <1>2, <2>1
    <3>2. S * n < L
      BY <1>1, <2>2
    <3> QED BY <2>2, <3>1, <3>2
  <2>4. CASE n < m
    <3>1. S * (n + 1) <= S * m
      BY <1>1, <2>1, <2>4, ProductGrows
    <3>2. S * n + S < L
      BY <1>1, <2>2, <3>1
    <3>3. PointIndex(n + 1) = IF (n + 1) * S < L THEN (n + 1) * S ELSE L
      BY <1>2, <2>1
    <3> QED BY <1>1, <1>3, <2>1, <2>2, <2>3, <2>4, <3>2, <3>3
  <2>5. CASE n = m
    <3>1. L <= S * n + S
      BY <1>1, <2>2, <2>5
    <3>2. PointIndex(n + 1) = IF (n + 1) * S < L THEN (n + 1) * S ELSE L
      BY <1>2, <2>1
    <3>3. PointIndex(n + 1) = L
      BY <1>1, <2>2, <3>1, <3>2
    <3>4. ~(n + 1 < N - 1)
      BY <1>1, <1>3, <2>5
    <3> QED BY <2>2, <2>3, <3>1, <3>3, <3>4
  <2> QED BY <2>1, <2>4, <2>5
<1>5. ASSUME n < N - 1, NEW p \in Int, S * n <= p, p < S * n + S
      PROVE  Lower(p) = n
  <2>1. p \div S = n
    BY <1>1, <1>5, QuotientIs
  <2>2. Lower(p) = IF p \div S < m THEN p \div S ELSE m
    BY <1>2
  <2>3. n <= m /\ n \in Int /\ m \in Int
    BY <1>1, <1>3, <1>5
  <2> QED BY <2>1, <2>2, <2>3
<1>6. CASE n < N - 1
  <2>1. PointIndex(n) \in Point
    BY <1>1, <1>4, <1>6
  <2>2. Lower(PointIndex(n)) = n
    <3>1. S * n <= S * n /\ S * n < S * n + S /\ S * n \in Int
      BY <1>1, <1>4, <1>6
    <3> QED BY <1>4, <1>5, <1>6, <3>1
  <2>3. From(PointIndex(n)) = PointIndex(n) /\ PointIndex(n) < PointIndex(n + 1)
    <3>1. From(PointIndex(n)) = PointIndex(n)
      BY <1>2, <2>2
    <3>2. S * n < S * n + S
      BY <1>1, <1>4, <1>6
    <3>3. PointIndex(n) < PointIndex(n + 1)
      BY <1>4, <1>6, <3>2
    <3> QED BY <3>1, <3>3
  <2>4. ASSUME NEW p \in Point, p \in PointIndex(n)..PointIndex(n + 1), p # PointIndex(n + 1)
        PROVE  Lower(p) = n
    <3>1. S * n <= p /\ p \in Int /\ p < PointIndex(n + 1) /\ p <= L
      BY <1>1, <1>4, <1>6, <2>1, <2>4
    <3>2. p < S * n + S
      <4>1. PointIndex(n + 1) <= S * n + S
        BY <1>1, <1>3, <1>4, <1>6
      <4>2. PointIndex(n + 1) \in Int
        BY <1>1, <1>4, <1>6
      <4> QED BY <1>1, <1>4, <1>6, <3>1, <4>1, <4>2
    <3> QED BY <1>5, <1>6, <3>1, <3>2
  <2> QED BY <1>1, <1>6, <2>1, <2>2, <2>3, <2>4 DEF N
<1>7. CASE n = N - 1
  <2>1. PointIndex(n) = L
    BY <1>1, <1>2, <1>7
  <2>2. L \in Point
    BY <1>1
  <2>3. Lower(L) = m
    <3> DEFINE q == L \div S
    <3>1. q \in Int /\ S * q \in Int /\ L < S * q + S
      BY <1>1, Quotient
    <3>2. S * (q + 1) = S * q + S /\ S * m = m * S
      BY <1>1, <3>1
    <3>3. Lower(L) = IF q < m THEN q ELSE m
      BY <1>1, <1>2
    <3> HIDE DEF q
    <3>4. ~(q + 1 <= m)
      BY <1>1, <3>1, <3>2, ProductGrows
    <3> QED BY <1>1, <3>1, <3>3, <3>4
  <2>4. m = n - 1 /\ m + 1 = n
    BY <1>1, <1>3, <1>7
  <2>5. L - From(L) = Width(L)
    BY <1>2, <2>1, <2>3, <2>4
  <2> QED BY <1>1, <1>7, <2>1, <2>2, <2>3, <2>4, <2>5 DEF N
<1> QED BY <1>1, <1>6, <1>7

\* The points follow the nodes and the nodes are read back, in order or not (interpolate,
\* from_curve).
THEOREM CurvesFollowNodes == \A nodes_ \in [Node -> Duty] : FollowsNodes(nodes_)
<1> SUFFICES ASSUME NEW nodes_ \in [Node -> Duty] PROVE FollowsNodes(nodes_)
  OBVIOUS
<1> DEFINE curve == Interpolate(nodes_)
<1>1. NodeCount \in Nat /\ NodeCount >= 2 /\ Node = 0..(NodeCount - 1)
  BY CurvesAssumption DEF Node
<1>2. ASSUME NEW n \in Node PROVE curve[PointIndex(n)] = nodes_[n]
  <2>1. PointIndex(n) \in Point
    BY NodesAreIndexed
  <2>2. CASE n < NodeCount - 1
    <3>1. Lower(PointIndex(n)) = n /\ From(PointIndex(n)) = PointIndex(n)
      BY <2>2, NodesAreIndexed
    <3>2. PointIndex(n) - From(PointIndex(n)) = 0
      BY <2>1, <3>1, CurvesAssumption DEF Point
    <3> QED BY <2>1, <3>1, <3>2, PointIsNearest
  <2>3. CASE n = NodeCount - 1
    <3>1. /\ Lower(PointIndex(n)) = n - 1
          /\ PointIndex(n) - From(PointIndex(n)) = Width(PointIndex(n))
      BY <2>3, NodesAreIndexed
    <3>2. Lower(PointIndex(n)) + 1 = n
      BY <1>1, <3>1
    <3> QED BY <2>1, <3>1, <3>2, PointIsNearest
  <2> QED BY <1>1, <2>2, <2>3
<1>3. Sampled(curve) = nodes_
  BY <1>2 DEF Sampled
<1>4. Drawable(curve)
  BY <1>3 DEF Drawable
<1>5. ASSUME NEW n \in 0..(NodeCount - 2), NEW p \in Point, p \in PointIndex(n)..PointIndex(n + 1)
      PROVE  LET w == PointIndex(n + 1) - PointIndex(n)
                 off == (curve[p] - nodes_[n]) * w - (nodes_[n + 1] - nodes_[n]) * (p - PointIndex(n))
             IN  2 * off \in -w..w
  <2>1. n \in Node /\ n + 1 \in Node /\ n < NodeCount - 1 /\ n \in Int
    BY <1>1
  <2>2. PointIndex(n) \in Int /\ PointIndex(n + 1) \in Int /\ PointIndex(n) < PointIndex(n + 1)
    BY <2>1, NodesAreIndexed, CurvesAssumption DEF Point
  <2>3. CASE Lower(p) = n
    <3>1. From(p) = PointIndex(n) /\ Width(p) = PointIndex(n + 1) - PointIndex(n)
      BY <2>3 DEF From, Width
    <3> HIDE DEF curve
    <3> QED BY <2>3, <3>1, PointIsNearest DEF curve
  <2>4. CASE p = PointIndex(n + 1)
    <3> DEFINE w == PointIndex(n + 1) - PointIndex(n)
               rise == nodes_[n + 1] - nodes_[n]
    <3>1. curve[p] = nodes_[n + 1]
      BY <1>2, <2>1, <2>4
    <3>2. w \in Nat /\ rise \in Int
      BY <2>1, <2>2, CurvesAssumption DEF Duty
    <3> HIDE DEF w, rise
    <3>3. rise * w - rise * w = 0 /\ 2 * 0 \in -w..w
      BY <3>2
    <3> QED BY <2>4, <3>1, <3>3 DEF w, rise
  <2> QED BY <1>5, <2>1, <2>3, <2>4, NodesAreIndexed
<1> HIDE DEF curve
<1> QED BY <1>3, <1>4, <1>5 DEF FollowsNodes, curve

-----------------------------------------------------------------------------
(* The gates: what holds of every machine, whatever its files are open to, *)
(* its nodes answer and its other programs hold.                           *)

Gate == INSTANCE Gates

\* What a machine is: what it answers is a sequence, and a count is a number.
IsMachine(machine) ==
    /\ \E Word : machine.rgb.stream \in Seq(Word)
    /\ machine.rgb.channels \in Nat

\* A wanted answer among the reads allowed is heard: the reads that were made are the first
\* at which the asking ends, and every answer before that one was taken in.
LEMMA AnswersHeard ==
    ASSUME NEW machine, IsMachine(machine)
    PROVE  Gate!AnswersAreHeard(machine)
<1> DEFINE stream == machine.rgb.stream
           N == Len(stream)
           asked == {"firmware", "channels"}
           Heard(n) == {stream[i] : i \in 1..n}
           Ends(n) == n \in {N, Gate!MaxQueryReads} \/ asked \subseteq Heard(n) \/ "error" \in Heard(n)
           Least(n) == Ends(n) /\ \A k \in 0..(n - 1) : ~Ends(k)
           reads == CHOOSE n \in 0..N : Least(n)
<1>1. N \in Nat
  <2>1. PICK Word : stream \in Seq(Word)
    BY DEF IsMachine
  <2> HIDE DEF stream
  <2> QED BY <2>1
<1>2. Ends(N)
  OBVIOUS
<1> HIDE DEF N, stream, Ends
<1>3. \E n \in 0..N : Least(n)
  <2>1. CASE Ends(0)
    BY <1>1, <2>1
  <2>2. CASE ~Ends(0)
    <3> DEFINE S == {n \in 1..N : Ends(n)}
    <3>1. N \in S
      <4>1. N # 0
        BY <1>2, <2>2
      <4> QED BY <1>1, <1>2, <4>1
    <3>2. S \subseteq 1..N /\ S # {}
      BY <3>1
    <3>3. PICK n \in S : \A m \in S : n <= m
      <4> HIDE DEF S
      <4> QED BY <1>1, <3>2, LeastOf
    <3>4. n \in 1..N /\ Ends(n)
      BY <3>3
    <3>5. ASSUME NEW k \in 0..(n - 1), Ends(k) PROVE FALSE
      <4>1. k # 0 /\ k \in 1..N
        BY <1>1, <2>2, <3>4, <3>5
      <4>2. k \in S
        BY <3>5, <4>1
      <4>3. n <= k
        BY <3>3, <4>2
      <4> QED BY <3>4, <3>5, <4>3
    <3> QED BY <1>1, <3>4, <3>5
  <2> QED BY <2>1, <2>2
<1>4. reads \in 0..N /\ Least(reads)
  BY <1>3
<1>5. Gate!Ask(stream, asked) = IF "error" \in Heard(reads) THEN Gate!Failed ELSE Heard(reads) \cap asked
  BY DEF Gate!Ask, N, Ends
<1> HIDE DEF reads
<1>6. Gate!MaxQueryReads = 12 /\ Gate!Failed = {"failed"}
  BY DEF Gate!MaxQueryReads, Gate!Failed
<1>7. ASSUME NEW which \in asked
      PROVE  which \in Gate!Ask(stream, asked) <=>
                /\ Gate!Ask(stream, asked) # Gate!Failed
                /\ \E i \in DOMAIN stream : stream[i] = which /\ i <= Gate!MaxQueryReads
  <2>0. DOMAIN stream = 1..N
    <3>1. PICK Word : stream \in Seq(Word)
      BY DEF IsMachine, stream
    <3> QED BY <3>1 DEF N
  <2>1. reads <= Gate!MaxQueryReads
    <3>1. CASE reads = 0
      BY <1>6, <3>1
    <3>2. CASE reads > Gate!MaxQueryReads
      <4>1. Gate!MaxQueryReads \in 0..(reads - 1)
        BY <1>1, <1>4, <1>6, <3>2
      <4>2. Ends(Gate!MaxQueryReads)
        BY DEF Ends
      <4> QED BY <1>4, <4>1, <4>2
    <3> QED BY <1>1, <1>4, <1>6, <3>2
  <2>2. ASSUME "error" \notin Heard(reads), NEW i \in 1..N, stream[i] = which, i <= Gate!MaxQueryReads
        PROVE  which \in Heard(reads)
    <3>1. reads = N \/ reads = Gate!MaxQueryReads \/ asked \subseteq Heard(reads)
      BY <1>4, <2>2 DEF Ends
    <3>2. ASSUME reads = N \/ reads = Gate!MaxQueryReads PROVE i \in 1..reads
      BY <1>1, <1>6, <2>2, <3>2
    <3> QED BY <2>2, <3>1, <3>2
  <2>3. ASSUME which \in Heard(reads)
        PROVE  \E i \in DOMAIN stream : stream[i] = which /\ i <= Gate!MaxQueryReads
    <3>1. PICK i \in 1..reads : stream[i] = which
      BY <2>3
    <3>2. i \in 1..N /\ i <= Gate!MaxQueryReads
      BY <1>1, <1>4, <1>6, <2>1, <3>1
    <3> QED BY <2>0, <3>1, <3>2
  <2>4. which # "failed"
    OBVIOUS
  <2>5. CASE "error" \in Heard(reads)
    BY <1>5, <1>6, <2>4, <2>5
  <2>6. CASE "error" \notin Heard(reads)
    <3>1. Gate!Ask(stream, asked) = Heard(reads) \cap asked
      BY <1>5, <2>6
    <3>2. Gate!Ask(stream, asked) # Gate!Failed
      <4>1. "failed" \notin asked
        OBVIOUS
      <4> HIDE DEF asked
      <4> QED BY <1>6, <3>1, <4>1
    <3>3. which \in Gate!Ask(stream, asked) <=> which \in Heard(reads)
      BY <3>1
    <3> HIDE DEF Heard, asked
    <3> QED BY <2>0, <2>2, <2>3, <2>6, <3>2, <3>3
  <2> QED BY <2>5, <2>6
<1> QED BY <1>7 DEF Gate!AnswersAreHeard, stream

\* The ids of each device are its own, and each stands for its ladder.
LEMMA KindsOfCapability ==
    ASSUME NEW machine
    PROVE  LET all == Gate!Capabilities(machine)
           IN  /\ Gate!Present(machine) \subseteq {"kraken", "rgb"}
               /\ DOMAIN all = Gate!Present(machine)
               /\ "kraken" \in Gate!Present(machine) =>
                    /\ DOMAIN all["kraken"] = {"liquid_temperature", "pump_duty", "fan_duty", "pump_curve",
                                               "fan_curve", "frame", "display_control"}
                    /\ all["kraken"]["frame"] = Gate!FrameState(Gate!LcdTopology(machine.lcd))
                    /\ all["kraken"]["display_control"] = Gate!LcdState(Gate!LcdTopology(machine.lcd))
               /\ "rgb" \in Gate!Present(machine) =>
                    /\ DOMAIN all["rgb"] = {"fixed_color", "effects"}
                    /\ \A id \in {"fixed_color", "effects"} :
                            all["rgb"][id] = Gate!RgbState(Gate!RgbTopology(machine.rgb))
<1>1. Gate!Present(machine) \subseteq {"kraken", "rgb"}
  BY DEF Gate!Present, Gate!Device
<1>2. "kraken" # "rgb"
  OBVIOUS
<1> QED BY <1>1, <1>2 DEF Gate!Capabilities

\* What a program asks for is the cooler's alone.
LEMMA ProgramsAsk ==
    /\ Gate!RequiredCapabilities("fixed") = {"pump_duty", "fan_duty"}
    /\ Gate!RequiredCapabilities("curve") = {"pump_curve", "fan_curve"}
    /\ Gate!Duty["pump"] = "pump_duty" /\ Gate!Duty["fan"] = "fan_duty"
    /\ Gate!Curve["pump"] = "pump_curve" /\ Gate!Curve["fan"] = "fan_curve"
BY DEF Gate!RequiredCapabilities, Gate!Duty, Gate!Curve, Gate!Channel

\* A program that writes two capabilities of the cooler: its control and its command.
LEMMA TwoAgree ==
    ASSUME NEW machine, NEW program \in {"fixed", "curve"}
    PROVE  /\ ~Gate!Elsewhere(machine, "kraken") =>
                (Gate!ProgramState(machine, program, TRUE) = Gate!Accepted
                    <=> Gate!Execute(machine, program) = Gate!Accepted)
           /\ Gate!ProgramState(machine, program, TRUE) \ {"held"} \subseteq Gate!Execute(machine, program)
           /\ Gate!Execute(machine, program) = Gate!Accepted
                => Gate!ProgramState(machine, program, TRUE) = Gate!Accepted
           /\ Gate!Activate(machine, program, Gate!AnyDevice) = Gate!Accepted
                => Gate!Execute(machine, program) = Gate!Accepted
<1>0. PICK a \in {"pump_duty", "pump_curve"}, b \in {"fan_duty", "fan_curve"} :
        /\ Gate!RequiredCapabilities(program) = {a, b}
        /\ Gate!ProgramState(machine, program, TRUE) =
               IF Gate!CoolingState(machine, a, TRUE) # Gate!Accepted
               THEN Gate!CoolingState(machine, a, TRUE) ELSE Gate!CoolingState(machine, b, TRUE)
  <2>1. CASE program = "fixed"
    <3> DEFINE a == "pump_duty"  b == "fan_duty"
    <3>1. Gate!RequiredCapabilities(program) = {a, b} /\ Gate!Duty["pump"] = a /\ Gate!Duty["fan"] = b
      BY <2>1, ProgramsAsk
    <3>2. Gate!ProgramState(machine, program, TRUE) =
               IF Gate!CoolingState(machine, a, TRUE) # Gate!Accepted
               THEN Gate!CoolingState(machine, a, TRUE) ELSE Gate!CoolingState(machine, b, TRUE)
      <4>1. program # "onboard" /\ (IF program = "fixed" THEN Gate!Duty ELSE Gate!Curve) = Gate!Duty
        BY <2>1
      <4>2. "pump" \in Gate!Channel /\ "fan" \in Gate!Channel
        BY DEF Gate!Channel
      <4> QED BY <3>1, <4>1, <4>2 DEF Gate!ProgramState
    <3> QED BY <3>1, <3>2
  <2>2. CASE program = "curve"
    <3> DEFINE a == "pump_curve"  b == "fan_curve"
    <3>1. Gate!RequiredCapabilities(program) = {a, b} /\ Gate!Curve["pump"] = a /\ Gate!Curve["fan"] = b
      BY <2>2, ProgramsAsk
    <3>2. Gate!ProgramState(machine, program, TRUE) =
               IF Gate!CoolingState(machine, a, TRUE) # Gate!Accepted
               THEN Gate!CoolingState(machine, a, TRUE) ELSE Gate!CoolingState(machine, b, TRUE)
      <4>1. program # "onboard" /\ (IF program = "fixed" THEN Gate!Duty ELSE Gate!Curve) = Gate!Curve
        BY <2>2
      <4>2. "pump" \in Gate!Channel /\ "fan" \in Gate!Channel
        BY DEF Gate!Channel
      <4> QED BY <3>1, <4>1, <4>2 DEF Gate!ProgramState
    <3> QED BY <3>1, <3>2
  <2> QED BY <2>1, <2>2
<1> DEFINE holders == Gate!ReadOnly(machine)
           all == Gate!Capabilities(machine)
           p == all["kraken"][a]
           f == all["kraken"][b]
           present == "kraken" \in Gate!Present(machine)
           execute == Gate!Execute(machine, program)
           state == Gate!ProgramState(machine, program, TRUE)
           of(s) == IF ~present THEN {"no_device"}
                    ELSE IF s # "writable" THEN {s}
                    ELSE IF holders \cap {"kraken", "nobody"} # {} THEN {"held"} ELSE {}
<1>1. program # "onboard" /\ Gate!Accepted = {} /\ Gate!Writable = "writable"
  BY DEF Gate!Accepted, Gate!Writable
<1>2. execute = IF ~present THEN {"no_device"}
                ELSE IF {p, f} \ {"writable"} # {} THEN {p, f} \ {"writable"}
                ELSE IF holders # {} THEN {"held"} ELSE {}
  <2>1. execute = Gate!Refusal(machine, "kraken", {a, b})
    BY <1>0, <1>1 DEF Gate!Execute
  <2>2. {all["kraken"][id] : id \in {a, b}} = {p, f}
    OBVIOUS
  <2> HIDE DEF all, p, f
  <2> QED BY <1>1, <2>1, <2>2 DEF Gate!Refusal, all
<1>3. Gate!CoolingState(machine, a, TRUE) = of(p) /\ Gate!CoolingState(machine, b, TRUE) = of(f)
  <2>1. Gate!CoolingState(machine, a, TRUE) = Gate!ControlState(machine, "kraken", a)
        /\ Gate!CoolingState(machine, b, TRUE) = Gate!ControlState(machine, "kraken", b)
    BY DEF Gate!CoolingState
  <2>2. Gate!Nobody = "nobody"
    BY DEF Gate!Nobody
  <2> QED BY <1>1, <2>1, <2>2 DEF Gate!ControlState
<1>4. state = IF of(p) # {} THEN of(p) ELSE of(f)
  BY <1>0, <1>1, <1>3
<1>5. Gate!Elsewhere(machine, "kraken") <=> holders \ {"kraken", "nobody"} # {}
  BY DEF Gate!Elsewhere, Gate!Nobody
<1>6. ASSUME Gate!Activate(machine, program, Gate!AnyDevice) = {}
      PROVE  execute = {}
  <2> DEFINE targets == Gate!Targets(machine, {a, b}, Gate!AnyDevice)
             found == UNION {{IF id \in DOMAIN all[unit] THEN all[unit][id] ELSE "no_capability" :
                                id \in {a, b}} : unit \in targets}
  <2>1. targets # {} /\ found \ {"writable"} = {} /\ holders = {}
    <3>1. Gate!Activate(machine, program, Gate!AnyDevice) =
            IF targets = {} THEN {"no_device"}
            ELSE IF found \ {"writable"} # {} THEN found \ {"writable"}
            ELSE IF holders # {} THEN {"held"} ELSE {}
      BY <1>0, <1>1 DEF Gate!Activate
    <3> HIDE DEF targets, found, holders
    <3> QED BY <1>6, <3>1
  <2>2. targets = {unit \in Gate!Present(machine) : {a, b} \cap DOMAIN all[unit] # {}}
    BY DEF Gate!Targets
  <2>3. PICK unit \in targets : TRUE
    BY <2>1
  <2>4. unit = "kraken" /\ present
    <3>1. "rgb" \in Gate!Present(machine) => {a, b} \cap DOMAIN all["rgb"] = {}
      BY KindsOfCapability
    <3> HIDE DEF targets, all
    <3> QED BY <2>2, <2>3, <3>1, KindsOfCapability
  <2>5. {a, b} \subseteq DOMAIN all["kraken"]
    BY <2>4, KindsOfCapability
  <2>6. p \in found /\ f \in found
    <3> HIDE DEF targets, all
    <3> QED BY <2>3, <2>4, <2>5
  <2> HIDE DEF found, p, f, execute, holders
  <2> QED BY <1>2, <2>1, <2>4, <2>6
<1> HIDE DEF execute, state, p, f, holders, present, all
<1>7. state \ {"held"} \subseteq execute
  BY <1>2, <1>4
<1>8. holders \ {"kraken", "nobody"} = {} => (state = {} <=> execute = {})
  BY <1>2, <1>4
<1>9. execute = {} => state = {}
  BY <1>2, <1>4
<1> QED BY <1>1, <1>5, <1>6, <1>7, <1>8, <1>9 DEF execute, state

\* The lighting controls and the light commands.
LEMMA LightAgrees ==
    ASSUME NEW machine, NEW id \in {"fixed_color", "effects"},
           NEW channel \in 1..Gate!ConnectedChannels(machine),
           ~Gate!Elsewhere(machine, "rgb")
    PROVE  Gate!ControlState(machine, "rgb", id) = Gate!Illuminate(machine, channel, id)
<1> DEFINE holders == Gate!ReadOnly(machine)
           state == Gate!Capabilities(machine)["rgb"][id]
<1>1. "rgb" \in Gate!Present(machine)
  <2>1. Gate!ConnectedChannels(machine) # 0
    BY SMT
  <2> QED BY <2>1 DEF Gate!ConnectedChannels
<1>2. Gate!Illuminate(machine, channel, id) = Gate!Refusal(machine, "rgb", {id})
  BY DEF Gate!Illuminate
<1>3. Gate!Refusal(machine, "rgb", {id}) =
        IF {state} \ {"writable"} # {} THEN {state} \ {"writable"} ELSE IF holders # {} THEN {"held"} ELSE {}
  <2>1. {Gate!Capabilities(machine)["rgb"][i] : i \in {id}} = {state}
    OBVIOUS
  <2> HIDE DEF state
  <2> QED BY <1>1, <2>1 DEF Gate!Refusal, Gate!Writable, Gate!Accepted, state
<1>4. Gate!ControlState(machine, "rgb", id) =
        IF state # "writable" THEN {state} ELSE IF holders \cap {"rgb", "nobody"} # {} THEN {"held"} ELSE {}
  BY <1>1 DEF Gate!ControlState, Gate!Writable, Gate!Accepted, Gate!Nobody
<1>5. holders \ {"rgb", "nobody"} = {}
  BY DEF Gate!Elsewhere, Gate!Nobody
<1> HIDE DEF holders, state
<1> QED BY <1>2, <1>3, <1>4, <1>5

\* A frame may be written only where the display answers and its bulk interface is held.
LEMMA FrameHasItsLink ==
    ASSUME NEW machine, Gate!FrameState(Gate!LcdTopology(machine.lcd)) = "writable"
    PROVE  /\ Gate!LcdState(Gate!LcdTopology(machine.lcd)) = "writable"
           /\ Gate!LcdTopology(machine.lcd).bulk /\ Gate!LcdTopology(machine.lcd).display
<1> DEFINE topology == Gate!LcdTopology(machine.lcd)
<1> HIDE DEF topology
<1>1. Gate!LcdState(topology) = "writable" /\ topology.bulk
  BY DEF Gate!FrameState, Gate!Writable, topology
<1>2. topology.display
  BY <1>1 DEF Gate!LcdState
<1> QED BY <1>1, <1>2 DEF topology

\* The screen's control and a shown frame.
LEMMA ShowAgrees ==
    ASSUME NEW machine
    PROVE  /\ ~Gate!Elsewhere(machine, "kraken") =>
                (Gate!ControlState(machine, "kraken", "frame") = Gate!Accepted
                    <=> Gate!Show(machine) = Gate!Accepted)
           /\ Gate!Show(machine) = Gate!Accepted =>
                /\ "kraken" \in Gate!Present(machine) /\ Gate!ReadOnly(machine) = {}
                /\ Gate!Capabilities(machine)["kraken"]["frame"] = "writable"
<1> DEFINE holders == Gate!ReadOnly(machine)
           all == Gate!Capabilities(machine)
           frame == all["kraken"]["frame"]
           control == all["kraken"]["display_control"]
           present == "kraken" \in Gate!Present(machine)
<1>1. Gate!Show(machine) = IF ~present THEN {"no_device"}
                           ELSE IF {frame, control} \ {"writable"} # {} THEN {frame, control} \ {"writable"}
                           ELSE IF holders # {} THEN {"held"} ELSE {}
  <2>1. {all["kraken"][id] : id \in {"frame", "display_control"}} = {frame, control}
    OBVIOUS
  <2> HIDE DEF all, frame, control
  <2> QED BY <2>1 DEF Gate!Show, Gate!Refusal, Gate!Writable, Gate!Accepted, all
<1>2. Gate!ControlState(machine, "kraken", "frame") =
        IF ~present THEN {"no_device"}
        ELSE IF frame # "writable" THEN {frame}
        ELSE IF holders \cap {"kraken", "nobody"} # {} THEN {"held"} ELSE {}
  BY DEF Gate!ControlState, Gate!Writable, Gate!Accepted, Gate!Nobody
<1>3. present /\ frame = "writable" => control = "writable"
  <2>1. present => /\ frame = Gate!FrameState(Gate!LcdTopology(machine.lcd))
                   /\ control = Gate!LcdState(Gate!LcdTopology(machine.lcd))
    BY KindsOfCapability
  <2> QED BY <2>1, FrameHasItsLink
<1>4. Gate!Elsewhere(machine, "kraken") <=> holders \ {"kraken", "nobody"} # {}
  BY DEF Gate!Elsewhere, Gate!Nobody
<1>5. Gate!Accepted = {}
  BY DEF Gate!Accepted
<1> HIDE DEF holders, all, frame, control, present
<1>6. ~Gate!Elsewhere(machine, "kraken") =>
        (Gate!ControlState(machine, "kraken", "frame") = {} <=> Gate!Show(machine) = {})
  BY <1>1, <1>2, <1>3, <1>4
<1>7. Gate!Show(machine) = {} => present /\ holders = {} /\ frame = "writable"
  BY <1>1
<1> QED BY <1>5, <1>6, <1>7 DEF present, holders, frame, all

\* The gate of every control and the gate of its command, on any machine.
LEMMA ControlsInAgreement ==
    ASSUME NEW machine
    PROVE  Gate!ControlsAgree(machine)
<1> DEFINE Agrees(program) ==
              /\ ~Gate!Elsewhere(machine, "kraken") =>
                    (Gate!ProgramState(machine, program, TRUE) = Gate!Accepted
                        <=> Gate!Execute(machine, program) = Gate!Accepted)
              /\ Gate!ProgramState(machine, program, TRUE) \ {"held"} \subseteq Gate!Execute(machine, program)
              /\ Gate!Execute(machine, program) = Gate!Accepted
                    => Gate!ProgramState(machine, program, TRUE) = Gate!Accepted
              /\ Gate!Activate(machine, program, Gate!AnyDevice) = Gate!Accepted
                    => Gate!Execute(machine, program) = Gate!Accepted
<1>1. Gate!ProgramState(machine, "onboard", TRUE) = Gate!Accepted
      /\ Gate!ProgramState(machine, "onboard", FALSE) = Gate!Accepted
      /\ Gate!Execute(machine, "onboard") = Gate!Accepted
  BY DEF Gate!ProgramState, Gate!Execute
<1>2. Agrees("onboard")
  BY <1>1
<1>3. Agrees("fixed")
  BY TwoAgree
<1>4. Agrees("curve")
  BY TwoAgree
<1>5. \A program \in Gate!Program : Agrees(program)
  <2> HIDE DEF Agrees
  <2> QED BY <1>2, <1>3, <1>4 DEF Gate!Program
<1>6. \A id \in {"fixed_color", "effects"}, channel \in 1..Gate!ConnectedChannels(machine) :
        ~Gate!Elsewhere(machine, "rgb") =>
            Gate!ControlState(machine, "rgb", id) = Gate!Illuminate(machine, channel, id)
  BY LightAgrees
<1>7. ~Gate!Elsewhere(machine, "kraken") =>
        (Gate!ControlState(machine, "kraken", "frame") = Gate!Accepted <=> Gate!Show(machine) = Gate!Accepted)
  BY ShowAgrees
<1> QED BY <1>1, <1>5, <1>6, <1>7 DEF Gate!ControlsAgree

\* Effects may be written only where the controller told of channels, and they are connected.
LEMMA EffectsHaveChannels ==
    ASSUME NEW machine, IsMachine(machine), "rgb" \in Gate!Present(machine),
           Gate!RgbState(Gate!RgbTopology(machine.rgb)) = "writable"
    PROVE  Gate!ConnectedChannels(machine) > 0
<1> DEFINE topology == Gate!RgbTopology(machine.rgb)
           count == machine.rgb.channels
<1>1. topology.channels = <<count>> \/ topology.channels = <<>>
  BY DEF Gate!RgbTopology, Gate!Told, Gate!Unknown
<1> HIDE DEF topology
<1>2. topology.channels # <<>> /\ topology.channels # <<0>>
  BY DEF Gate!RgbState, Gate!Unknown, topology
<1>3. Gate!ConnectedChannels(machine) = topology.channels[1]
  BY <1>2 DEF Gate!ConnectedChannels, Gate!Unknown, topology
<1>4. count \in Nat
  BY DEF IsMachine
<1> HIDE DEF count
<1>5. topology.channels = <<count>> /\ count # 0
  BY <1>1, <1>2
<1> QED BY <1>3, <1>4, <1>5

\* While somebody holds a device, nothing is accepted that writes.
LEMMA HeldIsRefused ==
    ASSUME NEW machine, Gate!Conflicts(machine) # {}
    PROVE  /\ Gate!WriteState(machine) # Gate!Accepted /\ Gate!Show(machine) # Gate!Accepted
           /\ \A program \in Gate!Program \ {"onboard"} : \A pinned :
                /\ Gate!Execute(machine, program) # Gate!Accepted
                /\ Gate!Activate(machine, program, pinned) # Gate!Accepted
<1>1. Gate!ReadOnly(machine) # {}
  BY DEF Gate!ReadOnly
<1>2. Gate!Accepted = {}
  BY DEF Gate!Accepted
<1>3. \A unit, ids : Gate!Refusal(machine, unit, ids) # {}
  <2> TAKE unit, ids
  <2> DEFINE blocked == {Gate!Capabilities(machine)[unit][id] : id \in ids} \ {Gate!Writable}
  <2>1. Gate!Refusal(machine, unit, ids) =
            IF unit \notin Gate!Present(machine) THEN {"no_device"}
            ELSE IF blocked # {} THEN blocked ELSE {"held"}
    BY <1>1 DEF Gate!Refusal
  <2> HIDE DEF blocked
  <2> QED BY <2>1
<1>4. Gate!WriteState(machine) # {}
  BY <1>1 DEF Gate!WriteState
<1>5. Gate!Show(machine) # {}
  BY <1>3 DEF Gate!Show
<1>6. ASSUME NEW program \in Gate!Program \ {"onboard"}, NEW pinned
      PROVE  Gate!Execute(machine, program) # {} /\ Gate!Activate(machine, program, pinned) # {}
  <2>1. Gate!Execute(machine, program) # {}
    BY <1>3 DEF Gate!Execute
  <2> DEFINE ids == Gate!RequiredCapabilities(program)
             all == Gate!Capabilities(machine)
             targets == Gate!Targets(machine, ids, pinned)
             found == UNION {{IF id \in DOMAIN all[unit] THEN all[unit][id] ELSE "no_capability" :
                                id \in ids} : unit \in targets}
             reasons == found \ {Gate!Writable}
  <2>2. Gate!Activate(machine, program, pinned) =
            IF targets = {} THEN {"no_device"} ELSE IF reasons # {} THEN reasons ELSE {"held"}
    BY <1>1 DEF Gate!Activate
  <2> HIDE DEF targets, reasons
  <2> QED BY <2>1, <2>2
<1> QED BY <1>2, <1>4, <1>5, <1>6

\* What may be written has somewhere to go, on any machine.
LEMMA OpenHasItsLink ==
    ASSUME NEW machine, IsMachine(machine)
    PROVE  Gate!OpenIsConnected(machine)
<1> DEFINE all == Gate!Capabilities(machine)
<1>1. DOMAIN all = Gate!Present(machine)
  BY KindsOfCapability
<1>2. "rgb" \in DOMAIN all /\ all["rgb"]["effects"] = Gate!Writable => Gate!ConnectedChannels(machine) > 0
  BY <1>1, KindsOfCapability, EffectsHaveChannels DEF Gate!Writable
<1>3. "kraken" \in DOMAIN all /\ all["kraken"]["frame"] = "writable" => Gate!DisplayConnected(machine)
  <2> SUFFICES ASSUME "kraken" \in Gate!Present(machine), all["kraken"]["frame"] = "writable"
               PROVE  Gate!DisplayConnected(machine)
    BY <1>1
  <2>1. Gate!FrameState(Gate!LcdTopology(machine.lcd)) = "writable"
    BY KindsOfCapability
  <2> QED BY <2>1, FrameHasItsLink DEF Gate!DisplayConnected
<1>4. Gate!Show(machine) = Gate!Accepted => Gate!DisplayConnected(machine)
  BY <1>1, <1>3, ShowAgrees
<1>5. ASSUME NEW unit \in DOMAIN all, Gate!Health(machine, unit) = "ready", Gate!ReadOnly(machine) = {}
      PROVE  \E id \in DOMAIN all[unit] : Gate!ControlState(machine, unit, id) = Gate!Accepted
  <2>1. Gate!DeviceStatus(machine, unit).writable =
            {id \in DOMAIN all[unit] : all[unit][id] = Gate!Writable}
    BY DEF Gate!DeviceStatus
  <2>2. Gate!DeviceStatus(machine, unit).writable # {}
    BY <1>5 DEF Gate!Health
  <2>3. PICK id \in DOMAIN all[unit] : all[unit][id] = Gate!Writable
    <3> HIDE DEF all
    <3> QED BY <2>1, <2>2
  <2>4. Gate!ControlState(machine, unit, id) = Gate!Accepted
    BY <1>1, <1>5, <2>3 DEF Gate!ControlState
  <2> QED BY <2>4
<1>6. Gate!Conflicts(machine) # {} =>
        /\ Gate!WriteState(machine) # Gate!Accepted /\ Gate!Show(machine) # Gate!Accepted
        /\ \A program \in Gate!Program \ {"onboard"}, pinned \in Gate!Device \cup {Gate!AnyDevice} :
             /\ Gate!Execute(machine, program) # Gate!Accepted
             /\ Gate!Activate(machine, program, pinned) # Gate!Accepted
  BY HeldIsRefused
<1>7. Gate!Writable = "writable"
  BY DEF Gate!Writable
<1> HIDE DEF all
<1> QED BY <1>2, <1>3, <1>4, <1>5, <1>6, <1>7 DEF Gate!OpenIsConnected, all

\* The gates of the client and the daemon agree on every machine, not only on those the
\* runs look at (gate.rs; server.rs and state.rs, execute, illuminate, show and activate).
THEOREM GatesStayInAgreement == \A machine : IsMachine(machine) => Gate!GatesAgree(machine)
BY ControlsInAgreement, OpenHasItsLink, AnswersHeard DEF Gate!GatesAgree
=============================================================================
