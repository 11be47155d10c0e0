---------------------------- MODULE ClientProofs ----------------------------
(***************************************************************************)
(* The window, part by part.  First the worker and the screens: they keep  *)
(* their books, for any programs, presets, habits of the operator, weather *)
(* of the connection and number of edits and faults.  Then the lists and   *)
(* the held button, the readouts and the alert, and the preview of the     *)
(* panel.  The four specifications share no state.                         *)
(***************************************************************************)
EXTENDS Client, Window, Readouts, Preview, FiniteSetTheorems, TLAPS

-----------------------------------------------------------------------------
(* The inductive invariant.                                                *)

Asked == [ask : Request, answer : Answer \cup {None}]
Outcome == [seq : Int, subject : {"cooling", "panel", "profiles"}, severity : Severity]
Service == [alive : BOOLEAN, ran : Program \cup {None}, device : Program \cup {None},
            reading : Program \cup {None}, glass : Picture \cup {None}]
Edited == [mode : {"onboard", "fixed", "curve"}, fixed : Fixed, curve : Curve]

QueueTypes ==
    /\ inbox \in Seq(Command) /\ pending \in Command \cup {None} /\ current \in Command \cup {None}
    /\ pc \in {"top", "drain", "ask", "list", "poll", "wait"} /\ touched \in BOOLEAN
    /\ IF pc = "ask" THEN current \in Command ELSE current = None

LineTypes ==
    /\ session \in {"none", "open", "broken"} /\ line \in Seq(Asked)
    /\ korid \in Service /\ orphan \in Command \cup {None}

NewsTypes ==
    /\ rung \in BOOLEAN /\ link \in Known \cup {None} /\ outcome \in Outcome \cup {None}
    /\ rung => link \in Known

WindowTypes ==
    /\ editor \in Edited
    /\ {applied, committed, sent} \subseteq Program \cup {None} /\ picture \in Picture
    /\ due \in [Target -> {"no", "timed", "bare", "past"}]
    /\ drag \in {None, "duty", "node", "brightness"}

Counts == faults \in 0..MaxFaults /\ edits \in 0..MaxEdits /\ day \in Days

Types == QueueTypes /\ LineTypes /\ NewsTypes /\ WindowTypes /\ Counts

\* An answer on the line is to the request it follows; a status is asked for last,
\* and nothing is on a connection that is not open.
InOrder ==
    /\ session # "open" => line = <<>>
    /\ pc \in {"drain", "ask", "list", "poll"} => session # "none"
    /\ \A i \in DOMAIN line :
        /\ line[i].ask.kind = "status" => i = Len(line) /\ pc = "poll"
        /\ line[i].answer # None => line[i].answer.to = line[i].ask.kind

OneApply == \A i, j \in Places : IsApply(CommandAt(i)) /\ IsApply(CommandAt(j)) => i = j

\* A cooling write on its way, or its outcome on its way back, is the one in flight.
Awaited ==
    /\ \A i \in Places : IsApply(CommandAt(i)) => sent # None /\ ~SettlesCooling
    /\ SettlesCooling => sent # None

Books == "revert" \notin day.habit => OneApply /\ Awaited

IInv == Types /\ InOrder /\ Books

(* What ScreenIsHonest rests on as well, when nothing else writes.         *)

\* The worker waits on one request at a time.
Awaits == IF pc = "ask" THEN current ELSE IF pc = "list" THEN ProfilesAsked ELSE StatusAsked

OneRequest ==
    IF pc \in {"ask", "list", "poll"} THEN Len(line) = 1 /\ line[1].ask = Awaits ELSE line = <<>>

\* The daemon is there, on record with what its device runs.
Serving == korid.alive /\ korid.ran = korid.device /\ session # "broken" /\ orphan = None

\* A cooling write on its way is the program in flight, and no profile is activated.
OwnWrites ==
    \A i \in Places : CommandAt(i) # None =>
        /\ CommandAt(i).kind \in {"apply", "show"}
        /\ CommandAt(i).kind = "apply" => CommandAt(i).what = sent

\* The status to come, and the one to take with nothing in flight, name what is committed.
StatusIsNew ==
    /\ pc = "poll" /\ line[1].answer # None => line[1].answer.status.ran = korid.ran
    /\ rung /\ sent = None => link.ran = korid.ran

\* The cooling write in flight was done, and the window has not heard of it.
Landed ==
    \/ pc = "ask" /\ IsApply(current) /\ line[1].answer # None /\ line[1].answer.severity = "confirmed"
    \/ SettlesCooling /\ outcome.severity = "confirmed"

\* The window hears of the write in flight some time.
StillOpen == sent = None \/ SettlesCooling \/ \E i \in Places : IsApply(CommandAt(i))

\* The program on record as applied runs, or the daemon's is still to be adopted.
Agree == applied = korid.device \/ korid.ran # committed

RecordIsGood == (Landed => korid.device = sent) /\ (StillOpen /\ ~Landed => Agree)

Records == OneRequest /\ Serving /\ OwnWrites /\ StatusIsNew /\ RecordIsGood

Honesty == NothingElseWrites => Records

-----------------------------------------------------------------------------
(* Types.                                                                  *)

\* What the properties call a type is part of the invariant's.
LEMMA TypesAreOK == Types => TypeOK
  BY DEF Types, QueueTypes, LineTypes, NewsTypes, WindowTypes, Counts, TypeOK, Edited

\* A session starts with nothing queued, shown or asked.
LEMMA InitTypes == Init => Types
<1> SUFFICES ASSUME Init PROVE Types
  OBVIOUS
<1> USE FeedAssumption, ClientAssumption DEF Init, FeedInit, ClientInit
<1>1. QueueTypes
  <2>1. <<>> \in Seq(Command)
    OBVIOUS
  <2>2. inbox \in Seq(Command)
    BY <2>1
  <2>3. pending \in Command \cup {None} /\ current = None /\ pc = "top" /\ touched = FALSE
    OBVIOUS
  <2>4. QED
    BY <2>2, <2>3 DEF QueueTypes
<1>2. LineTypes
  BY DEF LineTypes, Service
<1>3. NewsTypes
  BY DEF NewsTypes
<1>4. WindowTypes
  <2>1. (CHOOSE f \in Fixed : TRUE) \in Fixed /\ (CHOOSE c \in Curve : TRUE) \in Curve
        /\ (CHOOSE p \in Picture : TRUE) \in Picture
    OBVIOUS
  <2>2. QED
    BY <2>1 DEF WindowTypes, Edited, Target
<1>5. Counts
  BY DEF Counts
<1>6. QED
  BY <1>1, <1>2, <1>3, <1>4, <1>5 DEF Types

\* What the daemon makes of a request leaves it in a state of its own.
LEMMA HandleTypes ==
    ASSUME korid \in Service, faults \in 0..MaxFaults, NEW r \in Request, NEW s \in Severity, Handle(r, s)
    PROVE  korid' \in Service /\ faults' \in 0..MaxFaults
<1>1. r.kind = "show" => r.what \in Picture
  BY DEF Request, Command, StatusAsked, ProfilesAsked
<1>2. r.kind \in {"apply", "activate"} => r.what \in Program
  BY FeedAssumption DEF Request, Command, StatusAsked, ProfilesAsked
<1>3. faults' \in 0..MaxFaults
  BY FeedAssumption DEF Handle, May
<1>4. CASE s = "confirmed"
  BY <1>1, <1>2, <1>4 DEF Handle, Service
<1>5. CASE s = "refused"
  BY <1>3, <1>5 DEF Handle
<1>6. CASE s = "unconfirmed"
  <2>1. r \in Command /\ r.kind # "show"
    BY <1>6 DEF Handle
  <2>2. r.what \in Program
    BY <1>2, <2>1 DEF Command
  <2>3. PICK d \in {korid.device, r.what} : korid' = [korid EXCEPT !.ran = None, !.device = d]
    BY <1>6 DEF Handle
  <2>4. QED
    BY <2>2, <2>3, <1>3 DEF Service
<1>7. QED
  BY <1>3, <1>4, <1>5, <1>6 DEF Severity

\* An entry of the line.
LEMMA EntryType ==
    ASSUME line \in Seq(Asked), NEW i \in DOMAIN line
    PROVE  line[i] \in Asked /\ line[i].ask \in Request /\ line[i].answer \in Answer \cup {None}
<1>1. line[i] \in Asked
  OBVIOUS
<1>2. QED
  BY <1>1 DEF Asked

\* What the worker can read is an answer, or nothing.
LEMMA ReadableType == ASSUME line \in Seq(Asked), NEW got \in Readable PROVE got \in Answer \cup {None}
  BY EntryType DEF Readable

\* Reading takes at most the oldest answer off the line.
LEMMA RestType == ASSUME line \in Seq(Asked), NEW got PROVE Rest(got) \in Seq(Asked)
<1>1. CASE got = None
  BY <1>1 DEF Rest
<1>2. CASE got # None /\ line # <<>>
  BY <1>2 DEF Rest
<1>3. CASE got # None /\ line = <<>>
  BY <1>3 DEF Rest
<1>4. QED
  BY <1>1, <1>2, <1>3

\* A request is put at the end of the line.
LEMMA AskType == ASSUME line \in Seq(Asked), NEW r \in Request PROVE Ask(r) \in Seq(Asked)
<1>1. [ask |-> r, answer |-> None] \in Asked
  BY DEF Asked
<1>2. QED
  BY <1>1 DEF Ask

\* A read may be counted as late.
LEMMA ReadingCounts == ASSUME Counts, UNCHANGED <<edits, day>>, NEW got, Reading(got) PROVE Counts'
  BY FeedAssumption DEF Counts, Reading, May

\* The queue and the connection through one stage of a cycle.
LEMMA WorkerTypes == ASSUME Types, WorkerStep, UNCHANGED <<window, edits, day>> PROVE Types'
<1> USE DEF Types
<1>0. WindowTypes'
  BY DEF WindowTypes, window
<1>1. CASE Connects
  BY <1>0, <1>1 DEF Connects, QueueTypes, LineTypes, NewsTypes, Counts, published
<1>2. CASE ConnectFails
  <2>1. Counts'
    BY <1>2, FeedAssumption DEF ConnectFails, Counts, May
  <2>2. QueueTypes' /\ LineTypes'
    BY <1>2 DEF ConnectFails, QueueTypes, LineTypes
  <2>3. NewsTypes'
    BY <1>2 DEF ConnectFails, NewsTypes, PublishDown, Down, Known
  <2>4. QED
    BY <1>0, <2>1, <2>2, <2>3
<1>3. CASE Drain
  <2>1. current' \in Command
    BY <1>3 DEF Drain, QueueTypes
  <2>2. inbox' \in Seq(Command) /\ pending' = None /\ pc' = "ask" /\ touched' \in BOOLEAN
    BY <1>3, <2>1 DEF Drain, QueueTypes, TouchesProfiles
  <2>3. line' \in Seq(Asked)
    BY <1>3, <2>1, AskType DEF Drain, LineTypes, Request
  <2>4. QueueTypes' /\ LineTypes'
    BY <1>3, <2>1, <2>2, <2>3 DEF Drain, QueueTypes, LineTypes
  <2>5. NewsTypes' /\ Counts'
    BY <1>3 DEF Drain, NewsTypes, Counts, published
  <2>6. QED
    BY <1>0, <2>4, <2>5
<1>4. CASE Drained
  <2>1. line' \in Seq(Asked)
    BY <1>4, AskType DEF Drained, LineTypes, Request
  <2>2. QED
    BY <1>0, <1>4, <2>1 DEF Drained, QueueTypes, LineTypes, NewsTypes, Counts, published
<1>5. CASE CommandEnds
  <2>1. PICK got \in Readable : Reading(got) /\ outcome' = Report(got) /\ line' = Rest(got)
    BY <1>5 DEF CommandEnds
  <2>2. got \in Answer \cup {None}
    BY ReadableType DEF LineTypes
  <2>3. Subject(current) \in {"cooling", "panel", "profiles"}
    BY <1>5 DEF CommandEnds, QueueTypes, Subject, Command
  <2>4. Report(got).severity \in Severity
    BY <2>2 DEF Report, Fits, Answer, Severity
  <2>5. outcome' \in Outcome
    BY <2>1, <2>3, <2>4 DEF Report, Outcome, NewsTypes
  <2>6. line' \in Seq(Asked)
    BY <2>1, RestType DEF LineTypes
  <2>7. QueueTypes' /\ LineTypes' /\ NewsTypes'
    BY <1>5, <2>5, <2>6 DEF CommandEnds, QueueTypes, LineTypes, NewsTypes
  <2>8. QED
    BY <1>0, <2>1, <2>7, ReadingCounts
<1>6. CASE Listed
  <2>1. PICK got \in Readable :
            /\ Reading(got)
            /\ line' = IF session = "broken" THEN line
                       ELSE Append(Rest(got), [ask |-> StatusAsked, answer |-> None])
    BY <1>6 DEF Listed
  <2>2. [ask |-> StatusAsked, answer |-> None] \in Asked
    BY DEF Asked, Request
  <2>3. line' \in Seq(Asked)
    BY <2>1, <2>2, RestType DEF LineTypes
  <2>4. QueueTypes' /\ LineTypes' /\ NewsTypes'
    BY <1>6, <2>3 DEF Listed, QueueTypes, LineTypes, NewsTypes, published
  <2>5. QED
    BY <1>0, <2>1, <2>4, ReadingCounts
<1>7. CASE Poll
  <2>1. PICK got \in Readable :
            Reading(got) /\ Fits(StatusAsked, got) /\ link' = got.status /\ line' = Rest(got)
    BY <1>7 DEF Poll
  <2>2. link' \in Known
    BY <2>1, ReadableType DEF LineTypes, Fits, Answer
  <2>3. line' \in Seq(Asked)
    BY <2>1, RestType DEF LineTypes
  <2>4. QueueTypes' /\ LineTypes' /\ NewsTypes'
    BY <1>7, <2>2, <2>3 DEF Poll, QueueTypes, LineTypes, NewsTypes
  <2>5. QED
    BY <1>0, <2>1, <2>4, ReadingCounts
<1>8. CASE PollFails
  <2>1. \A i \in Begun : line[i].ask \in Command
    BY DEF Begun
  <2>2. orphan' \in Command \cup {None}
    BY <1>8, <2>1 DEF PollFails, DropSession, LineTypes
  <2>3. <<>> \in Seq(Asked)
    OBVIOUS
  <2>4. QueueTypes' /\ LineTypes'
    BY <1>8, <2>2, <2>3 DEF PollFails, DropSession, QueueTypes, LineTypes
  <2>5. NewsTypes'
    BY <1>8 DEF PollFails, NewsTypes, PublishDown, Down, Known
  <2>6. Counts'
    BY <1>8, ReadingCounts DEF PollFails
  <2>7. QED
    BY <1>0, <2>4, <2>5, <2>6
<1>9. CASE Waits
  <2>1. inbox' \in Seq(Command) /\ pending' \in Command \cup {None}
    BY <1>9 DEF Waits, QueueTypes
  <2>2. QED
    BY <1>0, <1>9, <2>1 DEF Waits, QueueTypes, LineTypes, NewsTypes, Counts, published
<1>10. QED
  BY <1>1, <1>2, <1>3, <1>4, <1>5, <1>6, <1>7, <1>8, <1>9 DEF WorkerStep

\* The daemon and its connections.
LEMMA DaemonTypes == ASSUME Types, DaemonStep, UNCHANGED <<window, edits, day>> PROVE Types'
<1> USE DEF Types
<1>0. WindowTypes'
  BY DEF WindowTypes, window
<1>1. UNCHANGED <<worker, published>> => QueueTypes' /\ NewsTypes'
  BY DEF QueueTypes, NewsTypes, worker, published
<1>2. CASE Serve
  <2>1. PICK i \in 1..Len(line), severity \in Severity :
            /\ Handle(line[i].ask, severity)
            /\ line' = [line EXCEPT ![i].answer =
                    [to |-> line[i].ask.kind, severity |-> severity,
                     status |-> IF line[i].ask = StatusAsked THEN Status(korid) ELSE Down]]
    BY <1>2 DEF Serve
  <2>2. line[i] \in Asked /\ line[i].ask \in Request
    BY EntryType DEF LineTypes
  <2>3. korid' \in Service /\ faults' \in 0..MaxFaults
    BY <2>1, <2>2, HandleTypes DEF LineTypes, Counts
  <2>4. line[i].ask.kind \in {"apply", "show", "activate", "status", "profiles"}
    BY <2>2 DEF Request, Command, StatusAsked, ProfilesAsked
  <2>5. Status(korid) \in Known /\ Down \in Known
    BY DEF Status, Down, Known, LineTypes, Service
  <2>6. line' \in Seq(Asked)
    BY <2>1, <2>2, <2>4, <2>5 DEF Answer, Asked, LineTypes
  <2>7. QED
    BY <1>0, <1>1, <1>2, <2>3, <2>6 DEF Serve, LineTypes, Counts
<1>3. CASE ServeOrphan
  <2>1. orphan \in Request
    BY <1>3 DEF ServeOrphan, LineTypes, Request
  <2>2. korid' \in Service /\ faults' \in 0..MaxFaults
    BY <1>3, <2>1, HandleTypes DEF ServeOrphan, LineTypes, Counts
  <2>3. QED
    BY <1>0, <1>1, <1>3, <2>2 DEF ServeOrphan, LineTypes, Counts
<1>4. CASE Sample
  BY <1>0, <1>1, <1>4 DEF Sample, LineTypes, Service, Counts
<1>5. CASE Crash
  <2>1. <<>> \in Seq(Asked)
    OBVIOUS
  <2>2. korid' \in Service
    BY <1>5 DEF Crash, LineTypes, Service
  <2>3. Counts'
    BY <1>5, FeedAssumption DEF Crash, Counts, May
  <2>4. LineTypes'
    BY <1>5, <2>1, <2>2 DEF Crash, LineTypes
  <2>5. QED
    BY <1>0, <1>1, <1>5, <2>3, <2>4 DEF Crash
<1>6. CASE Start
  BY <1>0, <1>1, <1>6 DEF Start, LineTypes, Service, Counts
<1>7. CASE Elsewhere
  <2>1. Counts'
    BY <1>7, FeedAssumption DEF Elsewhere, Counts, May
  <2>2. QED
    BY <1>0, <1>1, <1>7, <2>1 DEF Elsewhere, LineTypes, Service
<1>8. QED
  BY <1>2, <1>3, <1>4, <1>5, <1>6, <1>7 DEF DaemonStep

-----------------------------------------------------------------------------
(* Writing what is due.                                                    *)

\* What is written of the cooling program is the program of the screen.
LEMMA CoolingWrite ==
    ASSUME editor' \in Edited, NEW w
    PROVE  \/ Writes(w, "cooling") = <<>>
           \/ /\ Writes(w, "cooling") = <<[kind |-> "apply", what |-> Screen(editor')]>>
              /\ Screen(editor') \in Program
<1>1. CASE ~Pending(editor', applied', w)
  BY <1>1 DEF Writes
<1>2. CASE Pending(editor', applied', w)
  <2>1. editor'.mode \in {"fixed", "curve"}
    BY <1>2 DEF Pending, Edited
  <2>2. Screen(editor') \in Program
    BY <2>1 DEF Screen, Edited, Program
  <2>3. QED
    BY <1>2, <2>2 DEF Writes
<1>3. QED
  BY <1>1, <1>2

\* What is written of the panel is the preset of its row.
LEMMA PanelWrite ==
    ASSUME NEW w
    PROVE  Writes(w, "panel") \in {<<>>, <<[kind |-> "show", what |-> picture']>>}
  BY DEF Writes

\* What a flush appends: no cooling write, or one, the program it then has in flight,
\* and that only when none was.
Appends(new, s) ==
    /\ new \in Seq(Command) /\ inbox' = inbox \o new
    /\ \A i \in DOMAIN new : new[i].kind \in {"apply", "show"}
    /\ \/ sent' = s /\ \A i \in DOMAIN new : new[i].kind # "apply"
       \/ /\ s = None /\ sent' \in Program
          /\ \E k \in DOMAIN new : /\ new[k].what = sent'
                                   /\ \A i \in DOMAIN new : new[i].kind = "apply" => i = k

\* A flush of any targets, seen with any status and any write in flight.
LEMMA FlushAppends ==
    ASSUME editor' \in Edited, picture' \in Picture, due \in [Target -> {"no", "timed", "bare", "past"}],
           NEW S, NEW w, NEW s, Flush(S, w, s)
    PROVE  /\ due' \in [Target -> {"no", "timed", "bare", "past"}]
           /\ \E new : Appends(new, s)
<1> DEFINE ready(t) == t \in S /\ ~HeldBack(t, s)
           out(t) == IF ready(t) THEN Writes(w, t) ELSE <<>>
           cooling == out("cooling")
           panel == out("panel")
           show == [kind |-> "show", what |-> picture']
           apply == [kind |-> "apply", what |-> Screen(editor')]
<1>1. due' \in [Target -> {"no", "timed", "bare", "past"}]
  BY DEF Flush
<1>2. /\ sent' = IF cooling # <<>> THEN Screen(editor') ELSE s
      /\ inbox' \in {inbox \o cooling \o panel, inbox \o panel \o cooling}
  BY DEF Flush
<1>3. panel \in {<<>>, <<show>>} /\ show \in Command
  BY PanelWrite DEF Command
<1>4. \/ cooling = <<>>
      \/ s = None /\ cooling = <<apply>> /\ Screen(editor') \in Program
  BY CoolingWrite DEF HeldBack
<1> HIDE DEF cooling, panel
<1>5. CASE cooling = <<>>
  <2>1. sent' = s
    BY <1>2, <1>5
  <2>2. inbox' = inbox \o panel
    BY <1>2, <1>3, <1>5
  <2>3. panel \in Seq(Command)
    <3>1. \A c \in Command : <<c>> \in Seq(Command)
      OBVIOUS
    <3>2. <<show>> \in Seq(Command)
      BY <1>3, <3>1
    <3>3. <<>> \in Seq(Command)
      OBVIOUS
    <3>4. QED
      BY <1>3, <3>2, <3>3
  <2>4. \A i \in DOMAIN panel : panel[i] = show
    BY <1>3
  <2>5. Appends(panel, s)
    BY <2>1, <2>2, <2>3, <2>4 DEF Appends
  <2>6. QED
    BY <1>1, <2>5
<1>6. CASE s = None /\ cooling = <<apply>> /\ Screen(editor') \in Program
  <2>1. sent' = Screen(editor') /\ sent' \in Program
    BY <1>2, <1>6
  <2>2. apply \in Command
    BY <1>6 DEF Command
  <2>3. CASE panel = <<>>
    <3>1. inbox' = inbox \o <<apply>>
      BY <1>2, <1>6, <2>3
    <3>2. Appends(<<apply>>, s)
      BY <1>6, <2>1, <2>2, <3>1 DEF Appends
    <3>3. QED
      BY <1>1, <3>2
  <2>4. CASE panel = <<show>> /\ inbox' = inbox \o cooling \o panel
    <3>1. inbox' = inbox \o <<apply, show>>
      BY <1>6, <2>4
    <3>2. /\ <<apply, show>> \in Seq(Command)
          /\ DOMAIN <<apply, show>> = {1, 2}
          /\ <<apply, show>>[1] = apply /\ <<apply, show>>[2] = show
      BY <1>3, <2>2
    <3>3. apply.kind = "apply" /\ show.kind = "show" /\ apply.what = sent'
      BY <2>1
    <3>4. Appends(<<apply, show>>, s)
      BY <1>6, <2>1, <3>1, <3>2, <3>3 DEF Appends
    <3>5. QED
      BY <1>1, <3>4
  <2>5. CASE panel = <<show>> /\ inbox' = inbox \o panel \o cooling
    <3>1. inbox' = inbox \o <<show, apply>>
      BY <1>6, <2>5
    <3>2. Appends(<<show, apply>>, s)
      BY <1>3, <1>6, <2>1, <2>2, <3>1 DEF Appends
    <3>3. QED
      BY <1>1, <3>2
  <2>6. QED
    BY <1>2, <1>3, <2>3, <2>4, <2>5
<1>7. QED
  BY <1>4, <1>5, <1>6

\* The queue after a flush, its counterpart the write in flight with it.
LEMMA FlushTypes ==
    ASSUME QueueTypes, UNCHANGED <<pending, pc, current, touched>>, NEW s \in Program \cup {None},
           NEW new, Appends(new, s)
    PROVE  QueueTypes' /\ sent' \in Program \cup {None}
<1>1. inbox' \in Seq(Command)
  BY DEF Appends, QueueTypes
<1>2. QED
  BY <1>1 DEF Appends, QueueTypes

\* A status is taken over, and the panel's row seeded with it.
LEMMA SeededType == ASSUME NewsTypes, WindowTypes, rung, SeedPanel PROVE picture' \in Picture
  BY DEF NewsTypes, WindowTypes, SeedPanel, Known

\* What is adopted is a program.
LEMMA AdoptTypes ==
    ASSUME NewsTypes, WindowTypes, rung, NEW confirmed \in BOOLEAN, AdoptProgram(confirmed)
    PROVE  editor' \in Edited /\ {applied', committed'} \subseteq Program \cup {None}
<1>1. link.ran \in Program \cup {None}
  BY DEF NewsTypes, Known
<1>2. CASE link.ran # None /\ link.ran # committed /\ ~Editing
  <2>1. Adopt(link.ran) /\ committed' = link.ran
    BY <1>2 DEF AdoptProgram
  <2>2. editor' \in Edited
    BY <1>1, <1>2, <2>1 DEF Adopt, Edited, WindowTypes, Program
  <2>3. applied' \in {sent, link.ran}
    BY <1>2 DEF AdoptProgram
  <2>4. QED
    BY <1>1, <2>1, <2>2, <2>3 DEF WindowTypes
<1>3. CASE ~(link.ran # None /\ link.ran # committed /\ ~Editing)
  <2>1. UNCHANGED <<editor, committed>> /\ applied' \in {sent, applied}
    BY <1>3 DEF AdoptProgram
  <2>2. QED
    BY <2>1 DEF WindowTypes
<1>4. QED
  BY <1>2, <1>3

\* A gesture leaves what it holds in range.
LEMMA DragTypes ==
    ASSUME WindowTypes, NEW g, DragTo(g)
    PROVE  editor' \in Edited /\ picture' \in Picture
           /\ due' \in [Target -> {"no", "timed", "bare", "past"}]
<1> USE DEF WindowTypes
<1>1. CASE g = "duty" /\ UNCHANGED <<picture, due>>
           /\ \E f \in Fixed : editor' = [editor EXCEPT !.fixed = f]
  BY <1>1 DEF Edited
<1>2. CASE g = "node" /\ UNCHANGED picture
           /\ (\E c \in Curve : editor' = [editor EXCEPT !.mode = "curve", !.curve = c])
           /\ due' = [due EXCEPT !["cooling"] = "bare"]
  BY <1>2 DEF Edited
<1>3. CASE g = "brightness" /\ UNCHANGED <<editor, due>> /\ \E p \in Picture : picture' = p
  BY <1>3
<1>4. QED
  BY <1>1, <1>2, <1>3 DEF DragTo

\* The timers and the refresh of the window.
LEMMA WritingTypes ==
    ASSUME Types, UNCHANGED day, TimerFires \/ Passes \/ Refresh
    PROVE  Types'
<1> USE DEF Types
<1>1. CASE TimerFires
  <2>1. PICK S \in SUBSET Timed : Flush(S \cup Past, view, sent)
    BY <1>1 DEF TimerFires
  <2>2. UNCHANGED <<pending, pc, current, touched, session, line, published, korid, orphan, faults,
                    editor, applied, picture, seeded, view, committed, seen, drag, edits>>
    BY <1>1 DEF TimerFires
  <2>3. editor' \in Edited /\ picture' \in Picture
    BY <2>2 DEF WindowTypes
  <2>4. /\ due' \in [Target -> {"no", "timed", "bare", "past"}]
        /\ \E new : Appends(new, sent)
    BY <2>1, <2>3, FlushAppends DEF WindowTypes
  <2>5. QueueTypes' /\ sent' \in Program \cup {None}
    BY <2>2, <2>4, FlushTypes DEF WindowTypes
  <2>6. QED
    BY <2>2, <2>4, <2>5 DEF LineTypes, NewsTypes, WindowTypes, Counts, published
<1>2. CASE Passes
  <2>1. due' \in [Target -> {"no", "timed", "bare", "past"}]
    BY <1>2 DEF Passes, WindowTypes
  <2>2. QED
    BY <1>2, <2>1
    DEF Passes, feedVars, worker, published, QueueTypes, LineTypes, NewsTypes, WindowTypes, Counts
<1>3. CASE Refresh
  <2>1. rung /\ rung' = FALSE /\ AdoptProgram(SettlesCooling /\ outcome.severity = "confirmed") /\ SeedPanel
    BY <1>3 DEF Refresh
  <2>2. UNCHANGED <<pending, pc, current, touched, session, line, link, outcome, korid, orphan, faults,
                    drag, edits>>
    BY <1>3 DEF Refresh
  <2>3. picture' \in Picture
    BY <2>1, SeededType
  <2>4. editor' \in Edited /\ {applied', committed'} \subseteq Program \cup {None}
    BY <2>1, AdoptTypes
  <2> DEFINE s == IF SettlesCooling THEN None ELSE sent
  <2>5. PICK S \in SUBSET Timed : Flush(S \cup Past, link, s)
    BY <1>3 DEF Refresh
  <2>6. s \in Program \cup {None}
    BY DEF WindowTypes
  <2> HIDE DEF s
  <2>7. /\ due' \in [Target -> {"no", "timed", "bare", "past"}]
        /\ \E new : Appends(new, s)
    BY <2>3, <2>4, <2>5, FlushAppends DEF WindowTypes
  <2>8. QueueTypes' /\ sent' \in Program \cup {None}
    BY <2>2, <2>6, <2>7, FlushTypes
  <2>9. QED
    BY <2>1, <2>2, <2>3, <2>4, <2>7, <2>8 DEF LineTypes, NewsTypes, WindowTypes, Counts
<1>4. QED
  BY <1>1, <1>2, <1>3

\* The operator's hand.
LEMMA HandTypes ==
    ASSUME Types, UNCHANGED day, Edit \/ Move \/ Release
    PROVE  Types'
<1> USE DEF Types
<1>0. ASSUME UNCHANGED feedVars PROVE QueueTypes' /\ LineTypes' /\ NewsTypes' /\ faults' = faults
  BY <1>0 DEF feedVars, worker, published, QueueTypes, LineTypes, NewsTypes
<1>1. \A g : Does(g) => edits' \in 0..MaxEdits
  BY ClientAssumption DEF Does, Counts
<1>2. CASE EditCooling
  <2>1. editor' \in Edited /\ edits' \in 0..MaxEdits
    BY <1>1, <1>2 DEF EditCooling, Edited, WindowTypes
  <2>2. due' \in [Target -> {"no", "timed", "bare", "past"}]
    BY <1>2 DEF EditCooling, Schedule, WindowTypes, Target
  <2>3. QED
    BY <1>0, <1>2, <2>1, <2>2 DEF EditCooling, WindowTypes, Counts
<1>3. CASE EditPanel
  <2>1. picture' \in Picture /\ edits' \in 0..MaxEdits
    BY <1>1, <1>3 DEF EditPanel
  <2>2. due' \in [Target -> {"no", "timed", "bare", "past"}]
    BY <1>3 DEF EditPanel, Schedule, WindowTypes, Target
  <2>3. QED
    BY <1>0, <1>3, <2>1, <2>2 DEF EditPanel, WindowTypes, Counts
<1>4. CASE Press
  <2>1. PICK g \in {"duty", "node", "brightness"} : Does(g) /\ drag' = g /\ DragTo(g)
    BY <1>4 DEF Press
  <2>2. edits' \in 0..MaxEdits
    BY <1>1, <2>1
  <2>3. QED
    BY <1>0, <1>4, <2>1, <2>2, DragTypes DEF Press, WindowTypes, Counts
<1>5. CASE Activate
  <2>1. [kind |-> "activate", what |-> Stored] \in Command
    BY DEF Command
  <2>2. inbox' \in Seq(Command) /\ edits' \in 0..MaxEdits
    BY <1>1, <1>5, <2>1 DEF Activate, QueueTypes
  <2>3. QED
    BY <1>5, <2>2
    DEF Activate, QueueTypes, LineTypes, NewsTypes, WindowTypes, Counts, published, window
<1>6. CASE Revert
  <2>1. editor' \in Edited /\ edits' \in 0..MaxEdits
    BY <1>1, <1>6 DEF Revert, Edited, WindowTypes
  <2>2. due' \in [Target -> {"no", "timed", "bare", "past"}]
    BY <1>6 DEF Revert, Schedule, WindowTypes, Target
  <2>3. QED
    BY <1>0, <1>6, <2>1, <2>2 DEF Revert, WindowTypes, Counts
<1>7. CASE Move
  BY <1>0, <1>7, DragTypes DEF Move, WindowTypes, Counts
<1>8. CASE Release
  <2>1. due' \in [Target -> {"no", "timed", "bare", "past"}]
    BY <1>8 DEF Release, Schedule, WindowTypes, Target
  <2>2. QED
    BY <1>0, <1>8, <2>1 DEF Release, WindowTypes, Counts
<1>9. QED
  BY <1>2, <1>3, <1>4, <1>5, <1>6, <1>7, <1>8 DEF Edit

-----------------------------------------------------------------------------
(* The order of the connection.                                            *)

\* A command is not a question about the status.
LEMMA CommandKinds == ASSUME NEW c \in Command PROVE c.kind \in {"apply", "show", "activate"}
  BY DEF Command

\* A request that is added is the last, and has no answer yet.
LEMMA AskInOrder ==
    ASSUME Types, InOrder, NEW r \in Request, line' = Ask(r), UNCHANGED session,
           pc \in {"drain", "list"}, pc' \in {"ask", "list", "poll"},
           r.kind = "status" => pc' = "poll"
    PROVE  InOrder'
<1>1. CASE session = "broken"
  BY <1>1 DEF InOrder, Ask
<1>2. CASE session = "open"
  <2>1. line' = Append(line, [ask |-> r, answer |-> None])
    BY <1>2 DEF Ask
  <2>2. /\ Len(line') = Len(line) + 1
        /\ \A i \in DOMAIN line : line'[i] = line[i] /\ line[i].ask.kind # "status"
        /\ line'[Len(line) + 1] = [ask |-> r, answer |-> None]
        /\ DOMAIN line' = 1..Len(line) + 1
    BY <2>1 DEF Types, LineTypes, InOrder
  <2>3. ASSUME NEW i \in DOMAIN line'
        PROVE  /\ line'[i].ask.kind = "status" => i = Len(line') /\ pc' = "poll"
               /\ line'[i].answer # None => line'[i].answer.to = line'[i].ask.kind
    <3>1. CASE i \in DOMAIN line
      BY <2>2, <3>1 DEF InOrder
    <3>2. CASE i = Len(line) + 1
      BY <2>2, <3>2
    <3>3. QED
      BY <2>2, <3>1, <3>2 DEF Types, LineTypes
  <2>4. QED
    BY <1>2, <2>3 DEF InOrder
<1>3. QED
  BY <1>1, <1>2 DEF InOrder, Types, LineTypes

\* What is left of the line after an answer was read is in order too.
LEMMA RestInOrder ==
    ASSUME Types, InOrder, NEW got, line' = Rest(got), UNCHANGED session,
           pc \in {"ask", "list"}, pc' \in {"drain", "poll"}
    PROVE  InOrder' /\ \A i \in DOMAIN line' : line'[i].ask.kind # "status"
<1>1. \A i \in DOMAIN line : line[i].ask.kind # "status"
  BY DEF InOrder
<1>2. CASE line' = line
  BY <1>1, <1>2 DEF InOrder
<1>3. CASE line # <<>> /\ line' = Tail(line)
  <2>1. \A i \in DOMAIN line' : i + 1 \in DOMAIN line /\ line'[i] = line[i + 1]
    BY <1>3 DEF Types, LineTypes
  <2>2. session = "open"
    BY <1>3 DEF InOrder
  <2>3. QED
    BY <1>1, <2>1, <2>2 DEF InOrder
<1>4. CASE line = <<>> /\ line' = Tail(line)
  <2>1. line' = <<>>
    BY <1>4
  <2>2. QED
    BY <2>1 DEF InOrder
<1>5. QED
  BY <1>2, <1>3, <1>4 DEF Rest

\* A poll that is answered finds its own answer and leaves an empty line.
LEMMA PollEmpties ==
    ASSUME Types, InOrder, pc = "poll", NEW got, Reading(got), Fits(StatusAsked, got)
    PROVE  Rest(got) = <<>> /\ Len(line) = 1 /\ got = line[1].answer
<1>1. got # None /\ got.to = "status"
  BY DEF Fits, StatusAsked
<1>2. line # <<>> /\ got = line[1].answer
  BY <1>1 DEF Reading
<1>3. 1 \in DOMAIN line
  BY <1>2 DEF Types, LineTypes
<1>4. Len(line) = 1
  BY <1>1, <1>2, <1>3 DEF InOrder
<1>5. line \in Seq(Asked)
  BY DEF Types, LineTypes
<1>6. Tail(line) = <<>>
  <2>1. Tail(line) \in Seq(Asked) /\ Len(Tail(line)) = 0
    BY <1>2, <1>4, <1>5
  <2>2. \A q \in Seq(Asked) : Len(q) = 0 => q = <<>>
    OBVIOUS
  <2>3. QED
    BY <2>1, <2>2
<1>7. QED
  BY <1>1, <1>2, <1>4, <1>6 DEF Rest

\* The worker, through one stage of a cycle.
LEMMA WorkerInOrder == ASSUME Types, InOrder, WorkerStep PROVE InOrder'
<1>1. CASE Connects
  <2>1. \A i \in DOMAIN line : line[i].ask.kind # "status"
    BY <1>1 DEF Connects, InOrder
  <2>2. QED
    BY <1>1, <2>1 DEF Connects, InOrder
<1>2. CASE ConnectFails
  BY <1>2 DEF ConnectFails, InOrder
<1>3. CASE Drain
  <2>1. current' \in Command
    BY <1>3 DEF Drain, Types, QueueTypes
  <2>2. current' \in Request /\ current'.kind # "status"
    BY <2>1, CommandKinds DEF Request
  <2>3. QED
    BY <1>3, <2>2, AskInOrder DEF Drain
<1>4. CASE Drained
  <2>1. StatusAsked \in Request /\ ProfilesAsked \in Request /\ ProfilesAsked.kind # "status"
    BY DEF Request, ProfilesAsked
  <2>2. QED
    BY <1>4, <2>1, AskInOrder DEF Drained
<1>5. CASE CommandEnds
  BY <1>5, RestInOrder DEF CommandEnds
<1>6. CASE Listed
  <2>1. PICK got \in Readable :
            /\ Reading(got)
            /\ line' = IF session = "broken" THEN line
                       ELSE Append(Rest(got), [ask |-> StatusAsked, answer |-> None])
    BY <1>6 DEF Listed
  <2>2. CASE session = "broken"
    BY <1>6, <2>1, <2>2 DEF Listed, InOrder
  <2>3. CASE session = "open"
    <3> DEFINE rest == Rest(got)
    <3>1. rest \in Seq(Asked)
      BY RestType DEF Types, LineTypes
    <3>2. \A i \in DOMAIN rest : /\ rest[i].ask.kind # "status"
                                 /\ rest[i].answer # None => rest[i].answer.to = rest[i].ask.kind
      <4>1. \A i \in DOMAIN line : line[i].ask.kind # "status"
        BY <1>6 DEF Listed, InOrder
      <4>2. CASE rest = line
        BY <4>1, <4>2 DEF InOrder
      <4>3. CASE rest = Tail(line) /\ line # <<>>
        <5>1. \A i \in DOMAIN rest : i + 1 \in DOMAIN line /\ rest[i] = line[i + 1]
          BY <4>3 DEF Types, LineTypes
        <5>2. QED
          BY <4>1, <5>1 DEF InOrder
      <4>4. CASE line = <<>> /\ rest = Tail(line)
        BY <4>4
      <4>5. QED
        BY <4>2, <4>3, <4>4 DEF Rest
    <3> HIDE DEF rest
    <3>3. line' = Append(rest, [ask |-> StatusAsked, answer |-> None])
      BY <2>1, <2>3 DEF rest
    <3>4. /\ Len(line') = Len(rest) + 1 /\ DOMAIN line' = 1..Len(rest) + 1
          /\ \A i \in DOMAIN rest : line'[i] = rest[i]
          /\ line'[Len(rest) + 1] = [ask |-> StatusAsked, answer |-> None]
      BY <3>1, <3>3
    <3>5. ASSUME NEW i \in DOMAIN line'
          PROVE  /\ line'[i].ask.kind = "status" => i = Len(line')
                 /\ line'[i].answer # None => line'[i].answer.to = line'[i].ask.kind
      <4>1. CASE i \in DOMAIN rest
        BY <3>2, <3>4, <4>1
      <4>2. CASE i = Len(rest) + 1
        BY <3>4, <4>2
      <4>3. QED
        BY <3>1, <3>4, <4>1, <4>2
    <3>6. pc' = "poll" /\ session' = "open"
      BY <1>6, <2>3 DEF Listed
    <3>7. QED
      BY <3>5, <3>6 DEF InOrder
  <2>4. QED
    BY <1>6, <2>2, <2>3 DEF InOrder, Types, LineTypes, Listed
<1>7. CASE Poll
  BY <1>7, PollEmpties DEF Poll, InOrder
<1>8. CASE PollFails
  BY <1>8 DEF PollFails, DropSession, InOrder
<1>9. CASE Waits
  BY <1>9 DEF Waits, InOrder
<1>10. QED
  BY <1>1, <1>2, <1>3, <1>4, <1>5, <1>6, <1>7, <1>8, <1>9 DEF WorkerStep

\* The daemon answers what it was asked.
LEMMA DaemonInOrder == ASSUME Types, InOrder, DaemonStep PROVE InOrder'
<1>1. CASE Serve
  <2>1. PICK i \in 1..Len(line), severity \in Severity :
            line' = [line EXCEPT ![i].answer =
                    [to |-> line[i].ask.kind, severity |-> severity,
                     status |-> IF line[i].ask = StatusAsked THEN Status(korid) ELSE Down]]
    BY <1>1 DEF Serve
  <2>2. UNCHANGED <<pc, session>>
    BY <1>1 DEF Serve, worker
  <2>3. line \in Seq(Asked) /\ DOMAIN line = 1..Len(line) /\ line[i] \in Asked
    BY EntryType DEF Types, LineTypes
  <2>4. /\ DOMAIN line' = DOMAIN line /\ Len(line') = Len(line)
        /\ \A j \in DOMAIN line : j # i => line'[j] = line[j]
        /\ line'[i].ask = line[i].ask /\ line'[i].answer.to = line[i].ask.kind
    BY <2>1, <2>3 DEF Asked
  <2>5. line # <<>>
    BY <2>3
  <2>6. QED
    BY <2>2, <2>3, <2>4, <2>5 DEF InOrder
<1>2. CASE ServeOrphan \/ Sample \/ Start \/ Elsewhere
  BY <1>2 DEF ServeOrphan, Sample, Start, Elsewhere, InOrder, worker
<1>3. CASE Crash
  BY <1>3 DEF Crash, InOrder, worker
<1>4. QED
  BY <1>1, <1>2, <1>3 DEF DaemonStep

\* The window does not reach the connection.
LEMMA WindowInOrder == ASSUME InOrder, UNCHANGED <<pc, session, line>> PROVE InOrder'
  BY DEF InOrder
-----------------------------------------------------------------------------
(* One cooling write at a time.                                            *)

\* A session starts in order, with nothing written.
LEMMA InitBooks == Init => InOrder /\ Books
  BY DEF Init, FeedInit, ClientInit, InOrder, Books, OneApply, Awaited, Places, CommandAt, IsApply,
     SettlesCooling, News

\* What is on its way is not touched, nor what is known of it.
LEMMA BooksStay ==
    ASSUME Books, UNCHANGED <<inbox, pending, current, outcome, sent, seen, day>>
    PROVE  Books'
  BY DEF Books, OneApply, Awaited, Places, CommandAt, IsApply, SettlesCooling, News

\* Cooling writes that are on their way change places at most.
LEMMA BooksMove ==
    ASSUME Books, UNCHANGED <<outcome, sent, seen, day>>, NEW from,
           \A i \in Places' : IsApply(CommandAt(i))' =>
               from[i] \in Places /\ CommandAt(from[i]) = CommandAt(i)',
           \A i, j \in Places' : from[i] = from[j] => i = j
    PROVE  Books'
<1> SUFFICES ASSUME "revert" \notin day.habit PROVE OneApply' /\ Awaited'
  BY DEF Books
<1>1. OneApply /\ Awaited
  BY DEF Books
<1>2. \A i \in Places' : IsApply(CommandAt(i))' => from[i] \in Places /\ IsApply(CommandAt(from[i]))
  BY DEF IsApply
<1>3. OneApply'
  BY <1>1, <1>2 DEF OneApply
<1>4. SettlesCooling' = SettlesCooling
  BY DEF SettlesCooling, News
<1>5. Awaited'
  BY <1>1, <1>2, <1>4 DEF Awaited
<1>6. QED
  BY <1>3, <1>5

\* Draining the queue and ending the wait take the next command, and leave the rest in order.
LEMMA Taken ==
    ASSUME Types, Drain \/ Waits
    PROVE  \E from : /\ \A i \in Places' : CommandAt(i)' # None =>
                            from[i] \in Places /\ CommandAt(from[i]) = CommandAt(i)'
                     /\ \A i, j \in Places' : from[i] = from[j] => i = j
<1>0. inbox \in Seq(Command) /\ Len(inbox) \in Nat
  BY DEF Types, QueueTypes
<1>1. CASE inbox' = Tail(inbox) /\ inbox # <<>>
  <2>1. Len(inbox') = Len(inbox) - 1 /\ \A i \in 1..Len(inbox') : inbox'[i] = inbox[i + 1]
    BY <1>0, <1>1
  <2>2. CASE Drain
    <3> DEFINE from == [i \in Places' |-> IF i = -1 THEN 1 ELSE IF i = 0 THEN 0 ELSE i + 1]
    <3>1. pending' = None
      BY <2>2 DEF Drain
    <3>2. CASE current' = Head(inbox)
      <4>1. \A i \in Places' : CommandAt(i)' # None =>
                from[i] \in Places /\ CommandAt(from[i]) = CommandAt(i)'
        BY <1>0, <1>1, <2>1, <3>1, <3>2 DEF Places, CommandAt
      <4>2. \A i, j \in Places' : from[i] = from[j] => i = j
        BY <1>0, <2>1 DEF Places
      <4>3. QED
        BY <4>1, <4>2
    <3>3. CASE UNCHANGED inbox
      BY <1>0, <2>1, <3>3
    <3>4. QED
      BY <2>2, <3>2, <3>3 DEF Drain
  <2>3. CASE Waits
    <3> DEFINE from == [i \in Places' |-> IF i = -1 THEN -1 ELSE i + 1]
    <3>1. UNCHANGED current
      BY <2>3 DEF Waits
    <3>2. CASE pending' = Head(inbox)
      <4>1. \A i \in Places' : CommandAt(i)' # None =>
                from[i] \in Places /\ CommandAt(from[i]) = CommandAt(i)'
        BY <1>0, <1>1, <2>1, <3>1, <3>2 DEF Places, CommandAt
      <4>2. \A i, j \in Places' : from[i] = from[j] => i = j
        BY <1>0, <2>1 DEF Places
      <4>3. QED
        BY <4>1, <4>2
    <3>3. CASE UNCHANGED inbox
      BY <1>0, <2>1, <3>3
    <3>4. QED
      BY <2>3, <3>2, <3>3 DEF Waits
  <2>4. QED
    BY <2>2, <2>3
<1>2. CASE UNCHANGED inbox /\ Drain
  <2> DEFINE from == [i \in Places' |-> IF i = -1 THEN 0 ELSE IF i = 0 THEN -1 ELSE i]
  <2>1. current' = pending /\ pending' = None
    <3>1. inbox # <<>> => Len(inbox) # Len(Tail(inbox))
      BY <1>0
    <3>2. QED
      BY <1>2, <3>1 DEF Drain
  <2>2. \A i \in Places' : CommandAt(i)' # None => from[i] \in Places /\ CommandAt(from[i]) = CommandAt(i)'
    BY <1>0, <1>2, <2>1 DEF Places, CommandAt
  <2>3. \A i, j \in Places' : from[i] = from[j] => i = j
    BY <1>0, <1>2 DEF Places
  <2>4. QED
    BY <2>2, <2>3
<1>3. CASE UNCHANGED inbox /\ Waits
  <2> DEFINE from == [i \in Places' |-> i]
  <2>1. pending' = None /\ UNCHANGED current
    <3>1. inbox # <<>> => Len(inbox) # Len(Tail(inbox))
      BY <1>0
    <3>2. QED
      BY <1>3, <3>1 DEF Waits
  <2>2. \A i \in Places' : CommandAt(i)' # None => from[i] \in Places /\ CommandAt(from[i]) = CommandAt(i)'
    BY <1>3, <2>1 DEF Places, CommandAt
  <2>3. \A i, j \in Places' : from[i] = from[j] => i = j
    OBVIOUS
  <2>4. QED
    BY <2>2, <2>3
<1>4. QED
  BY <1>1, <1>2, <1>3 DEF Drain, Waits

\* The end of a command: it is on its way no more, and its outcome is published.
LEMMA Ended ==
    ASSUME Types, CommandEnds
    PROVE  /\ \A i \in Places' : /\ i \in Places
                                 /\ CommandAt(i)' # None => i # -1 /\ CommandAt(i)' = CommandAt(i)
           /\ -1 \in Places /\ CommandAt(-1) = current /\ current \in Command
           /\ SettlesCooling' => IsApply(current)
<1>1. UNCHANGED <<inbox, pending>> /\ current' = None
  BY DEF CommandEnds
<1>2. inbox \in Seq(Command) /\ Len(inbox) \in Nat /\ current \in Command
  BY DEF CommandEnds, Types, QueueTypes
<1>3. \A i \in Places' : i \in Places /\ (CommandAt(i)' # None => i # -1 /\ CommandAt(i)' = CommandAt(i))
  BY <1>1 DEF Places, CommandAt
<1>4. outcome'.subject = Subject(current)
  <2>1. PICK got : outcome' = Report(got)
    BY DEF CommandEnds
  <2>2. Report(got).subject = Subject(current)
    BY DEF Report
  <2>3. QED
    BY <2>1, <2>2
<1>5. current.kind # "apply" => Subject(current) # "cooling"
  BY <1>2, CommandKinds DEF Subject
<1>6. SettlesCooling' => IsApply(current)
  BY <1>2, <1>4, <1>5, FeedAssumption DEF SettlesCooling, IsApply
<1>7. QED
  BY <1>2, <1>3, <1>6 DEF Places, CommandAt

\* The worker takes what is next, and only the end of a cooling write is an outcome of one.
LEMMA WorkerBooks == ASSUME Types, Books, WorkerStep, UNCHANGED <<window, day>> PROVE Books'
<1>0. UNCHANGED <<sent, seen, day>>
  BY DEF window
<1>1. CASE Connects \/ ConnectFails \/ Drained \/ Listed \/ Poll \/ PollFails
  BY <1>0, <1>1, BooksStay DEF Connects, ConnectFails, Drained, Listed, Poll, PollFails, published
<1>2. CASE Drain \/ Waits
  <2>1. UNCHANGED outcome
    BY <1>2 DEF Drain, Waits, published
  <2>2. PICK from : /\ \A i \in Places' : CommandAt(i)' # None =>
                            from[i] \in Places /\ CommandAt(from[i]) = CommandAt(i)'
                    /\ \A i, j \in Places' : from[i] = from[j] => i = j
    BY <1>2, Taken
  <2>3. \A i \in Places' : IsApply(CommandAt(i))' => from[i] \in Places /\ CommandAt(from[i]) = CommandAt(i)'
    BY <2>2 DEF IsApply
  <2>4. QED
    BY <1>0, <2>1, <2>2, <2>3, BooksMove
<1>3. CASE CommandEnds
  <2>1. \A i \in Places' : IsApply(CommandAt(i))' => i \in Places /\ i # -1 /\ IsApply(CommandAt(i))
    BY <1>3, Ended DEF IsApply
  <2>2. -1 \in Places /\ CommandAt(-1) = current /\ (SettlesCooling' => IsApply(current))
    BY <1>3, Ended
  <2>3. ASSUME OneApply /\ Awaited PROVE OneApply' /\ Awaited'
    <3>1. OneApply'
      BY <2>1, <2>3 DEF OneApply
    <3>2. Awaited'
      BY <1>0, <2>1, <2>2, <2>3 DEF Awaited, OneApply
    <3>3. QED
      BY <3>1, <3>2
  <2>4. QED
    BY <1>0, <2>3 DEF Books
<1>4. QED
  BY <1>1, <1>2, <1>3 DEF WorkerStep

\* The queue after a flush: what was on its way, and behind it what was written.
LEMMA FlushedPlaces ==
    ASSUME QueueTypes, UNCHANGED <<pending, current>>, NEW new, NEW s, Appends(new, s)
    PROVE  /\ Len(inbox) \in Nat /\ Len(inbox') = Len(inbox) + Len(new) /\ Len(new) \in Nat
           /\ Places \subseteq Places' /\ \A i \in Places : CommandAt(i)' = CommandAt(i)
           /\ \A i \in Places' \ Places : i - Len(inbox) \in DOMAIN new
                                          /\ CommandAt(i)' = new[i - Len(inbox)]
           /\ \A k \in DOMAIN new : Len(inbox) + k \in Places' \ Places
<1>1. inbox \in Seq(Command) /\ new \in Seq(Command) /\ inbox' = inbox \o new
  BY DEF QueueTypes, Appends
<1>2. /\ Len(inbox) \in Nat /\ Len(new) \in Nat /\ Len(inbox') = Len(inbox) + Len(new)
      /\ DOMAIN new = 1..Len(new)
  BY <1>1
<1>3. /\ \A i \in 1..Len(inbox) : inbox'[i] = inbox[i]
      /\ \A i \in Len(inbox) + 1..Len(inbox') : inbox'[i] = new[i - Len(inbox)]
  BY <1>1, <1>2
<1>4. QED
  BY <1>2, <1>3 DEF Places, CommandAt

\* A flush writes the cooling program only when none is on its way.
LEMMA FlushBooks ==
    ASSUME QueueTypes, UNCHANGED <<pending, current>>, NEW s \in Program \cup {None}, NEW new,
           Appends(new, s), OneApply, \A i \in Places : IsApply(CommandAt(i)) => s # None
    PROVE  OneApply' /\ \A i \in Places' : IsApply(CommandAt(i))' => sent' # None
<1>1. CASE sent' = s /\ \A i \in DOMAIN new : new[i].kind # "apply"
  <2>1. \A i \in Places' : IsApply(CommandAt(i))' => i \in Places /\ IsApply(CommandAt(i))
    BY <1>1, FlushedPlaces DEF IsApply
  <2>2. QED
    BY <1>1, <2>1 DEF OneApply
<1>2. CASE /\ s = None /\ sent' \in Program
           /\ \E k \in DOMAIN new : \A i \in DOMAIN new : new[i].kind = "apply" => i = k
  <2>1. PICK k \in DOMAIN new : \A i \in DOMAIN new : new[i].kind = "apply" => i = k
    BY <1>2
  <2>2. \A i \in Places' : IsApply(CommandAt(i))' => i - Len(inbox) = k /\ i \in Int
    <3>1. \A i \in Places' : IsApply(CommandAt(i))' => i \notin Places
      BY <1>2, FlushedPlaces DEF IsApply
    <3>2. \A i \in Places' : i \in Int
      BY DEF Places
    <3>3. QED
      BY <2>1, <3>1, <3>2, FlushedPlaces DEF IsApply
  <2>3. OneApply'
    BY <2>2, FlushedPlaces DEF OneApply
  <2>4. QED
    BY <1>2, <2>3, FeedAssumption
<1>3. QED
  BY <1>1, <1>2 DEF Appends

\* The timers and the refresh of the window.
LEMMA WritingBooks ==
    ASSUME Types, Books, UNCHANGED day, TimerFires \/ Passes \/ Refresh
    PROVE  Books'
<1> SUFFICES ASSUME "revert" \notin day.habit PROVE OneApply' /\ Awaited'
  BY DEF Books
<1>0. OneApply /\ Awaited /\ QueueTypes /\ sent \in Program \cup {None}
      /\ due \in [Target -> {"no", "timed", "bare", "past"}]
  BY DEF Books, Types, WindowTypes
<1>1. CASE TimerFires
  <2>1. PICK S \in SUBSET Timed : Flush(S \cup Past, view, sent)
    BY <1>1 DEF TimerFires
  <2>2. UNCHANGED <<pending, current, outcome, editor, picture, seen>>
    BY <1>1 DEF TimerFires, published
  <2>3. editor' \in Edited /\ picture' \in Picture
    BY <2>2 DEF Types, WindowTypes
  <2>4. PICK new : Appends(new, sent)
    BY <1>0, <2>1, <2>3, FlushAppends
  <2>5. OneApply' /\ \A i \in Places' : IsApply(CommandAt(i))' => sent' # None
    BY <1>0, <2>2, <2>4, FlushBooks DEF Awaited
  <2>6. SettlesCooling' = SettlesCooling
    BY <2>2 DEF SettlesCooling, News
  <2>7. CASE SettlesCooling
    <3>1. sent # None /\ \A i \in Places : ~IsApply(CommandAt(i))
      BY <1>0, <2>7 DEF Awaited
    <3>2. sent' = sent /\ \A i \in DOMAIN new : new[i].kind # "apply"
      BY <2>4, <3>1 DEF Appends
    <3>3. \A i \in Places' : ~IsApply(CommandAt(i))'
      BY <1>0, <2>2, <2>4, <3>1, <3>2, FlushedPlaces DEF IsApply
    <3>4. QED
      BY <2>5, <2>6, <3>1, <3>2, <3>3 DEF Awaited
  <2>8. CASE ~SettlesCooling
    BY <2>5, <2>6, <2>8 DEF Awaited
  <2>9. QED
    BY <2>7, <2>8
<1>2. CASE Passes
  BY <1>2, BooksStay DEF Passes, feedVars, worker, published, Books
<1>3. CASE Refresh
  <2> DEFINE s == IF SettlesCooling THEN None ELSE sent
  <2>1. PICK S \in SUBSET Timed : Flush(S \cup Past, link, s)
    BY <1>3 DEF Refresh
  <2>2. UNCHANGED <<pending, current, outcome>> /\ seen' = IF News THEN outcome.seq ELSE seen
    BY <1>3 DEF Refresh
  <2>3. editor' \in Edited /\ picture' \in Picture
    BY <1>3, WritingTypes DEF Types, WindowTypes
  <2>4. s \in Program \cup {None} /\ \A i \in Places : IsApply(CommandAt(i)) => s # None
    BY <1>0 DEF Awaited
  <2> HIDE DEF s
  <2>5. PICK new : Appends(new, s)
    BY <1>0, <2>1, <2>3, FlushAppends
  <2>6. OneApply' /\ \A i \in Places' : IsApply(CommandAt(i))' => sent' # None
    BY <1>0, <2>2, <2>4, <2>5, FlushBooks
  <2>7. ~SettlesCooling'
    BY <2>2 DEF SettlesCooling, News
  <2>8. QED
    BY <2>6, <2>7 DEF Awaited
<1>4. QED
  BY <1>1, <1>2, <1>3

\* The operator's hand writes nothing to the cooler, but for a revert, which gives up the guard.
LEMMA HandBooks == ASSUME Types, Books, UNCHANGED day, Edit \/ Move \/ Release PROVE Books'
<1>1. CASE Activate
  <2>1. UNCHANGED <<pending, current, outcome, sent, seen>>
        /\ inbox' = Append(inbox, [kind |-> "activate", what |-> Stored])
    BY <1>1 DEF Activate, published, window
  <2>2. inbox \in Seq(Command) /\ Len(inbox) \in Nat
    BY DEF Types, QueueTypes
  <2>3. /\ Len(inbox') = Len(inbox) + 1
        /\ \A i \in 1..Len(inbox) : inbox'[i] = inbox[i]
        /\ inbox'[Len(inbox) + 1] = [kind |-> "activate", what |-> Stored]
    BY <2>1, <2>2
  <2> DEFINE from == [i \in Places' |-> i]
  <2>4. \A i \in Places' : IsApply(CommandAt(i))' => from[i] \in Places /\ CommandAt(from[i]) = CommandAt(i)'
    BY <2>1, <2>2, <2>3 DEF Places, CommandAt, IsApply
  <2>5. \A i, j \in Places' : from[i] = from[j] => i = j
    OBVIOUS
  <2> HIDE DEF from
  <2>6. QED
    BY <2>1, <2>4, <2>5, BooksMove
<1>2. CASE Revert
  BY <1>2 DEF Revert, Does, Books
<1>3. CASE EditCooling \/ EditPanel \/ Press \/ Move \/ Release
  BY <1>3, BooksStay DEF EditCooling, EditPanel, Press, Move, Release, feedVars, worker, published
<1>4. QED
  BY <1>1, <1>2, <1>3 DEF Edit

\* The window and its worker keep their books: at most one cooling write is on its way,
\* it is the one the window waits for, and every answer on the connection is to its request.
THEOREM Inductive == Spec => []IInv
<1>1. Init => IInv
  BY InitTypes, InitBooks DEF IInv
<1>2. IInv /\ [Next]_vars => IInv'
  <2> SUFFICES ASSUME IInv, [Next]_vars PROVE IInv'
    OBVIOUS
  <2> USE DEF IInv
  <2>1. CASE Worker /\ UNCHANGED day
    BY <2>1, WorkerTypes, WorkerInOrder, WorkerBooks DEF Worker
  <2>2. CASE Daemon /\ UNCHANGED day
    <3>1. UNCHANGED <<inbox, pending, current, outcome, sent, seen>>
      BY <2>2 DEF Daemon, DaemonStep, Serve, ServeOrphan, Sample, Crash, Start, Elsewhere, worker, published,
         window
    <3>2. QED
      BY <2>2, <3>1, DaemonTypes, DaemonInOrder, BooksStay DEF Daemon
  <2>3. CASE (TimerFires \/ Passes \/ Refresh) /\ UNCHANGED day
    <3>1. UNCHANGED <<pc, session, line>>
      BY <2>3 DEF TimerFires, Passes, Refresh, feedVars, worker
    <3>2. QED
      BY <2>3, <3>1, WritingTypes, WindowInOrder, WritingBooks
  <2>4. CASE (Edit \/ Move \/ Release) /\ UNCHANGED day
    <3>1. UNCHANGED <<pc, session, line>>
      BY <2>4 DEF Edit, EditCooling, EditPanel, Press, Activate, Revert, Move, Release, feedVars, worker
    <3>2. QED
      BY <2>4, <3>1, HandTypes, WindowInOrder, HandBooks
  <2>5. CASE UNCHANGED vars
    BY <2>5, BooksStay DEF vars, moving, feedVars, worker, published, window, Types, QueueTypes, LineTypes,
       NewsTypes, WindowTypes, Counts, InOrder
  <2>6. QED
    BY <2>1, <2>2, <2>3, <2>4, <2>5 DEF Next, Step
<1>3. QED
  BY <1>1, <1>2, PTL DEF Spec

\* The client keeps its own books: one cooling write at a time, and a status taken from
\* the connection is never the answer to an earlier poll.
THEOREM BooksAreKept == Spec => []OneAtATime
<1>1. IInv => OneAtATime
  BY TypesAreOK DEF IInv, Books, OneApply, InOrder, OneAtATime, OneCoolingWrite, StatusIsOwn
<1>2. QED
  BY <1>1, Inductive, PTL

-----------------------------------------------------------------------------
(* What the screen shows, when nothing else writes.                        *)

\* Refusals are all that goes wrong then, and a write in flight is not given up.
LEMMA CalmDay ==
    ASSUME NothingElseWrites, Books
    PROVE  /\ \A f : May(f) => f = "refuse"
           /\ OneApply /\ Awaited /\ "activate" \notin day.habit /\ "revert" \notin day.habit
  BY DEF NothingElseWrites, May, Books

\* A session starts with the daemon on record, and nothing applied by this client.
LEMMA InitRecords == Init => Records
<1> SUFFICES ASSUME Init PROVE Records
  OBVIOUS
<1>1. \A i \in Places : CommandAt(i) = None
  BY DEF Init, FeedInit, Places, CommandAt
<1>2. ~SettlesCooling /\ ~Landed
  BY DEF Init, FeedInit, SettlesCooling, News, Landed
<1>3. Agree
  BY DEF Init, FeedInit, ClientInit, Agree
<1>4. QED
  BY <1>1, <1>2, <1>3 DEF Init, FeedInit, ClientInit, Records, OneRequest, Serving, OwnWrites, StatusIsNew,
     RecordIsGood

\* A request is the only one of its connection.
LEMMA AskedAlone ==
    ASSUME Types, InOrder, OneRequest, Serving, pc = "drain", NEW r, line' = Ask(r)
    PROVE  Len(line') = 1 /\ line'[1] = [ask |-> r, answer |-> None]
<1>1. session = "open" /\ line = <<>>
  BY DEF InOrder, OneRequest, Serving, Types, LineTypes
<1>2. line' = <<[ask |-> r, answer |-> None]>>
  BY <1>1 DEF Ask
<1>3. QED
  BY <1>2

\* What the worker reads is the answer to the request it waits on, and all there is.
LEMMA ReadAlone ==
    ASSUME Types, InOrder, Books, NothingElseWrites, OneRequest, Serving, pc \in {"ask", "list", "poll"},
           NEW got, Reading(got)
    PROVE  /\ got # None /\ got = line[1].answer /\ got.to = Awaits.kind
           /\ Rest(got) = <<>>
<1>1. Len(line) = 1 /\ line[1].ask = Awaits /\ line \in Seq(Asked) /\ 1 \in DOMAIN line
  BY DEF OneRequest, Types, LineTypes
<1>2. line # <<>> /\ line[1].answer # None /\ got = line[1].answer
  BY CalmDay DEF Reading, Serving
<1>3. got.to = Awaits.kind
  BY <1>1, <1>2 DEF InOrder
<1>4. Tail(line) = <<>>
  <2>1. Tail(line) \in Seq(Asked) /\ Len(Tail(line)) = 0
    BY <1>1, <1>2
  <2>2. \A q \in Seq(Asked) : Len(q) = 0 => q = <<>>
    OBVIOUS
  <2>3. QED
    BY <2>1, <2>2
<1>5. QED
  BY <1>2, <1>3, <1>4 DEF Rest

\* Nothing that the record of the applied program depends on is touched.
LEMMA RecordStays ==
    ASSUME RecordIsGood, UNCHANGED <<outcome, sent, seen, applied, committed>>,
           korid'.ran = korid.ran, korid'.device = korid.device, Landed' = Landed,
           StillOpen' => StillOpen
    PROVE  RecordIsGood'
  BY DEF RecordIsGood, Agree

\* Commands that are on their way change places at most.
LEMMA WritesMove ==
    ASSUME OwnWrites, UNCHANGED <<outcome, sent, seen>>, NEW from,
           \A i \in Places' : CommandAt(i)' # None =>
               from[i] \in Places /\ CommandAt(from[i]) = CommandAt(i)'
    PROVE  OwnWrites' /\ (StillOpen' => StillOpen)
<1>1. OwnWrites'
  BY DEF OwnWrites
<1>2. \A i \in Places' : IsApply(CommandAt(i))' => from[i] \in Places /\ IsApply(CommandAt(from[i]))
  BY DEF IsApply
<1>3. SettlesCooling' = SettlesCooling
  BY DEF SettlesCooling, News
<1>4. QED
  BY <1>1, <1>2, <1>3 DEF StillOpen

\* Nothing is done to the commands on their way.
LEMMA WritesStay ==
    ASSUME OwnWrites, UNCHANGED <<inbox, pending, current, outcome, sent, seen>>
    PROVE  OwnWrites' /\ StillOpen' = StillOpen /\ SettlesCooling' = SettlesCooling
  BY DEF OwnWrites, StillOpen, Places, CommandAt, IsApply, SettlesCooling, News

\* The worker, through one stage of a cycle.
LEMMA WorkerRecords ==
    ASSUME Types, InOrder, Books, NothingElseWrites, Records, WorkerStep, UNCHANGED <<window, edits, day>>
    PROVE  Records'
<1> USE DEF Records
<1>0. UNCHANGED <<applied, committed, sent, seen>>
  BY DEF window
<1>1. Types' /\ InOrder' /\ OneApply /\ Awaited
  BY WorkerTypes, WorkerInOrder, CalmDay
<1>2. CASE Connects
  <2>1. /\ UNCHANGED <<inbox, pending, current, outcome, link, rung, line, korid, orphan>>
        /\ pc = "top" /\ pc' = "drain"
    BY <1>2 DEF Connects, published
  <2>2. OwnWrites' /\ StillOpen' = StillOpen /\ SettlesCooling' = SettlesCooling
    BY <1>0, <2>1, WritesStay
  <2>3. RecordIsGood'
    BY <1>0, <2>1, <2>2, RecordStays DEF Landed
  <2>4. Serving' /\ OneRequest' /\ StatusIsNew'
    BY <1>0, <1>2, <2>1 DEF Connects, Serving, OneRequest, StatusIsNew
  <2>5. QED
    BY <2>2, <2>3, <2>4
<1>3. CASE ConnectFails
  BY <1>3, CalmDay DEF ConnectFails, Serving
<1>4. CASE Drain
  <2>1. /\ UNCHANGED <<outcome, link, rung, korid, orphan, session>> /\ pc = "drain" /\ pc' = "ask"
        /\ line' = Ask(current')
    BY <1>4 DEF Drain, published
  <2>2. Len(line') = 1 /\ line'[1] = [ask |-> current', answer |-> None]
    BY <2>1, AskedAlone
  <2>3. OwnWrites' /\ (StillOpen' => StillOpen)
    BY <1>0, <1>4, <2>1, Taken, WritesMove
  <2>4. Landed' = Landed
    BY <1>0, <2>1, <2>2 DEF Landed, SettlesCooling, News
  <2>5. RecordIsGood'
    BY <1>0, <2>1, <2>3, <2>4, RecordStays
  <2>6. Serving' /\ OneRequest' /\ StatusIsNew'
    BY <1>0, <2>1, <2>2 DEF Serving, OneRequest, Awaits, StatusIsNew
  <2>7. QED
    BY <2>3, <2>5, <2>6
<1>5. CASE Drained
  <2>1. /\ UNCHANGED <<inbox, pending, current, outcome, link, rung, korid, orphan, session>>
        /\ pc = "drain" /\ pc' = IF touched THEN "list" ELSE "poll"
        /\ line' = Ask(IF touched THEN ProfilesAsked ELSE StatusAsked)
    BY <1>5 DEF Drained, published
  <2>2. Len(line') = 1 /\ line'[1] = [ask |-> IF touched THEN ProfilesAsked ELSE StatusAsked, answer |-> None]
    BY <2>1, AskedAlone
  <2>3. OwnWrites' /\ StillOpen' = StillOpen /\ SettlesCooling' = SettlesCooling
    BY <1>0, <2>1, WritesStay
  <2>4. RecordIsGood'
    BY <1>0, <2>1, <2>3, RecordStays DEF Landed
  <2>5. Serving' /\ OneRequest' /\ StatusIsNew'
    BY <1>0, <2>1, <2>2 DEF Serving, OneRequest, Awaits, StatusIsNew
  <2>6. QED
    BY <2>3, <2>4, <2>5
<1>6. CASE CommandEnds
  <2>1. PICK got \in Readable : Reading(got) /\ outcome' = Report(got) /\ line' = Rest(got)
    BY <1>6 DEF CommandEnds
  <2>2. UNCHANGED <<link, rung, korid, orphan, session>> /\ pc = "ask" /\ pc' = "drain"
    BY <1>6 DEF CommandEnds
  <2>3. got = line[1].answer /\ got # None /\ got.to = current.kind /\ line' = <<>>
    BY <2>1, <2>2, ReadAlone DEF Awaits
  <2>4. outcome'.severity = line[1].answer.severity
    BY <2>1, <2>3 DEF Report, Fits
  <2>5. OwnWrites'
    BY <1>0, <1>6, Ended DEF OwnWrites
  <2>6. SettlesCooling' => IsApply(current)
    BY <1>6, Ended
  <2>7. \A i \in Places' : IsApply(CommandAt(i))' => i \in Places /\ i # -1 /\ IsApply(CommandAt(i))
    BY <1>6, Ended DEF IsApply
  <2>8. -1 \in Places /\ CommandAt(-1) = current
    BY <1>6, Ended
  <2>9. Agree => Agree'
    BY <1>0, <2>2 DEF Agree
  <2>10. ASSUME IsApply(current) PROVE RecordIsGood'
    <3>1. sent # None /\ ~SettlesCooling /\ StillOpen
      BY <1>1, <2>8, <2>10 DEF Awaited, StillOpen
    <3>2. \A i \in Places' : ~IsApply(CommandAt(i))'
      BY <1>1, <2>7, <2>8, <2>10 DEF OneApply
    <3>3. Landed' => Landed
      BY <2>2, <2>3, <2>4, <2>10 DEF Landed
    <3>4. StillOpen' /\ ~Landed' => ~Landed
      BY <1>0, <2>2, <2>4, <3>1, <3>2 DEF StillOpen, Landed
    <3>5. QED
      BY <1>0, <2>2, <2>9, <3>1, <3>3, <3>4 DEF RecordIsGood
  <2>11. ASSUME ~IsApply(current) PROVE RecordIsGood'
    <3>1. ~Landed' /\ (StillOpen' => StillOpen /\ ~Landed)
      BY <1>0, <1>1, <2>2, <2>6, <2>7, <2>11 DEF StillOpen, Landed, Awaited
    <3>2. QED
      BY <2>9, <3>1 DEF RecordIsGood
  <2>12. RecordIsGood'
    BY <2>10, <2>11
  <2>13. Serving' /\ OneRequest' /\ StatusIsNew'
    BY <1>0, <2>2, <2>3 DEF Serving, OneRequest, StatusIsNew
  <2>14. QED
    BY <2>5, <2>12, <2>13
<1>7. CASE Listed
  <2>1. PICK got \in Readable :
            /\ Reading(got)
            /\ line' = IF session = "broken" THEN line
                       ELSE Append(Rest(got), [ask |-> StatusAsked, answer |-> None])
    BY <1>7 DEF Listed
  <2>2. UNCHANGED <<inbox, pending, current, outcome, link, rung, korid, orphan, session>>
        /\ pc = "list" /\ pc' = "poll"
    BY <1>7 DEF Listed, published
  <2>3. Rest(got) = <<>>
    BY <2>1, <2>2, ReadAlone
  <2>4. line' = <<[ask |-> StatusAsked, answer |-> None]>>
    BY <2>1, <2>3 DEF Serving
  <2>5. OwnWrites' /\ StillOpen' = StillOpen /\ SettlesCooling' = SettlesCooling
    BY <1>0, <2>2, WritesStay
  <2>6. RecordIsGood'
    BY <1>0, <2>2, <2>5, RecordStays DEF Landed
  <2>7. Serving' /\ OneRequest' /\ StatusIsNew'
    BY <1>0, <2>2, <2>4 DEF Serving, OneRequest, Awaits, StatusIsNew
  <2>8. QED
    BY <2>5, <2>6, <2>7
<1>8. CASE Poll
  <2>1. PICK got \in Readable : Reading(got) /\ link' = got.status /\ line' = Rest(got)
    BY <1>8 DEF Poll
  <2>2. UNCHANGED <<inbox, pending, current, outcome, korid, orphan, session>> /\ pc = "poll" /\ pc' = "wait"
    BY <1>8 DEF Poll
  <2>3. link' = line[1].answer.status /\ line[1].answer # None /\ line' = <<>>
    BY <2>1, <2>2, ReadAlone
  <2>4. OwnWrites' /\ StillOpen' = StillOpen /\ SettlesCooling' = SettlesCooling
    BY <1>0, <2>2, WritesStay
  <2>5. RecordIsGood'
    BY <1>0, <2>2, <2>4, RecordStays DEF Landed
  <2>6. Serving' /\ OneRequest' /\ StatusIsNew'
    BY <2>2, <2>3 DEF Serving, OneRequest, StatusIsNew
  <2>7. QED
    BY <2>4, <2>5, <2>6
<1>9. CASE PollFails
  <2>1. PICK got \in Readable : Reading(got) /\ ~Fits(StatusAsked, got)
    BY <1>9 DEF PollFails
  <2>2. got # None /\ got.to = StatusAsked.kind
    BY <1>9, <2>1, ReadAlone DEF PollFails, Awaits
  <2>3. QED
    BY <2>1, <2>2 DEF Fits
<1>10. CASE Waits
  <2>1. UNCHANGED <<outcome, link, rung, line, korid, orphan, session>> /\ pc = "wait" /\ pc' = "top"
    BY <1>10 DEF Waits, published
  <2>2. OwnWrites' /\ (StillOpen' => StillOpen)
    BY <1>0, <1>10, <2>1, Taken, WritesMove
  <2>3. RecordIsGood'
    BY <1>0, <2>1, <2>2, RecordStays DEF Landed, SettlesCooling, News
  <2>4. Serving' /\ OneRequest' /\ StatusIsNew'
    BY <1>0, <2>1 DEF Serving, OneRequest, StatusIsNew
  <2>5. QED
    BY <2>2, <2>3, <2>4
<1>11. QED
  BY <1>2, <1>3, <1>4, <1>5, <1>6, <1>7, <1>8, <1>9, <1>10 DEF WorkerStep

\* The daemon, with nobody else to serve: it does what it confirms, and nothing else.
LEMMA DaemonRecords ==
    ASSUME Types, InOrder, Books, NothingElseWrites, Records, DaemonStep, UNCHANGED <<window, edits, day>>
    PROVE  Records'
<1> USE DEF Records
<1>0. UNCHANGED <<applied, committed, sent, seen>>
  BY DEF window
<1>1. OneApply /\ Awaited
  BY CalmDay
<1>2. CASE ServeOrphan \/ Crash \/ Start \/ Elsewhere
  BY <1>2, CalmDay DEF ServeOrphan, Crash, Start, Elsewhere, Serving
<1>3. CASE Sample
  <2>1. UNCHANGED <<inbox, pending, pc, current, outcome, link, rung, line, session, orphan>>
        /\ korid' = [korid EXCEPT !.reading = korid.device]
    BY <1>3 DEF Sample, worker, published
  <2>2. korid'.ran = korid.ran /\ korid'.device = korid.device /\ korid'.alive = korid.alive
    BY <2>1 DEF Types, LineTypes, Service
  <2>3. OwnWrites' /\ StillOpen' = StillOpen /\ SettlesCooling' = SettlesCooling
    BY <1>0, <2>1, WritesStay
  <2>4. RecordIsGood'
    BY <1>0, <2>1, <2>2, <2>3, RecordStays DEF Landed
  <2>5. Serving' /\ OneRequest' /\ StatusIsNew'
    BY <1>0, <2>1, <2>2 DEF Serving, OneRequest, Awaits, StatusIsNew
  <2>6. QED
    BY <2>3, <2>4, <2>5
<1>4. CASE Serve
  <2>1. UNCHANGED <<inbox, pending, pc, current, touched, outcome, link, rung, session, orphan>>
    BY <1>4 DEF Serve, worker, published
  <2>2. PICK i \in 1..Len(line), severity \in Severity :
            /\ line[i].answer = None /\ Handle(line[i].ask, severity)
            /\ line' = [line EXCEPT ![i].answer =
                    [to |-> line[i].ask.kind, severity |-> severity,
                     status |-> IF line[i].ask = StatusAsked THEN Status(korid) ELSE Down]]
    BY <1>4 DEF Serve
  <2>3. /\ line \in Seq(Asked) /\ i = 1 /\ Len(line) = 1 /\ line[1].ask = Awaits
        /\ pc \in {"ask", "list", "poll"}
    <3>1. line # <<>> /\ line \in Seq(Asked)
      BY DEF Types, LineTypes
    <3>2. pc \in {"ask", "list", "poll"} /\ Len(line) = 1 /\ line[1].ask = Awaits
      BY <3>1 DEF OneRequest
    <3>3. QED
      BY <3>1, <3>2
  <2> DEFINE answer == [to |-> Awaits.kind, severity |-> severity,
                        status |-> IF Awaits = StatusAsked THEN Status(korid) ELSE Down]
  <2>4. line[1] \in Asked /\ line[1].ask \in Request
    BY <2>3, EntryType
  <2>5. Len(line') = 1 /\ line'[1].ask = Awaits /\ line'[1].answer = answer
    BY <2>2, <2>3, <2>4 DEF Asked
  <2>6. answer # None
    <3>1. Awaits.kind \in {"apply", "show", "activate", "status", "profiles"}
      BY <2>3, <2>4 DEF Request, Command, StatusAsked, ProfilesAsked
    <3>2. Status(korid) \in Known /\ Down \in Known
      BY DEF Status, Down, Known, Types, LineTypes, Service
    <3>3. answer \in Answer
      BY <3>1, <3>2 DEF Answer
    <3>4. QED
      BY <3>3, FeedAssumption
  <2>7. OneRequest'
    BY <2>1, <2>3, <2>5 DEF OneRequest, Awaits
  <2>8. OwnWrites' /\ StillOpen' = StillOpen /\ SettlesCooling' = SettlesCooling
    BY <1>0, <2>1, WritesStay
  <2>9. \/ severity = "confirmed"
        \/ severity = "refused" /\ Awaits \in Command /\ UNCHANGED korid
    BY <2>2, <2>3, CalmDay DEF Handle
  <2>10. korid' \in Service /\ korid'.alive = korid.alive /\ Handle(Awaits, severity)
    <3>1. Handle(Awaits, severity)
      BY <2>2, <2>3
    <3>2. korid' \in Service
      BY <2>3, <2>4, <3>1, HandleTypes DEF Types, LineTypes, Counts
    <3>3. korid'.alive = korid.alive
      BY <3>1, <2>9 DEF Handle, Types, LineTypes, Service
    <3>4. QED
      BY <3>1, <3>2, <3>3
  <2> HIDE DEF answer
  <2>11. ASSUME pc = "ask" /\ IsApply(current)
         PROVE  Serving' /\ StatusIsNew' /\ RecordIsGood'
    <3>1. -1 \in Places /\ CommandAt(-1) = current
      BY DEF Places, CommandAt, Types, QueueTypes
    <3>2. sent # None /\ ~SettlesCooling /\ StillOpen /\ current.what = sent /\ Awaits = current
      BY <1>1, <2>11, <3>1 DEF Awaited, StillOpen, OwnWrites, IsApply, Awaits
    <3>3. CASE severity = "confirmed"
      <4>1. korid'.ran = sent /\ korid'.device = sent
        BY <2>10, <2>11, <3>2, <3>3 DEF Handle, IsApply, Types, LineTypes, Service
      <4>2. Landed'
        BY <2>1, <2>5, <2>6, <2>11, <3>3 DEF Landed, IsApply, answer
      <4>3. QED
        BY <1>0, <2>1, <2>10, <2>11, <3>2, <4>1, <4>2 DEF Serving, StatusIsNew, RecordIsGood
    <3>4. CASE severity = "refused" /\ UNCHANGED korid
      <4>1. ~Landed
        BY <2>2, <2>3, <3>2 DEF Landed
      <4>2. ~Landed'
        BY <2>1, <2>5, <2>8, <3>2, <3>4 DEF Landed, answer
      <4>3. RecordIsGood'
        BY <1>0, <2>8, <3>2, <3>4, <4>1, <4>2 DEF RecordIsGood, Agree
      <4>4. QED
        BY <1>0, <2>1, <2>11, <3>2, <3>4, <4>3 DEF Serving, StatusIsNew
    <3>5. QED
      BY <2>9, <3>3, <3>4
  <2>12. ASSUME ~(pc = "ask" /\ IsApply(current))
         PROVE  Serving' /\ StatusIsNew' /\ RecordIsGood'
    <3>1. Awaits.kind \notin {"apply", "activate"}
      <4>1. CASE pc = "ask"
        <5>1. current \in Command /\ -1 \in Places /\ CommandAt(-1) = current
          BY <4>1 DEF Places, CommandAt, Types, QueueTypes
        <5>2. current.kind \in {"apply", "show"} /\ current # None
          BY <5>1, FeedAssumption DEF OwnWrites
        <5>3. QED
          BY <2>12, <4>1, <5>2 DEF IsApply, Awaits
      <4>2. CASE pc # "ask"
        BY <4>2 DEF Awaits, StatusAsked, ProfilesAsked
      <4>3. QED
        BY <4>1, <4>2
    <3>2. korid'.ran = korid.ran /\ korid'.device = korid.device
      BY <2>9, <2>10, <3>1 DEF Handle, Types, LineTypes, Service
    <3>3. Landed' = Landed
      BY <2>1, <2>8, <2>12, <1>0 DEF Landed
    <3>4. RecordIsGood'
      BY <1>0, <2>1, <2>8, <3>2, <3>3, RecordStays
    <3>5. pc = "poll" => answer.status.ran = korid.ran
      BY DEF Awaits, answer, Status
    <3>6. StatusIsNew'
      BY <1>0, <2>1, <2>5, <3>2, <3>5 DEF StatusIsNew
    <3>7. Serving'
      BY <2>1, <2>10, <3>2 DEF Serving
    <3>8. QED
      BY <3>4, <3>6, <3>7
  <2>13. QED
    BY <2>7, <2>8, <2>11, <2>12
<1>5. QED
  BY <1>2, <1>3, <1>4 DEF DaemonStep

\* What a flush leaves on its way is still the program in flight.
LEMMA FlushWrites ==
    ASSUME QueueTypes, UNCHANGED <<pending, current>>, NEW s, NEW new, Appends(new, s), OwnWrites,
           \A i \in Places : IsApply(CommandAt(i)) => s # None /\ s = sent
    PROVE  OwnWrites'
<1> SUFFICES ASSUME NEW i \in Places', CommandAt(i)' # None
             PROVE  /\ CommandAt(i)'.kind \in {"apply", "show"}
                    /\ CommandAt(i)'.kind = "apply" => CommandAt(i)'.what = sent'
  BY DEF OwnWrites
<1>1. CASE i \in Places
  <2>1. CommandAt(i)' = CommandAt(i)
    BY <1>1, FlushedPlaces
  <2>2. CommandAt(i).kind = "apply" => s # None /\ s = sent
    BY <1>1, <2>1 DEF IsApply
  <2>3. s # None => sent' = s
    BY DEF Appends
  <2>4. QED
    BY <1>1, <2>1, <2>2, <2>3 DEF OwnWrites
<1>2. CASE i \notin Places
  <2>1. i - Len(inbox) \in DOMAIN new /\ CommandAt(i)' = new[i - Len(inbox)]
    BY <1>2, FlushedPlaces
  <2>2. QED
    BY <2>1 DEF Appends
<1>3. QED
  BY <1>1, <1>2

\* A flush with a write in flight appends none.
LEMMA FlushKeeps ==
    ASSUME QueueTypes, UNCHANGED <<pending, current>>, NEW s, NEW new, Appends(new, s), s # None
    PROVE  sent' = s /\ \A i \in Places' : IsApply(CommandAt(i))' => i \in Places /\ IsApply(CommandAt(i))
<1>1. sent' = s /\ \A i \in DOMAIN new : new[i].kind # "apply"
  BY DEF Appends
<1>2. QED
  BY <1>1, FlushedPlaces DEF IsApply

\* The timers and the refresh of the window.
LEMMA WritingRecords ==
    ASSUME Types, Books, NothingElseWrites, Records, UNCHANGED day, TimerFires \/ Passes \/ Refresh
    PROVE  Records'
<1> USE DEF Records
<1>0. OneApply /\ Awaited /\ QueueTypes /\ sent \in Program \cup {None}
      /\ due \in [Target -> {"no", "timed", "bare", "past"}] /\ None \notin Program
  BY CalmDay, FeedAssumption DEF Types, WindowTypes
<1>1. CASE TimerFires
  <2>1. PICK S \in SUBSET Timed : Flush(S \cup Past, view, sent)
    BY <1>1 DEF TimerFires
  <2>2. UNCHANGED <<pending, pc, current, outcome, link, rung, session, line, korid, orphan, editor, picture,
                    applied, committed, seen>>
    BY <1>1 DEF TimerFires, published
  <2>3. editor' \in Edited /\ picture' \in Picture
    BY <2>2 DEF Types, WindowTypes
  <2>4. PICK new : Appends(new, sent)
    BY <1>0, <2>1, <2>3, FlushAppends
  <2>5. OwnWrites'
    BY <1>0, <2>2, <2>4, FlushWrites DEF Awaited
  <2>6. SettlesCooling' = SettlesCooling /\ Landed' = Landed
    BY <2>2 DEF SettlesCooling, News, Landed
  <2>7. sent # None => sent' = sent
    BY <2>4 DEF Appends
  <2>8. StillOpen' => StillOpen
    <3>1. ASSUME sent # None, \E i \in Places' : IsApply(CommandAt(i))'
          PROVE  \E i \in Places : IsApply(CommandAt(i))
      BY <1>0, <2>2, <2>4, <3>1, FlushKeeps
    <3>2. QED
      BY <2>6, <2>7, <3>1 DEF StillOpen
  <2>9. Landed => sent # None
    <3>1. -1 \in Places /\ CommandAt(-1) = current
      BY <1>0 DEF Places, CommandAt, QueueTypes
    <3>2. QED
      BY <1>0, <3>1 DEF Landed, Awaited
  <2>10. RecordIsGood'
    BY <2>2, <2>6, <2>7, <2>8, <2>9 DEF RecordIsGood, Agree
  <2>11. sent' = None => sent = None
    BY <2>7
  <2>12. Serving' /\ OneRequest' /\ StatusIsNew'
    BY <2>2, <2>11 DEF Serving, OneRequest, Awaits, StatusIsNew
  <2>13. QED
    BY <2>5, <2>10, <2>12
<1>2. CASE Passes
  <2>1. UNCHANGED <<inbox, pending, pc, current, outcome, link, rung, session, line, korid, orphan, applied,
                    committed, sent, seen>>
    BY <1>2 DEF Passes, feedVars, worker, published
  <2>2. OwnWrites' /\ StillOpen' = StillOpen /\ SettlesCooling' = SettlesCooling
    BY <2>1, WritesStay
  <2>3. RecordIsGood'
    BY <2>1, <2>2, RecordStays DEF Landed
  <2>4. QED
    BY <2>1, <2>2, <2>3 DEF Serving, OneRequest, Awaits, StatusIsNew
<1>3. CASE Refresh
  <2> DEFINE s == IF SettlesCooling THEN None ELSE sent
             confirmed == SettlesCooling /\ outcome.severity = "confirmed"
             taken == link.ran # None /\ link.ran # committed /\ ~Editing
  <2>1. PICK S \in SUBSET Timed : Flush(S \cup Past, link, s)
    BY <1>3 DEF Refresh
  <2>2. /\ UNCHANGED <<pending, pc, current, outcome, link, session, line, korid, orphan>>
        /\ rung /\ rung' = FALSE /\ seen' = IF News THEN outcome.seq ELSE seen
    BY <1>3 DEF Refresh
  <2>3. editor' \in Edited /\ picture' \in Picture
    BY <1>3, WritingTypes DEF Types, WindowTypes
  <2>4. PICK new : Appends(new, s)
    BY <1>0, <2>1, <2>3, FlushAppends
  <2>5. /\ applied' = IF confirmed /\ sent # None THEN sent ELSE IF taken THEN link.ran ELSE applied
        /\ committed' = IF taken THEN link.ran ELSE committed
    BY <1>3 DEF Refresh, AdoptProgram
  <2>6. ~SettlesCooling'
    BY <2>2 DEF SettlesCooling, News
  <2>7. \A i \in Places : IsApply(CommandAt(i)) => s # None /\ s = sent
    BY <1>0 DEF Awaited
  <2>8. OwnWrites'
    BY <1>0, <2>2, <2>4, <2>7, FlushWrites
  <2>9. taken => link.ran = korid.device
    BY <2>2 DEF Editing, StatusIsNew, Serving
  <2>10. -1 \in Places /\ CommandAt(-1) = current
    BY <1>0 DEF Places, CommandAt, QueueTypes
  <2>11. Landed' => IsApply(current) /\ Landed
    BY <2>2, <2>6 DEF Landed
  <2>12. Landed' => korid'.device = sent'
    <3> SUFFICES ASSUME Landed' PROVE korid.device = sent'
      BY <2>2
    <3>1. s # None /\ s = sent /\ korid.device = sent
      BY <2>7, <2>10, <2>11 DEF RecordIsGood
    <3> HIDE DEF s
    <3>2. sent' = sent
      BY <2>4, <3>1 DEF Appends
    <3>3. QED
      BY <3>1, <3>2
  <2>13. StillOpen' /\ ~Landed' => Agree'
    <3> SUFFICES ASSUME StillOpen', ~Landed' PROVE applied' = korid.device \/ korid.ran # committed'
      BY <2>2 DEF Agree
    <3>1. CASE confirmed
      <4>1. Landed /\ sent # None
        BY <1>0, <3>1 DEF Landed, Awaited
      <4>2. QED
        BY <2>5, <3>1, <4>1 DEF RecordIsGood
    <3>2. CASE ~confirmed /\ taken
      BY <2>5, <2>9, <3>2
    <3>3. CASE ~confirmed /\ ~taken
      <4>1. applied' = applied /\ committed' = committed
        BY <2>5, <3>3
      <4>2. StillOpen
        <5>1. CASE SettlesCooling \/ sent = None
          BY <5>1 DEF StillOpen
        <5>2. CASE ~SettlesCooling /\ sent # None
          <6>1. s = sent /\ s # None
            BY <5>2
          <6> HIDE DEF s
          <6>2. /\ sent' # None
                /\ \A i \in Places' : IsApply(CommandAt(i))' => i \in Places /\ IsApply(CommandAt(i))
            BY <1>0, <2>2, <2>4, <6>1, FlushKeeps
          <6>3. QED
            BY <2>6, <6>2 DEF StillOpen
        <5>3. QED
          BY <5>1, <5>2
      <4>3. ~Landed
        BY <2>2, <2>6, <3>3 DEF Landed
      <4>4. QED
        BY <4>1, <4>2, <4>3 DEF RecordIsGood, Agree
    <3>4. QED
      BY <3>1, <3>2, <3>3
  <2>14. RecordIsGood'
    BY <2>12, <2>13 DEF RecordIsGood
  <2>15. Serving' /\ OneRequest' /\ StatusIsNew'
    BY <2>2 DEF Serving, OneRequest, Awaits, StatusIsNew
  <2>16. QED
    BY <2>8, <2>14, <2>15
<1>4. QED
  BY <1>1, <1>2, <1>3

\* The operator's hand, which writes nothing by itself.
LEMMA HandRecords ==
    ASSUME Types, Books, NothingElseWrites, Records, UNCHANGED day, Edit \/ Move \/ Release
    PROVE  Records'
<1>1. ~Activate /\ ~Revert
  BY CalmDay DEF Activate, Revert, Does
<1>2. UNCHANGED <<inbox, pending, pc, current, outcome, link, rung, session, line, korid, orphan, applied,
                  committed, sent, seen>>
  BY <1>1 DEF Edit, EditCooling, EditPanel, Press, Move, Release, feedVars, worker, published
<1>3. OwnWrites' /\ StillOpen' = StillOpen /\ SettlesCooling' = SettlesCooling
  BY <1>2, WritesStay DEF Records
<1>4. RecordIsGood'
  BY <1>2, <1>3, RecordStays DEF Landed, Records
<1>5. QED
  BY <1>2, <1>3, <1>4 DEF Records, Serving, OneRequest, Awaits, StatusIsNew

\* With nothing in flight, and nothing left to adopt, the program on record is the one that runs.
LEMMA RecordShows == ASSUME Types, Books, Honesty PROVE ScreenIsHonest
<1> SUFFICES ASSUME NothingElseWrites, Quiet, view.ran = committed, editor.mode = "curve",
                    ~Pending(editor, applied, view)
             PROVE  Screen(editor) = korid.device
  BY DEF ScreenIsHonest, Honest
<1>1. Records
  BY DEF Honesty
<1>2. sent = None /\ pc = "wait" /\ view = Status(korid)
  BY DEF Quiet
<1>3. ~Landed /\ StillOpen
  BY <1>2, CalmDay DEF Landed, StillOpen, Awaited
<1>4. Agree
  BY <1>1, <1>3 DEF Records, RecordIsGood
<1>5. korid.ran = committed
  BY <1>2 DEF Status
<1>6. Screen(editor) = editor.curve /\ applied = editor.curve
  BY DEF Screen, Pending
<1>7. QED
  BY <1>4, <1>5, <1>6 DEF Agree

\* A curve the Cooling screen shows without "Saving", once all is quiet and the program the
\* daemon committed was adopted, is the one on the cooler, when nothing else writes.
THEOREM ScreenStaysHonest == Spec => []ScreenIsHonest
<1>1. Init => IInv /\ Honesty
  BY InitTypes, InitBooks, InitRecords DEF IInv, Honesty
<1>2. IInv /\ Honesty /\ [Next]_vars => Honesty'
  <2> SUFFICES ASSUME IInv, Honesty, [Next]_vars, NothingElseWrites' PROVE Records'
    BY DEF Honesty
  <2>1. day' = day
    BY DEF Next, vars
  <2>2. NothingElseWrites /\ Records
    BY <2>1 DEF NothingElseWrites, Honesty
  <2> USE <2>2 DEF IInv
  <2>3. CASE Worker /\ UNCHANGED day
    BY <2>3, WorkerRecords DEF Worker
  <2>4. CASE Daemon /\ UNCHANGED day
    BY <2>4, DaemonRecords DEF Daemon
  <2>5. CASE (TimerFires \/ Passes \/ Refresh) /\ UNCHANGED day
    BY <2>5, WritingRecords
  <2>6. CASE (Edit \/ Move \/ Release) /\ UNCHANGED day
    BY <2>6, HandRecords
  <2>7. CASE UNCHANGED vars
    <3>1. UNCHANGED <<inbox, pending, pc, current, outcome, link, rung, session, line, korid, orphan, applied,
                      committed, sent, seen>>
      BY <2>7 DEF vars, moving, feedVars, worker, published, window
    <3>2. OwnWrites' /\ StillOpen' = StillOpen /\ SettlesCooling' = SettlesCooling
      BY <3>1, WritesStay DEF Records
    <3>3. RecordIsGood'
      BY <3>1, <3>2, RecordStays DEF Landed, Records
    <3>4. QED
      BY <3>1, <3>2, <3>3 DEF Records, Serving, OneRequest, Awaits, StatusIsNew
  <2>8. QED
    BY <2>3, <2>4, <2>5, <2>6, <2>7 DEF Next, Step
<1>3. IInv /\ Honesty => ScreenIsHonest
  BY RecordShows DEF IInv
<1>4. QED
  BY <1>1, <1>2, <1>3, Inductive, PTL DEF Spec

-----------------------------------------------------------------------------
(* The lists and the held button: Window.                                  *)

\* Types, as far as the anchors need them.
LeadsListed == destination \in Destinations /\ linkState.channels \subseteq LightingChannels

\* Until the first status seeds the panel's mode no control is drawn, so no list is open
\* under a mode that the seed may change.
NothingBeforeSeed == ~seed => linkState = Offline /\ popover = NoList

\* The button is armed on a profile.
ArmedOnOne == armed => aimed # NoOne

\* The inductive invariant of Window.
WindowIInv == LeadsListed /\ NothingBeforeSeed /\ ArmedOnOne /\ WindowIsSound

\* A list that may be opened hangs from a control of the screen shown.
LEMMA OperableIsAnchored ==
    ASSUME LeadsListed, NEW control \in Operable, "list" \in DOMAIN control
    PROVE  /\ IF control.of = "head" THEN destination = "cooling"
              ELSE /\ ScreenOf(control.of) = destination
                   /\ control.list = "mode" \/ control.of \in open
                   /\ control.list = "metric" => modes.panel = "infographic"
           /\ linkState.gates # {}
<1> USE WindowAssumption
<1>1. CASE control \in {List("cooling", "head"), List("profile", "head")} /\ destination = "cooling"
           /\ "write" \in linkState.gates
  BY <1>1 DEF List
<1>2. ASSUME NEW row \in RowsOf(linkState)[destination], GateOf(row) \in linkState.gates,
             \/ control \in OnLine(row)
             \/ row \in open /\ control \in InDetail(row)
      PROVE  /\ IF control.of = "head" THEN destination = "cooling"
                ELSE /\ ScreenOf(control.of) = destination
                     /\ control.list = "mode" \/ control.of \in open
                     /\ control.list = "metric" => modes.panel = "infographic"
             /\ linkState.gates # {}
  <2>1. CASE row \in CoolingRows /\ destination = "cooling"
    BY <1>2, <2>1 DEF OnLine, InDetail, Track
  <2>2. CASE row \in LightingChannels \cup {"lcd"} /\ destination = "lighting"
    <3>1. row \notin CoolingRows /\ row # "head" /\ ScreenOf(row) = destination
      BY <2>2 DEF CoolingRows, ScreenOf
    <3>2. CASE control \in OnLine(row)
      <4>1. control = List("mode", row)
        BY <3>1, <3>2 DEF OnLine, Track, List
      <4> QED BY <1>2, <3>1, <4>1 DEF List
    <3>3. CASE row \in open /\ control \in InDetail(row)
      BY <1>2, <3>1, <3>3 DEF InDetail, List
    <3> QED BY <1>2, <3>2, <3>3
  <2>3. CASE destination \in {"monitoring", "settings"}
    BY <1>2, <2>3 DEF RowsOf
  <2>4. CASE destination = "cooling"
    BY <1>2, <2>1, <2>4 DEF RowsOf
  <2>5. CASE destination = "lighting"
    BY <1>2, <2>2, <2>5 DEF RowsOf, LeadsListed
  <2> QED BY <2>3, <2>4, <2>5 DEF LeadsListed, Destinations
<1>3. \/ destination = "cooling" /\ "write" \in linkState.gates
         /\ control \in {List("cooling", "head"), List("profile", "head")}
      \/ \E row \in RowsOf(linkState)[destination] :
            /\ GateOf(row) \in linkState.gates
            /\ control \in OnLine(row) \cup (IF row \in open THEN InDetail(row) ELSE {})
  <2> DEFINE rows == {row \in RowsOf(linkState)[destination] : GateOf(row) \in linkState.gates}
             Drawn(row) == OnLine(row) \cup (IF row \in open THEN InDetail(row) ELSE {})
             heads == IF destination = "cooling" /\ "write" \in linkState.gates
                      THEN {List("cooling", "head"), List("profile", "head")} ELSE {}
             lines == UNION {Drawn(row) : row \in rows}
  <2>1. Operable = lines \cup heads
    BY Zenon DEF Operable
  <2>2. CASE control \in heads
    BY <2>2
  <2>3. CASE control \in lines
    <3> HIDE DEF Drawn, rows, heads
    <3>1. PICK row \in rows : control \in Drawn(row)
      BY <2>3
    <3> QED BY <3>1 DEF rows, Drawn
  <2> HIDE DEF lines, heads
  <2> QED BY <2>1, <2>2, <2>3
<1> QED BY <1>1, <1>2, <1>3

\* The window opens with nothing open, armed or drawn.
LEMMA WindowInitHolds == WindowInit => WindowIInv
BY DEF WindowInit, WindowIInv, LeadsListed, NothingBeforeSeed, ArmedOnOne, WindowIsSound, ListHasItsAnchor,
       DeletionIsDeliberate, Offline

\* A press, a destination and whatever the link brings keep it.
LEMMA WindowStepHolds ==
    ASSUME WindowIInv, [WindowNext]_windowVars
    PROVE  WindowIInv'
<1> USE DEF WindowIInv, LeadsListed, NothingBeforeSeed, ArmedOnOne, WindowIsSound
<1>1. CASE LinkMoves
  <2>1. LeadsListed' /\ NothingBeforeSeed'
    BY <1>1 DEF LinkMoves, Offline
  <2>2. ListHasItsAnchor'
    <3>1. CASE ~seed
      BY <1>1, <3>1 DEF LinkMoves, ListHasItsAnchor
    <3>2. CASE seed
      <4>1. modes'.panel = modes.panel
        <5>1. CASE UNCHANGED modes
          BY <5>1
        <5>2. CASE \E cooling, panel : /\ modes' = [cooling |-> cooling, panel |-> panel]
                                       /\ seed => panel = modes.panel
          BY <3>2, <5>2
        <5> QED BY <1>1, <5>1, <5>2 DEF LinkMoves
      <4> QED BY <1>1, <4>1 DEF LinkMoves, ListHasItsAnchor
    <3> QED BY <3>1, <3>2
  <2>3. ArmedOnOne' /\ DeletionIsDeliberate'
    BY <1>1 DEF LinkMoves, DeletionIsDeliberate
  <2> QED BY <2>1, <2>2, <2>3
<1>2. ASSUME NEW to \in Destinations, GoTo(to)
      PROVE  WindowIInv'
  BY <1>2 DEF GoTo, Leave, ListHasItsAnchor, DeletionIsDeliberate
<1>3. CASE \E row \in CoolingRows \cup LightingChannels \cup {"lcd"} : ToggleOpen(row)
  BY <1>3 DEF ToggleOpen, ListHasItsAnchor, DeletionIsDeliberate
<1>4. ASSUME NEW control \in Operable, ToggleList(control)
      PROVE  WindowIInv'
  <2>1. ListHasItsAnchor'
    BY <1>4, OperableIsAnchored DEF ToggleList, ListHasItsAnchor, ScreenOf
  <2>2. NothingBeforeSeed'
    BY <1>4, OperableIsAnchored DEF ToggleList, Offline
  <2> QED BY <1>4, <2>1, <2>2 DEF ToggleList, DeletionIsDeliberate
<1>5. CASE Escape
  BY <1>5 DEF Escape, ListHasItsAnchor, DeletionIsDeliberate
<1>6. CASE Choose
  <2>1. DeletionIsDeliberate'
    BY <1>6 DEF Choose, Chosen, DeletionIsDeliberate
  <2> QED BY <1>6, <2>1 DEF Choose, ListHasItsAnchor
<1>7. ASSUME NEW control \in Operable, PressOn(control)
      PROVE  WindowIInv'
  BY <1>7 DEF PressOn, ListHasItsAnchor, DeletionIsDeliberate
<1>8. CASE ReleaseHold
  BY <1>8 DEF ReleaseHold, ListHasItsAnchor, ScreenOf, DeletionIsDeliberate
<1>9. CASE DeleteProfile
  <2>1. ListHasItsAnchor' /\ LeadsListed' /\ NothingBeforeSeed'
    BY <1>9 DEF DeleteProfile, ListHasItsAnchor, ScreenOf
  <2>2. armed' = NextDeletion(linkState.active, armed).armed
    BY <1>9 DEF DeleteProfile
  <2>3. ArmedOnOne'
    BY <1>9, <2>2 DEF DeleteProfile, NextDeletion
  <2>4. DeletionIsDeliberate'
    <3>1. CASE NextDeletion(linkState.active, armed).sends
      <4>1. asked'.name = linkState.active /\ asked'.aimed = aimed
        BY <1>9, <3>1 DEF DeleteProfile
      <4>2. armed /\ linkState.active # Safe
        BY <3>1 DEF NextDeletion
      <4> QED BY <4>1, <4>2 DEF DeletionIsDeliberate
    <3>2. CASE ~NextDeletion(linkState.active, armed).sends
      BY <1>9, <3>2 DEF DeleteProfile, DeletionIsDeliberate
    <3> QED BY <3>1, <3>2
  <2> QED BY <2>1, <2>3, <2>4
<1>10. CASE SaveProfile
  BY <1>10 DEF SaveProfile, ListHasItsAnchor, ScreenOf, DeletionIsDeliberate
<1>11. CASE UNCHANGED windowVars
  BY <1>11 DEF windowVars, ListHasItsAnchor, ScreenOf, DeletionIsDeliberate
<1> QED BY <1>1, <1>2, <1>3, <1>4, <1>5, <1>6, <1>7, <1>8, <1>9, <1>10, <1>11 DEF WindowNext

\* What the window relies on holds of every behaviour of it.
THEOREM WindowInductive == WindowSpec => []WindowIInv
BY WindowInitHolds, WindowStepHolds, PTL DEF WindowSpec

\* An open list hangs from a control of the screen shown, and a profile is deleted only after
\* the button was armed on this visit, whatever the link brings, for any lighting channels,
\* profiles and number of presses.
THEOREM WindowStaysSound == WindowSpec => []WindowIsSound
<1>1. WindowIInv => WindowIsSound
  BY DEF WindowIInv
<1> QED BY <1>1, WindowInductive, PTL

-----------------------------------------------------------------------------
(* The readouts and the alert: Readouts.                                   *)

\* What a pass reads, and a pass in the log; a point of a series.
ReadKind == {"turns", "zero", "gap", "absent"}
Reads == [at : Nat, when : Nat, read : ReadKind]
Point == [at : Nat, value : Nat]

\* Types.
ReadoutsTypes ==
    /\ elapsed \in 0..MaxTime /\ wall \in Nat
    /\ log \in [Section -> Seq(Reads)]
    /\ shown \in [Section -> Point] /\ tracked \in [Section -> Point]
    /\ series \in [Section -> Seq(Point)] /\ newest \in [Section -> Nat]
    /\ streak \in Nat /\ alert \in BOOLEAN

\* The readings that count for the alert.
Zeros(passes) ==
    {n \in 1..Len(passes) :
        passes[n].read = "zero" /\ \A k \in n..Len(passes) : passes[k].read # "turns"}

\* The streak is how many they are, and the alert follows it.
StreakIsCounted ==
    LET passes == log["kraken"] IN
    /\ streak = Cardinality(Zeros(passes))
    /\ alert <=> passes # <<>> /\ passes[Len(passes)].read = "zero" /\ streak >= StallCount

\* A sample is a pass of its section, or what the section began with.
OfPass(passes, sample) ==
    \/ \E n \in 1..Len(passes) :
         /\ passes[n].at = sample.at
         /\ sample.value = IF passes[n].read \in {"gap", "absent"} THEN 0 ELSE n
    \/ sample = [at |-> Epoch, value |-> 0]

SamplesAreOfPasses ==
    \A s \in Section :
        /\ OfPass(log[s], shown[s])
        /\ tracked[s].value # 0 => OfPass(log[s], tracked[s])
        /\ \A i \in 1..Len(series[s]) : OfPass(log[s], series[s][i])

\* A series is ordered by its stamps, within the window of the last, where the client is.
SeriesInOrder ==
    \A s \in Section :
        LET plot == series[s] IN
        /\ \A i, j \in 1..Len(plot) : i < j => plot[i].at < plot[j].at
        /\ \A i \in 1..Len(plot) : plot[i].at + Window >= plot[Len(plot)].at
        /\ plot # <<>> => plot[Len(plot)].at = newest[s]

\* The inductive invariant of Readouts.
ReadoutsIInv == ReadoutsTypes /\ StreakIsCounted /\ SamplesAreOfPasses /\ SeriesInOrder

\* The last of a sequence is what was appended.
LEMMA LastAppended ==
    ASSUME NEW S, NEW plot \in Seq(S), NEW e \in S
    PROVE  Append(plot, e) # <<>> /\ Append(plot, e)[Len(Append(plot, e))] = e
OBVIOUS

\* A pass adds itself to the zeros, clears them, or leaves them as they are.
LEMMA ZerosGrow ==
    ASSUME NEW passes \in Seq(Reads), NEW entry \in Reads
    PROVE  Zeros(Append(passes, entry)) =
             CASE entry.read = "zero" -> Zeros(passes) \cup {Len(passes) + 1}
               [] entry.read = "turns" -> {}
               [] OTHER -> Zeros(passes)
<1> DEFINE more == Append(passes, entry)
<1>1. /\ Len(more) = Len(passes) + 1 /\ more[Len(passes) + 1] = entry
      /\ \A n \in 1..Len(passes) : more[n] = passes[n]
      /\ Len(passes) \in Nat
  OBVIOUS
<1> HIDE DEF more
<1>2. \A n \in 1..Len(more) : n \in 1..Len(passes) \/ n = Len(passes) + 1
  BY <1>1
<1>3. CASE entry.read = "turns"
  BY <1>1, <1>3 DEF Zeros
<1>4. CASE entry.read # "turns"
  <2>1. \A n \in 1..Len(passes) : n \in Zeros(more) <=> n \in Zeros(passes)
    <3> TAKE n \in 1..Len(passes)
    <3>1. (\A k \in n..Len(more) : more[k].read # "turns")
            <=> (\A k \in n..Len(passes) : passes[k].read # "turns")
      BY <1>1, <1>4
    <3> QED BY <1>1, <3>1 DEF Zeros
  <2>2. Len(passes) + 1 \in Zeros(more) <=> entry.read = "zero"
    BY <1>1, <1>4 DEF Zeros
  <2>3. Len(passes) + 1 \notin Zeros(passes) /\ Zeros(passes) \subseteq 1..Len(passes)
        /\ Zeros(more) \subseteq 1..Len(more)
    BY <1>1 DEF Zeros
  <2>4. CASE entry.read = "zero"
    <3>1. Zeros(more) = Zeros(passes) \cup {Len(passes) + 1}
      BY <1>2, <2>1, <2>2, <2>3, <2>4
    <3> QED BY <2>4, <3>1 DEF more
  <2>5. CASE entry.read # "zero"
    <3>1. Zeros(more) = Zeros(passes)
      BY <1>2, <2>1, <2>2, <2>3, <2>5
    <3> QED BY <1>4, <2>5, <3>1 DEF more
  <2> QED BY <2>4, <2>5
<1> QED BY <1>3, <1>4 DEF more

\* The zeros of a log can be counted, and the next pass is not one of them.
LEMMA ZerosFinite ==
    ASSUME NEW passes \in Seq(Reads)
    PROVE  IsFiniteSet(Zeros(passes)) /\ Cardinality(Zeros(passes)) \in Nat
           /\ Len(passes) + 1 \notin Zeros(passes)
<1>1. IsFiniteSet(1..Len(passes))
  BY FS_Interval
<1>2. Zeros(passes) \in SUBSET (1..Len(passes))
  BY DEF Zeros
<1>3. IsFiniteSet(Zeros(passes))
  BY <1>1, <1>2, FS_Subset
<1>4. Cardinality(Zeros(passes)) \in Nat
  BY <1>3, FS_CardinalityType
<1> QED BY <1>2, <1>3, <1>4

\* StreakIsCounted, for a pass.
LEMMA PassCounts ==
    ASSUME ReadoutsIInv, NEW s \in Section, NEW reading \in Readings(s), Pass(s, reading)
    PROVE  StreakIsCounted'
<1> USE ReadoutsAssumption DEF ReadoutsIInv, ReadoutsTypes
<1>1. CASE s # "kraken"
  BY <1>1 DEF Pass, StreakIsCounted
<1>2. CASE s = "kraken"
  <2> DEFINE passes == log["kraken"]
             entry == [at |-> wall, when |-> elapsed, read |-> reading]
  <2>1. passes \in Seq(Reads) /\ entry \in Reads /\ log'["kraken"] = Append(passes, entry)
        /\ entry.read = reading
    BY <1>2 DEF Pass, Readings, Reads, ReadKind
  <2>2. /\ streak' = IF reading # "absent" THEN Streak(reading) ELSE streak
        /\ alert' = (reading = "zero" /\ streak' >= StallCount)
    BY <1>2 DEF Pass
  <2> HIDE DEF passes, entry
  <2>3. streak = Cardinality(Zeros(passes))
    BY DEF StreakIsCounted, passes
  <2>4. streak' = Cardinality(Zeros(Append(passes, entry)))
    <3>1. CASE reading = "zero"
      <4>1. Zeros(Append(passes, entry)) = Zeros(passes) \cup {Len(passes) + 1}
        BY <2>1, <3>1, ZerosGrow
      <4>2. Cardinality(Zeros(passes) \cup {Len(passes) + 1}) = Cardinality(Zeros(passes)) + 1
        BY <2>1, ZerosFinite, FS_AddElement
      <4> QED BY <2>2, <2>3, <3>1, <4>1, <4>2 DEF Streak
    <3>2. CASE reading = "turns"
      <4>1. Zeros(Append(passes, entry)) = {}
        BY <2>1, <3>2, ZerosGrow
      <4> QED BY <2>2, <3>2, <4>1, FS_EmptySet DEF Streak
    <3>3. CASE reading \in {"gap", "absent"}
      <4>1. Zeros(Append(passes, entry)) = Zeros(passes)
        BY <2>1, <3>3, ZerosGrow
      <4> QED BY <2>2, <2>3, <3>3, <4>1 DEF Streak
    <3> QED BY <1>2, <3>1, <3>2, <3>3 DEF Readings
  <2>5. Append(passes, entry) # <<>>
        /\ Append(passes, entry)[Len(Append(passes, entry))].read = reading
    BY <2>1, LastAppended
  <2> QED BY <2>1, <2>2, <2>4, <2>5 DEF StreakIsCounted
<1> QED BY <1>1, <1>2

\* The rest of the invariant, for a pass: the log grows, and only the section published
\* changes.
LEMMA PassPublishes ==
    ASSUME ReadoutsIInv, NEW s \in Section, NEW reading \in Readings(s), Pass(s, reading)
    PROVE  ReadoutsTypes' /\ SamplesAreOfPasses' /\ SeriesInOrder'
<1> USE ReadoutsAssumption DEF ReadoutsIInv, ReadoutsTypes
<1> DEFINE entry == [at |-> wall, when |-> elapsed, read |-> reading]
           valid == reading \in {"turns", "zero"}
           now == [at |-> wall, value |-> IF valid THEN Len(log[s]) + 1 ELSE 0]
<1>1. /\ log' = [log EXCEPT ![s] = Append(log[s], entry)]
      /\ shown' = [shown EXCEPT ![s] = now]
      /\ UNCHANGED <<elapsed, wall, tracked, series, newest>>
  BY DEF Pass, book
<1>2. reading \in ReadKind /\ (valid <=> reading \notin {"gap", "absent"})
  BY DEF Readings, ReadKind
<1>3. entry \in Reads /\ now \in Point /\ log[s] \in Seq(Reads)
  <2>1. log[s] \in Seq(Reads) /\ Len(log[s]) + 1 \in Nat /\ wall \in Nat /\ elapsed \in Nat
    OBVIOUS
  <2>2. entry \in Reads
    BY <1>2, <2>1 DEF Reads
  <2>3. now \in Point
    BY <2>1 DEF Point
  <2> QED BY <2>1, <2>2, <2>3
<1>4. ReadoutsTypes'
  <2>1. log' \in [Section -> Seq(Reads)] /\ shown' \in [Section -> Point]
    BY <1>1, <1>3
  <2>2. streak' \in Nat /\ alert' \in BOOLEAN
    <3>1. Streak(reading) \in Nat \/ reading = "absent"
      BY <1>2 DEF Streak, ReadKind
    <3>2. streak' \in Nat
      BY <3>1 DEF Pass
    <3>3. alert' = (reading = "zero" /\ streak' >= StallCount) \/ alert' = alert
      BY DEF Pass
    <3> QED BY <3>2, <3>3
  <2> QED BY <1>1, <2>1, <2>2
<1>5. SeriesInOrder'
  BY <1>1 DEF SeriesInOrder
<1>6. \A t \in Section : /\ Len(log'[t]) >= Len(log[t]) /\ Len(log[t]) \in Nat /\ Len(log'[t]) \in Nat
                        /\ \A n \in 1..Len(log[t]) : log'[t][n] = log[t][n]
  <2> TAKE t \in Section
  <2>1. CASE t = s
    BY <1>1, <1>3, <2>1
  <2>2. CASE t # s
    BY <1>1, <2>2
  <2> QED BY <2>1, <2>2
<1>7. \A t \in Section : \A sample \in Point : OfPass(log[t], sample) => OfPass(log'[t], sample)
  <2> TAKE t \in Section
  <2> TAKE sample \in Point
  <2> SUFFICES ASSUME OfPass(log[t], sample)
               PROVE  OfPass(log'[t], sample)
    OBVIOUS
  <2>1. CASE sample = [at |-> Epoch, value |-> 0]
    BY <2>1 DEF OfPass
  <2>2. ASSUME NEW n \in 1..Len(log[t]),
               log[t][n].at = sample.at,
               sample.value = IF log[t][n].read \in {"gap", "absent"} THEN 0 ELSE n
        PROVE  OfPass(log'[t], sample)
    <3>1. n \in 1..Len(log'[t]) /\ log'[t][n] = log[t][n]
      BY <1>6
    <3> QED BY <2>2, <3>1 DEF OfPass
  <2> QED BY <2>1, <2>2 DEF OfPass
<1>8. OfPass(log'[s], shown'[s])
  <2>1. shown'[s] = now /\ Len(log[s]) + 1 \in 1..Len(log'[s]) /\ log'[s][Len(log[s]) + 1] = entry
    BY <1>1, <1>3
  <2>2. shown'[s].at = wall /\ shown'[s].value = IF reading \in {"gap", "absent"} THEN 0 ELSE Len(log[s]) + 1
    BY <1>2, <2>1
  <2>3. log'[s][Len(log[s]) + 1].at = wall /\ log'[s][Len(log[s]) + 1].read = reading
    BY <2>1
  <2> QED BY <2>1, <2>2, <2>3 DEF OfPass
<1>9. SamplesAreOfPasses'
  <2> SUFFICES ASSUME NEW t \in Section
               PROVE  /\ OfPass(log'[t], shown'[t])
                      /\ tracked'[t].value # 0 => OfPass(log'[t], tracked'[t])
                      /\ \A i \in 1..Len(series'[t]) : OfPass(log'[t], series'[t][i])
    BY DEF SamplesAreOfPasses
  <2>1. OfPass(log'[t], shown'[t])
    <3>1. CASE t = s
      BY <1>8, <3>1
    <3>2. CASE t # s
      <4>1. shown'[t] = shown[t] /\ shown[t] \in Point /\ OfPass(log[t], shown[t])
        BY <1>1, <3>2 DEF SamplesAreOfPasses
      <4> QED BY <1>7, <4>1
    <3> QED BY <3>1, <3>2
  <2>2. tracked'[t].value # 0 => OfPass(log'[t], tracked'[t])
    <3>1. tracked'[t] = tracked[t] /\ tracked[t] \in Point
      BY <1>1
    <3> QED BY <1>7, <3>1 DEF SamplesAreOfPasses
  <2>3. ASSUME NEW i \in 1..Len(series'[t])
        PROVE  OfPass(log'[t], series'[t][i])
    <3>1. series'[t][i] = series[t][i] /\ series[t][i] \in Point /\ i \in 1..Len(series[t])
      BY <1>1
    <3> QED BY <1>7, <3>1 DEF SamplesAreOfPasses
  <2> QED BY <2>1, <2>2, <2>3
<1> QED BY <1>4, <1>5, <1>9

\* A set of positions has a least one.
LEMMA LeastOf ==
    ASSUME NEW N \in Nat, NEW S, S \subseteq 1..N, S # {}
    PROVE  \E n \in S : \A m \in S : n <= m
<1> DEFINE T == {S \cap (1..n) : n \in S}
<1>1. IsWellFoundedOn(StrictSubsetOrdering(1..N), FiniteSubsetsOf(1..N))
  BY FS_StrictSubsetOrderingWellFounded
<1>2. T \subseteq FiniteSubsetsOf(1..N) /\ T # {}
  <2>1. IsFiniteSet(1..N)
    BY FS_Interval
  <2>2. \A n \in S : S \cap (1..n) \in FiniteSubsetsOf(1..N)
    <3> TAKE n \in S
    <3>1. S \cap (1..n) \in SUBSET (1..N)
      OBVIOUS
    <3>2. IsFiniteSet(S \cap (1..n))
      BY <2>1, <3>1, FS_Subset
    <3> QED BY <3>1, <3>2 DEF FiniteSubsetsOf
  <2> QED BY <2>2
<1> HIDE DEF T
<1>3. PICK x \in T : \A y \in T : ~(<<y, x>> \in StrictSubsetOrdering(1..N))
  BY <1>1, <1>2, WFMin
<1> USE DEF T
<1>4. PICK n \in S : x = S \cap (1..n)
  BY <1>3
<1>5. ASSUME NEW m \in S, m < n
      PROVE  FALSE
  <2>1. S \cap (1..m) \in T
    OBVIOUS
  <2>2. n \in x /\ n \notin S \cap (1..m) /\ S \cap (1..m) \subseteq x
    BY <1>4, <1>5
  <2>3. <<S \cap (1..m), x>> \in StrictSubsetOrdering(1..N)
    BY <1>2, <1>3, <2>1, <2>2 DEF StrictSubsetOrdering, FiniteSubsetsOf
  <2> QED BY <1>3, <2>1, <2>3
<1> QED BY <1>5

\* What is left of a series from a position on.
LEMMA Suffix ==
    ASSUME NEW S, NEW plot \in Seq(S), NEW first \in 1..Len(plot)
    PROVE  LET rest == SubSeq(plot, first, Len(plot)) IN
           /\ rest \in Seq(S) /\ Len(rest) = Len(plot) - first + 1
           /\ \A i \in 1..Len(rest) : first + i - 1 \in 1..Len(plot) /\ rest[i] = plot[first + i - 1]
OBVIOUS

\* A series that advances gains the last reading and drops what fell out of the window.
LEMMA SeriesAdvances ==
    ASSUME ReadoutsIInv, NEW s \in Section, Advanced(s)
    PROVE  LET plot == Pushed(s) IN
           /\ plot \in Seq(Point) /\ plot # <<>>
           /\ \A i \in 1..Len(plot) : OfPass(log[s], plot[i])
           /\ \A i, j \in 1..Len(plot) : i < j => plot[i].at < plot[j].at
           /\ \A i \in 1..Len(plot) : plot[i].at + Window >= plot[Len(plot)].at
           /\ plot[Len(plot)].at = shown[s].at
<1> USE ReadoutsAssumption DEF ReadoutsIInv, ReadoutsTypes
<1> DEFINE old == series[s]
           point == [at |-> shown[s].at, value |-> shown[s].value]
           all == Append(old, point)
           N == Len(old) + 1
           recent == {n \in DOMAIN all : all[n].at + Window >= point.at}
           first == CHOOSE n \in recent : \A m \in recent : n <= m
<1>1. /\ old \in Seq(Point) /\ Len(old) \in Nat
      /\ shown[s] \in Point /\ point = shown[s] /\ point \in Point /\ newest[s] \in Nat
  BY DEF Point
<1>2. point.at = shown[s].at /\ point.at > newest[s] /\ point.at \in Nat
  BY <1>1 DEF Advanced, Point
<1>3. /\ all \in Seq(Point) /\ Len(all) = N /\ DOMAIN all = 1..N /\ all[N] = point
      /\ \A n \in 1..Len(old) : all[n] = old[n]
  BY <1>1
<1>4. /\ \A i, j \in 1..Len(old) : i < j => old[i].at < old[j].at
      /\ \A i \in 1..Len(old) : old[i].at \in Nat
      /\ old # <<>> => old[Len(old)].at = newest[s]
  <2>1. /\ \A i, j \in 1..Len(old) : i < j => old[i].at < old[j].at
        /\ old # <<>> => old[Len(old)].at = newest[s]
    BY DEF SeriesInOrder
  <2>2. \A i \in 1..Len(old) : old[i] \in Point
    BY <1>1
  <2>3. \A i \in 1..Len(old) : old[i].at \in Nat
    BY <2>2 DEF Point
  <2> QED BY <2>1, <2>3
<1>5. \A n \in 1..Len(old) : old[n].at < point.at
  <2> TAKE n \in 1..Len(old)
  <2>1. old # <<>> /\ Len(old) \in 1..Len(old)
    BY <1>1
  <2>2. old[n].at <= old[Len(old)].at
    BY <1>4, <2>1
  <2> QED BY <1>2, <1>4, <2>1, <2>2
<1>6. Pushed(s) = SubSeq(all, first, Len(all))
  <2>1. ~(series[s] # <<>> /\ point.at < series[s][Len(series[s])].at)
    BY <1>1, <1>2, <1>4
  <2> QED BY <2>1 DEF Pushed
<1>a. N \in Nat /\ \A n \in 1..N : n \in 1..Len(old) \/ n = N
  BY <1>1
<1> HIDE DEF first, all, point, old
<1>7. \A i, j \in 1..N : i < j => all[i].at < all[j].at
  <2> SUFFICES ASSUME NEW i \in 1..N, NEW j \in 1..N, i < j
               PROVE  all[i].at < all[j].at
    OBVIOUS
  <2>1. i \in 1..Len(old) /\ all[i] = old[i]
    BY <1>1, <1>3
  <2>2. CASE j \in 1..Len(old)
    BY <1>3, <1>4, <2>1, <2>2
  <2>3. CASE j = N
    BY <1>3, <1>5, <2>1, <2>3
  <2> QED BY <1>1, <2>2, <2>3
<1>8. \A i \in 1..N : all[i] \in Point /\ all[i].at \in Nat
  <2>1. \A i \in 1..N : all[i] \in Point
    BY <1>3
  <2> QED BY <2>1 DEF Point
<1>9. first \in 1..N /\ all[first].at + Window >= point.at
  <2>1. N \in recent /\ recent \subseteq 1..N /\ N \in Nat
    BY <1>1, <1>2, <1>3
  <2> HIDE DEF recent
  <2>2. \E n \in recent : \A m \in recent : n <= m
    BY <2>1, LeastOf
  <2>3. first \in recent
    BY <2>2 DEF first
  <2> QED BY <2>1, <2>3 DEF recent
<1> DEFINE plot == SubSeq(all, first, N)
<1>10. /\ plot \in Seq(Point) /\ Len(plot) = N - first + 1
       /\ \A i \in 1..Len(plot) : first + i - 1 \in 1..N /\ plot[i] = all[first + i - 1]
  BY <1>3, <1>9, Suffix
<1>11. plot # <<>> /\ Len(plot) \in 1..Len(plot) /\ plot[Len(plot)] = point
  <2>1. Len(plot) >= 1 /\ Len(plot) \in Nat /\ first + Len(plot) - 1 = N
    BY <1>1, <1>9, <1>10
  <2> QED BY <1>3, <1>10, <2>1
<1> HIDE DEF plot, N
<1>12. \A i \in 1..Len(plot) : OfPass(log[s], plot[i])
  <2>1. \A n \in 1..N : OfPass(log[s], all[n])
    <3> TAKE n \in 1..N
    <3>1. CASE n \in 1..Len(old)
      BY <1>3, <3>1 DEF SamplesAreOfPasses, old
    <3>2. CASE n = N
      <4>1. OfPass(log[s], shown[s])
        BY DEF SamplesAreOfPasses
      <4>2. all[n] = shown[s]
        BY <1>1, <1>3, <3>2
      <4> QED BY <4>1, <4>2
    <3> QED BY <1>a, <3>1, <3>2
  <2> QED BY <1>10, <2>1
<1>13. \A i, j \in 1..Len(plot) : i < j => plot[i].at < plot[j].at
  <2> SUFFICES ASSUME NEW i \in 1..Len(plot), NEW j \in 1..Len(plot), i < j
               PROVE  plot[i].at < plot[j].at
    OBVIOUS
  <2>1. first + i - 1 < first + j - 1
    BY <1>9
  <2> QED BY <1>7, <1>10, <2>1
<1>14. \A i \in 1..Len(plot) : plot[i].at + Window >= plot[Len(plot)].at
  <2> TAKE i \in 1..Len(plot)
  <2> DEFINE k == first + i - 1
  <2>1. first <= k /\ k \in 1..N /\ plot[i] = all[k] /\ first \in Int /\ k \in Int
    BY <1>9, <1>10
  <2> HIDE DEF k
  <2>3. all[first].at \in Nat /\ all[k].at \in Nat
    BY <1>8, <1>9, <2>1
  <2>2. all[first].at <= all[k].at
    <3>1. CASE k = first
      BY <2>3, <3>1
    <3>2. CASE first < k
      <4>1. all[first].at < all[k].at
        BY <1>7, <1>9, <2>1, <3>2
      <4> QED BY <2>3, <4>1
    <3> QED BY <2>1, <3>1, <3>2
  <2>4. all[k].at + Window >= point.at
    <3>1. Window \in Nat /\ point.at \in Nat /\ all[first].at + Window >= point.at
      BY <1>2, <1>9
    <3>2. \A a, b, c \in Nat : a <= b /\ a + Window >= c => b + Window >= c
      BY <3>1
    <3> QED BY <2>2, <2>3, <3>1, <3>2
  <2> QED BY <1>11, <2>1, <2>4
<1> QED BY <1>2, <1>3, <1>6, <1>10, <1>11, <1>12, <1>13, <1>14 DEF plot

\* The client takes a snapshot in.
LEMMA ObserveHolds ==
    ASSUME ReadoutsIInv, Observe
    PROVE  ReadoutsIInv'
<1> USE ReadoutsAssumption DEF ReadoutsIInv, ReadoutsTypes
<1>1. UNCHANGED <<elapsed, wall, log, shown, streak, alert>>
  BY DEF Observe
<1>2. StreakIsCounted'
  BY <1>1 DEF StreakIsCounted
<1>3. ASSUME NEW s \in Section
      PROVE  tracked'[s] \in Point /\ (tracked'[s].value # 0 => OfPass(log[s], tracked'[s]))
  <2>1. tracked'[s] = Held(s) /\ shown[s] \in Point /\ tracked[s] \in Point
    BY DEF Observe
  <2>2. Held(s) \in {tracked[s], shown[s]}
    BY <2>1 DEF Held, Stamp, Point
  <2> QED BY <2>1, <2>2 DEF SamplesAreOfPasses
<1>4. ASSUME NEW s \in Section
      PROVE  LET plot == series'[s] IN
             /\ plot \in Seq(Point) /\ newest'[s] \in Nat
             /\ \A i \in 1..Len(plot) : OfPass(log[s], plot[i])
             /\ \A i, j \in 1..Len(plot) : i < j => plot[i].at < plot[j].at
             /\ \A i \in 1..Len(plot) : plot[i].at + Window >= plot[Len(plot)].at
             /\ plot # <<>> => plot[Len(plot)].at = newest'[s]
  <2>1. CASE Advanced(s)
    <3>1. series'[s] = Pushed(s) /\ newest'[s] = shown[s].at
      BY <2>1 DEF Observe
    <3>2. newest'[s] \in Nat
      BY <3>1 DEF Point
    <3> QED BY <2>1, <3>1, <3>2, SeriesAdvances
  <2>2. CASE ~Advanced(s)
    <3>1. series'[s] = series[s] /\ newest'[s] = newest[s]
      BY <2>2 DEF Observe
    <3> QED BY <3>1 DEF SamplesAreOfPasses, SeriesInOrder
  <2> QED BY <2>1, <2>2
<1>5. ReadoutsTypes'
  <2>1. tracked' = [s \in Section |-> tracked'[s]] /\ series' = [s \in Section |-> series'[s]]
        /\ newest' = [s \in Section |-> newest'[s]]
    BY DEF Observe
  <2>2. tracked' \in [Section -> Point]
    BY <1>3, <2>1
  <2>3. series' \in [Section -> Seq(Point)] /\ newest' \in [Section -> Nat]
    BY <1>4, <2>1
  <2> QED BY <1>1, <2>2, <2>3
<1>6. SamplesAreOfPasses'
  <2> SUFFICES ASSUME NEW s \in Section
               PROVE  /\ OfPass(log'[s], shown'[s])
                      /\ tracked'[s].value # 0 => OfPass(log'[s], tracked'[s])
                      /\ \A i \in 1..Len(series'[s]) : OfPass(log'[s], series'[s][i])
    BY DEF SamplesAreOfPasses
  <2>1. OfPass(log[s], shown[s])
    BY DEF SamplesAreOfPasses
  <2> QED BY <1>1, <1>3, <1>4, <2>1
<1>7. SeriesInOrder'
  BY <1>4 DEF SeriesInOrder
<1> QED BY <1>2, <1>5, <1>6, <1>7

\* Nothing was read yet.
LEMMA ReadoutsInitHolds == ReadoutsInit => ReadoutsIInv
<1> SUFFICES ASSUME ReadoutsInit PROVE ReadoutsIInv
  OBVIOUS
<1> USE ReadoutsAssumption DEF ReadoutsInit
<1>1. ReadoutsTypes
  <2>1. Nothing \in Point /\ [at |-> Epoch, value |-> 0] \in Point
    BY DEF Epoch, Nothing, Point
  <2>2. <<>> \in Seq(Reads) /\ <<>> \in Seq(Point)
    OBVIOUS
  <2>3. shown \in [Section -> Point] /\ tracked \in [Section -> Point]
    BY <2>1
  <2>4. log \in [Section -> Seq(Reads)] /\ series \in [Section -> Seq(Point)]
    BY <2>2
  <2>5. /\ elapsed \in 0..MaxTime /\ wall \in Nat /\ newest \in [Section -> Nat]
        /\ streak \in Nat /\ alert \in BOOLEAN
    <3>1. 0 \in 0..MaxTime /\ 1 \in Nat
      OBVIOUS
    <3>2. elapsed \in 0..MaxTime /\ wall \in Nat /\ newest \in [Section -> Nat]
      BY <3>1 DEF Epoch
    <3>3. streak \in Nat
      OBVIOUS
    <3>4. alert \in BOOLEAN
      BY Zenon
    <3> QED BY <3>2, <3>3, <3>4
  <2> QED BY <2>3, <2>4, <2>5 DEF ReadoutsTypes
<1>2. StreakIsCounted
  <2>1. log["kraken"] = <<>>
    OBVIOUS
  <2>2. Zeros(<<>>) = {}
    BY DEF Zeros
  <2> QED BY <2>1, <2>2, FS_EmptySet DEF StreakIsCounted
<1>3. SamplesAreOfPasses
  BY DEF SamplesAreOfPasses, OfPass, Nothing
<1>4. SeriesInOrder
  BY DEF SeriesInOrder
<1> QED BY <1>1, <1>2, <1>3, <1>4 DEF ReadoutsIInv

\* A pass, a snapshot, a second and a step of the clock keep it.
LEMMA ReadoutsStepHolds ==
    ASSUME ReadoutsIInv, [ReadoutsNext]_readoutsVars
    PROVE  ReadoutsIInv'
<1> USE ReadoutsAssumption
<1>1. ASSUME NEW s \in Section, NEW reading \in Readings(s), Pass(s, reading)
      PROVE  ReadoutsIInv'
  BY <1>1, PassCounts, PassPublishes DEF ReadoutsIInv
<1>2. CASE Observe
  BY <1>2, ObserveHolds
<1>3. ASSUME elapsed' \in 0..MaxTime, wall' \in Nat, UNCHANGED <<log, shown, streak, alert, book>>
      PROVE  ReadoutsIInv'
  BY <1>3 DEF ReadoutsIInv, ReadoutsTypes, StreakIsCounted, SamplesAreOfPasses, SeriesInOrder, book
<1>4. CASE Tick
  BY <1>3, <1>4 DEF Tick, ReadoutsIInv, ReadoutsTypes
<1>5. CASE StepClock
  BY <1>3, <1>5 DEF StepClock, ReadoutsIInv, ReadoutsTypes, Epoch
<1>6. CASE UNCHANGED readoutsVars
  BY <1>3, <1>6 DEF readoutsVars, ReadoutsIInv, ReadoutsTypes, book
<1> QED BY <1>1, <1>2, <1>4, <1>5, <1>6 DEF ReadoutsNext

\* What the readouts rely on holds of every behaviour of them.
THEOREM ReadoutsInductive == ReadoutsSpec => []ReadoutsIInv
BY ReadoutsInitHolds, ReadoutsStepHolds, PTL DEF ReadoutsSpec

\* The stall alert is out exactly when enough zeros in a row were read, for any threshold
\* and any gaps between them.
THEOREM AlertStaysEarned == ReadoutsSpec => []AlertIsEarned
<1>1. ReadoutsIInv => AlertIsEarned
  BY DEF ReadoutsIInv, StreakIsCounted, AlertIsEarned, Zeros
<1> QED BY <1>1, ReadoutsInductive, PTL

\* What is shown as current is a pass of its section that is recent.
LEMMA FreshFollows == ASSUME ReadoutsIInv PROVE FreshIsRecent
<1> USE ReadoutsAssumption DEF ReadoutsIInv, ReadoutsTypes
<1> SUFFICES ASSUME ClockKeptTime, NEW s \in Section, View(s) = "fresh"
             PROVE  elapsed - log[s][tracked[s].value].when < StaleAfter
  BY DEF FreshIsRecent
<1>1. tracked[s].value # 0 /\ Age(s) < StaleAfter
  BY DEF View
<1>2. tracked[s] \in Point /\ log[s] \in Seq(Reads) /\ wall \in Nat /\ elapsed \in Nat
  OBVIOUS
<1>3. tracked[s].value \in 1..Len(log[s]) /\ log[s][tracked[s].value].at = tracked[s].at
  BY <1>1 DEF SamplesAreOfPasses, OfPass
<1> DEFINE pass == log[s][tracked[s].value]
<1>4. pass \in Reads
  BY <1>2, <1>3
<1>5. pass.at = Epoch + pass.when /\ wall = Epoch + elapsed
  BY <1>3 DEF ClockKeptTime
<1>6. pass.at = tracked[s].at /\ pass.when \in Nat /\ pass.at \in Nat
  BY <1>3, <1>4 DEF Reads
<1> HIDE DEF pass
<1>7. CASE wall >= tracked[s].at
  <2>1. Age(s) = wall - tracked[s].at
    BY <1>7 DEF Age
  <2>2. tracked[s].at \in Nat /\ StaleAfter \in Nat
    BY <1>6
  <2> HIDE ReadoutsAssumption
  <2>3. elapsed - pass.when < StaleAfter
    BY <1>1, <1>2, <1>5, <1>6, <1>7, <2>1, <2>2 DEF Epoch
  <2> QED BY <2>3 DEF pass
<1>8. CASE ~(wall >= tracked[s].at)
  <2>1. Age(s) = 0
    BY <1>8 DEF Age
  <2>2. tracked[s].at \in Nat /\ StaleAfter \in Nat
    BY <1>6
  <2> HIDE ReadoutsAssumption
  <2>3. elapsed - pass.when < StaleAfter
    BY <1>1, <1>2, <1>5, <1>6, <1>8, <2>1, <2>2 DEF Epoch
  <2> QED BY <2>3 DEF pass
<1> QED BY <1>7, <1>8 DEF pass

\* A series has at most one point per stamp of its window.
LEMMA SeriesIsShort ==
    ASSUME ReadoutsIInv, NEW s \in Section
    PROVE  Len(series[s]) <= Window + 1
<1> USE ReadoutsAssumption DEF ReadoutsIInv, ReadoutsTypes
<1> DEFINE plot == series[s]
           N == Len(plot)
           last == plot[N].at
           stamps == (last - Window)..last
           stamp == [i \in 1..N |-> plot[i].at]
<1>1. N \in Nat /\ plot \in Seq(Point)
  OBVIOUS
<1>2. \A i \in 1..N : plot[i] \in Point
  BY <1>1
<1>3. CASE N = 0
  BY <1>3
<1>4. CASE N > 0
  <2>1. last \in Nat
    <3>1. N \in 1..N
      BY <1>1, <1>4
    <3>2. plot[N] \in Point
      BY <1>2, <3>1
    <3> QED BY <3>2 DEF Point
  <2>2. \A i \in 1..N : plot[i].at \in Nat
    BY <1>2 DEF Point
  <2>3. /\ \A i, j \in 1..N : i < j => plot[i].at < plot[j].at
        /\ \A i \in 1..N : plot[i].at + Window >= last
    BY DEF SeriesInOrder
  <2> HIDE DEF plot
  <2>4. \A i \in 1..N : plot[i].at <= last
    <3> TAKE i \in 1..N
    <3>1. i = N \/ i < N
      BY <1>1
    <3>2. N \in 1..N
      BY <1>1, <1>4
    <3>3. CASE i < N
      <4>1. plot[i].at < plot[N].at
        BY <2>3, <3>2, <3>3
      <4> QED BY <2>1, <2>2, <4>1
    <3> QED BY <2>1, <3>1, <3>3
  <2> HIDE DEF N, last
  <2>5. \A i \in 1..N : plot[i].at \in stamps
    <3> TAKE i \in 1..N
    <3>1. plot[i].at \in Nat /\ plot[i].at <= last /\ plot[i].at + Window >= last
      BY <2>2, <2>3, <2>4
    <3>2. Window \in Nat
      OBVIOUS
    <3> HIDE ReadoutsAssumption
    <3> QED BY <2>1, <3>1, <3>2
  <2>6. stamp \in [1..N -> stamps] /\ \A i, j \in 1..N : stamp[i] = stamp[j] => i = j
    <3>1. stamp \in [1..N -> stamps]
      BY <2>5
    <3>2. ASSUME NEW i \in 1..N, NEW j \in 1..N, stamp[i] = stamp[j]
          PROVE  i = j
      <4>1. ~(plot[i].at < plot[j].at) /\ ~(plot[j].at < plot[i].at)
        BY <2>2, <3>2
      <4> QED BY <1>1, <2>3, <4>1
    <3> QED BY <3>1, <3>2
  <2>7. IsFiniteSet(stamps) /\ Cardinality(stamps) = Window + 1
    <3>1. last - Window \in Int /\ last \in Int /\ Window \in Nat
      BY <2>1
    <3> HIDE ReadoutsAssumption
    <3>2. /\ IsFiniteSet(stamps)
          /\ Cardinality(stamps) = IF last - Window > last THEN 0 ELSE last - (last - Window) + 1
      BY <3>1, FS_Interval
    <3> QED BY <3>1, <3>2
  <2>8. IsFiniteSet(1..N) /\ Cardinality(1..N) = N
    <3>1. N \in Int /\ 1 \in Int /\ ~(1 > N)
      BY <1>1, <1>4
    <3>2. IsFiniteSet(1..N) /\ Cardinality(1..N) = IF 1 > N THEN 0 ELSE N - 1 + 1
      BY <3>1, FS_Interval
    <3> QED BY <3>1, <3>2
  <2> HIDE DEF stamps, stamp
  <2>9. stamp \in Injection(1..N, stamps)
    BY <2>6 DEF Injection, IsInjective
  <2>10. Cardinality(1..N) <= Cardinality(stamps)
    BY <2>7, <2>9, FS_Injection
  <2> QED BY <2>7, <2>8, <2>10 DEF N, plot
<1> QED BY <1>1, <1>3, <1>4

\* What is drawn as live is recent and what is drawn as a history is one, for any window,
\* ages and number of passes.
THEOREM ReadoutsStayHonest == ReadoutsSpec => []ReadoutsAreHonest
<1>1. ASSUME ReadoutsIInv PROVE ReadoutsAreHonest
  <2> USE ReadoutsAssumption DEF ReadoutsIInv, ReadoutsTypes
  <2>1. ReadoutsTypeOK
    <3>1. \A s \in Section : shown[s] \in Point /\ tracked[s] \in Point /\ Len(log[s]) \in Nat
                             /\ newest[s] \in Nat
      BY <1>1
    <3>2. \A s \in Section : shown[s].value \in 0..Len(log[s]) /\ tracked[s].value \in 0..Len(log[s])
      <4> TAKE s \in Section
      <4>1. \A sample \in Point : OfPass(log[s], sample) => sample.value \in 0..Len(log[s])
        BY <3>1 DEF OfPass
      <4>2. OfPass(log[s], shown[s]) /\ (tracked[s].value # 0 => OfPass(log[s], tracked[s]))
        BY <1>1 DEF SamplesAreOfPasses
      <4> QED BY <3>1, <4>1, <4>2
    <3> QED BY <1>1, <3>1, <3>2, SeriesIsShort DEF ReadoutsTypeOK
  <2>2. SeriesIsFaithful
    <3> SUFFICES ASSUME NEW s \in Section, NEW i \in 1..Len(series[s])
                 PROVE  /\ i > 1 => series[s][i - 1].at < series[s][i].at
                        /\ series[s][i].at + Window >= series[s][Len(series[s])].at
                        /\ OfPass(log[s], series[s][i])
      BY DEF SeriesIsFaithful, OfPass
    <3>1. i > 1 => i - 1 \in 1..Len(series[s]) /\ i - 1 < i
      BY <1>1
    <3> QED BY <1>1, <3>1 DEF SeriesInOrder, SamplesAreOfPasses
  <2> QED BY <1>1, <2>1, <2>2, FreshFollows DEF ReadoutsAreHonest
<1> QED BY <1>1, ReadoutsInductive, PTL

-----------------------------------------------------------------------------
(* The preview of the panel: Preview.                                      *)

\* A form, and a timer that waits.
Form ==
    [mode : DisplayMode, metrics : [1..2 -> PanelMetric], colors : [Fields -> Ink \cup {NoInk}],
     orientation : Nat, brightness : Nat, path : Path \cup {NoPath}]
Timer == [generation : Nat, left : Nat]

\* Types.
PreviewTypes ==
    /\ form \in Form /\ lastValid \in Preset /\ ValidPreset(lastValid)
    /\ failed \in BOOLEAN /\ rowOpen \in BOOLEAN /\ panelSeeded \in BOOLEAN
    /\ generation \in Nat /\ timers \in Seq(Timer) /\ up \in Nat

\* An entry that is whole is what the picture is of.
WholeIsLast == ValidPreset(PresetOf(form)) => lastValid = PresetOf(form)

\* A picture of preset p at some readings, wherever its animation stands.
PictureOf(pic, p, telemetry) ==
    /\ p \in Preset /\ ValidPreset(p) /\ Compiles(p)
    /\ pic.identity = Identity(p, telemetry)
    /\ pic.content = Rendered(p, Read(telemetry))
    /\ pic.of \in {"film", "still"}
    /\ pic.of = "film" =>
         /\ UsesImage(p.mode) /\ pic.delays = Film[p.image] /\ pic.cursor \in 1..Len(pic.delays)
         /\ pic = [of |-> "film", identity |-> pic.identity, content |-> pic.content,
                   delays |-> pic.delays, cursor |-> pic.cursor]

\* What is on the preview is the picture of some preset.
PictureIsOfSome == preview # NoPicture => \E p, telemetry : PictureOf(preview, p, telemetry)

\* An animation on a row that shows has one timer of its generation, which will not fire
\* before the frame was up as long as it stays.
OneTimer ==
    /\ \A i \in DOMAIN timers : timers[i].generation <= generation
    /\ rowOpen /\ IsAnimated(preview) =>
         \E i \in DOMAIN timers :
            /\ timers[i].generation = generation
            /\ \A j \in DOMAIN timers : timers[j].generation = generation => j = i
            /\ up + timers[i].left >= preview.delays[preview.cursor]

\* Nothing is edited before the status that seeds the form.
SeedComesFirst == ~panelSeeded => status = Unsent /\ panelEdits = 0

\* The inductive invariant of Preview.
PreviewIInv ==
    PreviewTypes /\ WholeIsLast /\ PreviewIsHonest /\ PictureIsOfSome /\ OneTimer /\ SeedComesFirst

\* Two presets with the same identity at their readings have the same picture.
LEMMA IdentityTells ==
    ASSUME NEW p \in Preset, NEW q \in Preset, NEW t, NEW u, Identity(p, t) = Identity(q, u)
    PROVE  Rendered(p, Read(t)) = Rendered(q, Read(u)) /\ (Compiles(p) <=> Compiles(q))
<1>1. CASE UsesImage(p.mode) /\ UsesImage(q.mode)
  <2>1. p.image = q.image /\ p.orientation = q.orientation /\ p.colors["background"] = q.colors["background"]
    BY <1>1 DEF Identity
  <2>2. p.mode = "image" /\ q.mode = "image"
    BY <1>1 DEF UsesImage
  <2>3. 1..ReadingSlots("image") = {}
    BY DEF ReadingSlots
  <2> QED BY <2>1, <2>2, <2>3 DEF Rendered, Compiles, GradatesBand
<1>2. CASE ~UsesImage(p.mode) /\ ~UsesImage(q.mode)
  <2>1. p = q /\ [s \in 1..2 |-> Read(t)[p.metrics[s]]] = [s \in 1..2 |-> Read(u)[q.metrics[s]]]
    BY <1>2 DEF Identity
  <2>2. \A s \in 1..2 : Read(t)[p.metrics[s]] = Read(u)[p.metrics[s]]
    BY <2>1
  <2>3. 1..ReadingSlots(p.mode) \subseteq 1..2
    BY DEF ReadingSlots
  <2>4. [s \in 1..ReadingSlots(p.mode) |-> <<p.metrics[s], Read(t)[p.metrics[s]]>>]
          = [s \in 1..ReadingSlots(p.mode) |-> <<p.metrics[s], Read(u)[p.metrics[s]]>>]
    BY <2>2, <2>3
  <2> QED BY <2>1, <2>4 DEF Rendered
<1>3. ASSUME NEW a \in Preset, NEW b \in Preset, NEW v, NEW w, UsesImage(a.mode), ~UsesImage(b.mode)
      PROVE  Identity(a, v) # Identity(b, w)
  <2>1. Identity(a, v) = [image |-> a.image, orientation |-> a.orientation,
                          background |-> a.colors["background"]]
    BY <1>3 DEF Identity
  <2>2. Identity(b, w) = [preset |-> b, samples |-> [s \in 1..2 |-> Read(w)[b.metrics[s]]]]
    BY <1>3 DEF Identity
  <2>3. "image" \in DOMAIN Identity(a, v) /\ "image" \notin DOMAIN Identity(b, w)
    BY <2>1, <2>2
  <2> QED BY <2>3
<1> QED BY <1>1, <1>2, <1>3 DEF UsesImage

\* A preset that was compiled is a picture of itself.
LEMMA CompiledIsPicture ==
    ASSUME NEW p \in Preset, NEW t, ValidPreset(p), Compiles(p)
    PROVE  LET pic == Compiled(p, t) IN
           /\ pic # NoPicture /\ PictureOf(pic, p, t)
           /\ IsAnimated(pic) => pic.delays[pic.cursor] \in Nat
<1> DEFINE pic == Compiled(p, t)
<1>1. CASE UsesImage(p.mode)
  <2>1. pic = [of |-> "film", identity |-> Identity(p, t), content |-> Rendered(p, Read(t)),
               delays |-> Film[p.image], cursor |-> 1]
    BY <1>1 DEF Compiled
  <2>2. Film[p.image] \in Seq(Nat) /\ Film[p.image] # <<>>
    BY <1>1, PreviewAssumption DEF ValidPreset, Compiles, Preset
  <2>3. 1 \in 1..Len(Film[p.image]) /\ Film[p.image][1] \in Nat
    BY <2>2
  <2>4. pic.of = "film" /\ pic.identity = Identity(p, t) /\ pic.content = Rendered(p, Read(t))
        /\ pic.delays = Film[p.image] /\ pic.cursor = 1
    BY <2>1
  <2> HIDE DEF pic
  <2>5. pic # NoPicture
    BY <2>4 DEF NoPicture
  <2>6. pic = [of |-> "film", identity |-> pic.identity, content |-> pic.content,
               delays |-> pic.delays, cursor |-> pic.cursor]
    BY <2>1, <2>4
  <2>7. PictureOf(pic, p, t)
    BY <1>1, <2>3, <2>4, <2>6 DEF PictureOf
  <2> QED BY <2>3, <2>4, <2>5, <2>7 DEF pic
<1>2. CASE ~UsesImage(p.mode)
  <2>1. pic = [of |-> "still", identity |-> Identity(p, t), content |-> Rendered(p, Read(t))]
    BY <1>2 DEF Compiled
  <2> HIDE DEF pic
  <2>2. pic.of = "still" /\ pic.identity = Identity(p, t) /\ pic.content = Rendered(p, Read(t))
    BY <2>1
  <2>3. pic # NoPicture
    BY <2>2 DEF NoPicture
  <2>4. PictureOf(pic, p, t)
    BY <2>2 DEF PictureOf
  <2>5. ~IsAnimated(pic)
    BY <2>2 DEF IsAnimated
  <2> QED BY <2>3, <2>4, <2>5 DEF pic
<1> QED BY <1>1, <1>2

\* A film that is played has the one timer of its new generation.
LEMMA PlayArms ==
    ASSUME NEW showing \in BOOLEAN, NEW left \in Seq(Timer), generation \in Nat,
           \A i \in DOMAIN left : left[i].generation <= generation,
           IsAnimated(preview') => preview'.delays[preview'.cursor] \in Nat,
           PlayFilm(showing, left), rowOpen' = showing, up' = 0
    PROVE  OneTimer' /\ generation' \in Nat /\ timers' \in Seq(Timer) /\ up' \in Nat
<1>1. CASE showing /\ IsAnimated(preview')
  <2> DEFINE new == [generation |-> generation + 1, left |-> preview'.delays[preview'.cursor]]
             n == Len(left) + 1
  <2>1. generation' = generation + 1 /\ timers' = Append(left, new)
    BY <1>1 DEF PlayFilm
  <2>2. new \in Timer /\ new.generation = generation + 1 /\ new.left = preview'.delays[preview'.cursor]
    BY <1>1 DEF Timer
  <2> HIDE DEF new
  <2>3. /\ timers' \in Seq(Timer) /\ DOMAIN timers' = 1..n /\ timers'[n] = new /\ n \in 1..n
        /\ \A i \in 1..n : i # n => i \in DOMAIN left /\ timers'[i] = left[i]
    BY <2>1, <2>2
  <2> HIDE DEF n
  <2>4. \A i \in 1..n : i # n => timers'[i].generation <= generation
    BY <2>3
  <2>5. \A i \in 1..n : timers'[i] \in Timer
    BY <2>3
  <2>6. \A i \in 1..n : timers'[i].generation \in Nat
    BY <2>5 DEF Timer
  <2>7. \A i \in DOMAIN timers' : timers'[i].generation <= generation'
    BY <2>1, <2>2, <2>3, <2>4, <2>6
  <2>8. \A j \in DOMAIN timers' : timers'[j].generation = generation' => j = n
    BY <2>1, <2>3, <2>4, <2>6
  <2>9. up' + timers'[n].left >= preview'.delays[preview'.cursor]
    BY <1>1, <2>2, <2>3
  <2> QED BY <2>1, <2>2, <2>3, <2>7, <2>8, <2>9 DEF OneTimer
<1>2. CASE ~(showing /\ IsAnimated(preview'))
  BY <1>2 DEF PlayFilm, OneTimer
<1> QED BY <1>1, <1>2

\* A picture on screen has a delay to stay up.
LEMMA DelayOf ==
    ASSUME NEW pic, NEW p, NEW t, PictureOf(pic, p, t), IsAnimated(pic)
    PROVE  /\ pic.of = "film" /\ pic.delays \in Seq(Nat) /\ pic.cursor \in 1..Len(pic.delays)
           /\ \A c \in 1..Len(pic.delays) : pic.delays[c] \in Nat
<1>1. pic.of = "film" /\ p.image \in Path /\ pic.delays = Film[p.image]
  BY PreviewAssumption DEF IsAnimated, PictureOf, ValidPreset, Preset
<1>2. pic.delays \in Seq(Nat)
  BY <1>1, PreviewAssumption
<1> QED BY <1>1, <1>2 DEF PictureOf

\* The picture follows the last whole preset, the status and the readings.
LEMMA RefreshFollows ==
    ASSUME PreviewIInv, lastValid' \in Preset, ValidPreset(lastValid'), rowOpen' = rowOpen,
           RefreshPicture(lastValid', status', readings')
    PROVE  /\ PreviewIsHonest' /\ PictureIsOfSome' /\ OneTimer' /\ failed' \in BOOLEAN
           /\ generation' \in Nat /\ timers' \in Seq(Timer) /\ up' \in Nat
           /\ preview' # preview /\ IsAnimated(preview) /\ IsAnimated(preview')
                => preview'.identity # preview.identity
<1> USE DEF PreviewIInv
<1>1. PICK replaced \in BOOLEAN :
          /\ SyncPicture(lastValid', status', readings', replaced)
          /\ IF replaced THEN PlayFilm(rowOpen, timers) /\ up' = 0 ELSE UNCHANGED playing
  BY DEF RefreshPicture
<1> DEFINE there == HasPanel(status')
           heldNow == IsHeld(lastValid', readings')
           fits == Compiles(lastValid')
<1>2. /\ preview' # NoPicture <=> there /\ fits
      /\ failed' <=> there /\ ~fits
      /\ failed' \in BOOLEAN
      /\ preview' # NoPicture => preview'.content = Rendered(lastValid', Read(readings'))
      /\ preview' # NoPicture => \E p, telemetry : PictureOf(preview', p, telemetry)
      /\ ~replaced => preview' = preview
      /\ preview' # preview /\ IsAnimated(preview) /\ IsAnimated(preview')
           => preview'.identity # preview.identity
  <2>1. CASE ~there
    <3>1. preview' = NoPicture /\ failed' = FALSE /\ replaced = (preview # NoPicture \/ failed)
      BY <1>1, <2>1 DEF SyncPicture
    <3>2. ~IsAnimated(preview')
      BY <3>1 DEF IsAnimated, NoPicture
    <3> QED BY <2>1, <3>1, <3>2
  <2>2. CASE there /\ heldNow
    <3>1. preview' = preview /\ failed' = failed /\ preview # NoPicture
          /\ preview.identity = Identity(lastValid', readings')
      BY <1>1, <2>2 DEF SyncPicture, IsHeld
    <3>2. PICK p, telemetry : PictureOf(preview, p, telemetry)
      BY <3>1 DEF PictureIsOfSome
    <3>3. p \in Preset /\ Compiles(p) /\ Identity(p, telemetry) = Identity(lastValid', readings')
          /\ preview.content = Rendered(p, Read(telemetry))
      BY <3>1, <3>2 DEF PictureOf
    <3>4. Rendered(p, Read(telemetry)) = Rendered(lastValid', Read(readings')) /\ fits
      BY <3>3, IdentityTells
    <3>5. ~failed
      BY <3>1 DEF PreviewIsHonest
    <3>6. preview'.content = Rendered(lastValid', Read(readings'))
      BY <3>1, <3>3, <3>4
    <3>7. PictureOf(preview', p, telemetry)
      BY <3>1, <3>2
    <3>8. failed \in BOOLEAN
      BY DEF PreviewTypes
    <3> QED BY <2>2, <3>1, <3>4, <3>5, <3>6, <3>7, <3>8, Zenon
  <2>3. CASE there /\ ~heldNow
    <3>1. /\ preview' = IF fits THEN Compiled(lastValid', readings') ELSE NoPicture
          /\ failed' = ~fits /\ replaced = TRUE
      BY <1>1, <2>3 DEF SyncPicture
    <3>2. CASE fits
      <4>1. preview' # NoPicture /\ PictureOf(preview', lastValid', readings')
        BY <3>1, <3>2, CompiledIsPicture
      <4>2. /\ preview'.content = Rendered(lastValid', Read(readings'))
            /\ preview'.identity = Identity(lastValid', readings')
        BY <4>1 DEF PictureOf
      <4>3. IsAnimated(preview) => preview'.identity # preview.identity
        BY <2>3, <4>2 DEF IsHeld, IsAnimated, NoPicture
      <4> QED BY <2>3, <3>1, <3>2, <4>1, <4>2, <4>3
    <3>3. CASE ~fits
      <4>1. preview' = NoPicture /\ failed' = TRUE
        BY <3>1, <3>3
      <4>2. ~IsAnimated(preview')
        BY <4>1 DEF IsAnimated, NoPicture
      <4> QED BY <2>3, <3>1, <3>3, <4>1, <4>2
    <3> QED BY <3>2, <3>3
  <2> QED BY <2>1, <2>2, <2>3
<1>3. PreviewIsHonest' /\ PictureIsOfSome'
  BY <1>2 DEF PreviewIsHonest, PictureIsOfSome
<1>4. OneTimer' /\ generation' \in Nat /\ timers' \in Seq(Timer) /\ up' \in Nat
  <2>1. CASE replaced
    <3>1. IsAnimated(preview') => preview'.delays[preview'.cursor] \in Nat
      <4> SUFFICES ASSUME IsAnimated(preview') PROVE preview'.delays[preview'.cursor] \in Nat
        OBVIOUS
      <4>1. preview' # NoPicture
        BY DEF IsAnimated, NoPicture
      <4> QED BY <1>2, <4>1, DelayOf
    <3>2. PlayFilm(rowOpen, timers) /\ up' = 0
      BY <1>1, <2>1
    <3>3. timers \in Seq(Timer) /\ generation \in Nat /\ rowOpen \in BOOLEAN
          /\ \A i \in DOMAIN timers : timers[i].generation <= generation
      BY DEF PreviewTypes, OneTimer
    <3> QED BY <3>1, <3>2, <3>3, PlayArms
  <2>2. CASE ~replaced
    <3>1. UNCHANGED <<generation, timers, up, preview, rowOpen>>
      BY <1>1, <1>2, <2>2 DEF playing
    <3> QED BY <3>1 DEF OneTimer, PreviewTypes
  <2> QED BY <2>1, <2>2
<1> QED BY <1>2, <1>3, <1>4

\* What is left when the i-th timer fired is the others, in their order.
LEMMA TheOthersWait ==
    ASSUME timers \in Seq(Timer), NEW i \in DOMAIN timers
    PROVE  /\ Without(i) \in Seq(Timer) /\ DOMAIN Without(i) = 1..(Len(timers) - 1)
           /\ \A j \in 1..(Len(timers) - 1) :
                 Without(i)[j] = IF j < i THEN timers[j] ELSE timers[j + 1]
<1> DEFINE n == Len(timers) - 1
<1>1. n \in Nat /\ DOMAIN timers = 1..(n + 1)
  OBVIOUS
<1>2. Without(i) = [j \in 1..n |-> IF j < i THEN timers[j] ELSE timers[j + 1]]
  BY DEF Without
<1>3. \A j \in 1..n : j \in DOMAIN timers /\ j + 1 \in DOMAIN timers
  BY <1>1
<1>4. \A j \in 1..n : (IF j < i THEN timers[j] ELSE timers[j + 1]) \in Timer
  BY <1>3
<1> HIDE DEF n
<1>5. Without(i) \in Seq(Timer)
  BY <1>1, <1>2, <1>4
<1> QED BY <1>2, <1>5 DEF n

\* A form that is edited is a form, and what is kept of it is whole.
LEMMA EditStaysWhole ==
    ASSUME PreviewTypes, NEW f \in Form, EditTo(f)
    PROVE  form' \in Form /\ lastValid' \in Preset /\ ValidPreset(lastValid') /\ WholeIsLast'
<1>1. PresetOf(f) \in Preset
  BY DEF PresetOf, Form, Preset
<1> QED BY <1>1 DEF EditTo, PreviewTypes, WholeIsLast

\* A preset that is reported is one a form can hold.
LEMMA FormOfPreset ==
    ASSUME NEW p \in Preset
    PROVE  FromPreset(p) \in Form
<1>1. p.colors \in [Fields -> Ink \cup {NoInk}] /\ {"fade1", "fade2", "reading1", "reading2"} \subseteq Fields
  BY DEF Preset, Fields
<1>2. {BandEnd(p, "fade1", "reading1"), BandEnd(p, "fade2", "reading2")} \subseteq Ink \cup {NoInk}
  BY <1>1 DEF BandEnd
<1>3. [p.colors EXCEPT !["fade1"] = BandEnd(p, "fade1", "reading1"),
                       !["fade2"] = BandEnd(p, "fade2", "reading2")] \in [Fields -> Ink \cup {NoInk}]
  BY <1>1, <1>2
<1> QED BY <1>3 DEF FromPreset, Form, Preset

\* The default preset is its own form: two metrics, one color, no file.
LEMMA PreviewInitHolds == PreviewInit => PreviewIInv
<1> SUFFICES ASSUME PreviewInit PROVE PreviewIInv
  OBVIOUS
<1> USE DEF PreviewInit
<1>1. Metrics \in [1..2 -> PanelMetric]
  <2>1. PICK first \in PanelMetric, second \in PanelMetric : first # second
    BY PreviewAssumption
  <2> DEFINE both == [i \in 1..2 |-> IF i = 1 THEN first ELSE second]
  <2>2. both \in [1..2 -> PanelMetric] /\ both[1] # both[2]
    BY <2>1
  <2> HIDE DEF both
  <2> QED BY <2>2 DEF Metrics
<1>2. lastValid = [mode |-> "dual_infographic", metrics |-> Metrics, colors |-> [f \in Fields |-> FirstInk],
                   orientation |-> 0, brightness |-> 100, image |-> NoPath]
  BY DEF DefaultInfographic
<1>3. lastValid \in Preset
  BY <1>1, <1>2, PreviewAssumption DEF Preset, DisplayMode
<1>4. ValidPreset(lastValid)
  BY <1>2 DEF ValidPreset, UsesImage
<1>5. form \in Form
  BY <1>3, FormOfPreset
<1>6. PresetOf(form) = lastValid
  <2>1. /\ BandEnd(lastValid, "fade1", "reading1") = FirstInk
        /\ BandEnd(lastValid, "fade2", "reading2") = FirstInk
    BY <1>2 DEF BandEnd, Fields
  <2>2. [lastValid.colors EXCEPT !["fade1"] = FirstInk, !["fade2"] = FirstInk] = [f \in Fields |-> FirstInk]
    BY <1>2
  <2>3. form = [mode |-> "dual_infographic", metrics |-> Metrics, colors |-> [f \in Fields |-> FirstInk],
                orientation |-> 0, brightness |-> 100, path |-> NoPath]
    BY <1>2, <2>1, <2>2 DEF FromPreset
  <2> QED BY <1>2, <2>3 DEF PresetOf, UsesImage
<1>7. PreviewTypes
  <2>1. failed \in BOOLEAN /\ rowOpen \in BOOLEAN /\ panelSeeded \in BOOLEAN
    BY Zenon
  <2>2. generation \in Nat /\ timers \in Seq(Timer) /\ up \in Nat
    OBVIOUS
  <2> QED BY <1>3, <1>4, <1>5, <2>1, <2>2, Zenon DEF PreviewTypes
<1>8. ~IsAnimated(preview) /\ ~HasPanel(status)
  BY DEF IsAnimated, NoPicture, HasPanel
<1>9. PreviewIsHonest /\ PictureIsOfSome /\ OneTimer /\ SeedComesFirst
  BY <1>8 DEF PreviewIsHonest, PictureIsOfSome, OneTimer, SeedComesFirst
<1> QED BY <1>6, <1>7, <1>9 DEF PreviewIInv, WholeIsLast

\* A frame is moved on when it has been up long enough, and nothing entered is replaced.
Paced ==
    /\ rowOpen /\ rowOpen' /\ IsAnimated(preview) /\ IsAnimated(preview')
         /\ preview'.identity = preview.identity /\ preview'.cursor # preview.cursor
       => up >= preview.delays[preview.cursor]
    /\ panelSeeded' # panelSeeded => panelEdits = 0

\* An edit of a control of the row.
LEMMA PanelEditHolds ==
    ASSUME PreviewIInv, NEW f \in Form, PanelEdit(f)
    PROVE  PreviewIInv' /\ Paced
<1>1. form' \in Form /\ lastValid' \in Preset /\ ValidPreset(lastValid') /\ WholeIsLast'
  BY EditStaysWhole DEF PanelEdit, PreviewIInv
<1>2. RefreshPicture(lastValid', status', readings') /\ rowOpen' = rowOpen /\ panelSeeded' = panelSeeded
      /\ status' = status /\ HasPanel(status)
  BY DEF PanelEdit, linked
<1>3. /\ PreviewIsHonest' /\ PictureIsOfSome' /\ OneTimer' /\ failed' \in BOOLEAN
      /\ generation' \in Nat /\ timers' \in Seq(Timer) /\ up' \in Nat
      /\ preview' # preview /\ IsAnimated(preview) /\ IsAnimated(preview')
           => preview'.identity # preview.identity
  BY <1>1, <1>2, RefreshFollows
<1>4. PreviewTypes'
  BY <1>1, <1>2, <1>3 DEF PreviewIInv, PreviewTypes
<1>5. panelSeeded /\ SeedComesFirst'
  BY <1>2 DEF PreviewIInv, SeedComesFirst, HasPanel
<1>6. Paced
  BY <1>2, <1>3 DEF Paced
<1> QED BY <1>1, <1>3, <1>4, <1>5, <1>6 DEF PreviewIInv

\* A drag of the brightness changes nothing a picture is made of.
LEMMA DragHolds == ASSUME PreviewIInv, DragPanelBrightness PROVE PreviewIInv' /\ Paced
<1> USE DEF PreviewIInv, DragPanelBrightness
<1>1. PICK percent \in {0, 100} : EditTo([form EXCEPT !.brightness = percent])
  OBVIOUS
<1> DEFINE f == [form EXCEPT !.brightness = percent]
<1>2. form \in Form /\ lastValid \in Preset
  BY DEF PreviewTypes
<1>3. form = [mode |-> form.mode, metrics |-> form.metrics, colors |-> form.colors,
              orientation |-> form.orientation, brightness |-> form.brightness, path |-> form.path]
  BY <1>2 DEF Form
<1>4. f = [mode |-> form.mode, metrics |-> form.metrics, colors |-> form.colors,
           orientation |-> form.orientation, brightness |-> percent, path |-> form.path]
  BY <1>3
<1>5. f \in Form
  BY <1>2, <1>4 DEF Form
<1> HIDE DEF f
<1>6. form' \in Form /\ lastValid' \in Preset /\ ValidPreset(lastValid') /\ WholeIsLast'
  BY <1>1, <1>5, EditStaysWhole DEF f
<1>7. /\ lastValid'.mode = lastValid.mode /\ lastValid'.metrics = lastValid.metrics
      /\ lastValid'.colors = lastValid.colors /\ lastValid'.orientation = lastValid.orientation
      /\ lastValid'.image = lastValid.image
  <2>1. CASE ValidPreset(PresetOf(f))
    <3>1. lastValid' = PresetOf(f)
      BY <1>1, <2>1 DEF EditTo, f
    <3>2. ValidPreset(PresetOf(form))
      BY <1>4, <2>1 DEF ValidPreset, PresetOf
    <3>3. lastValid = PresetOf(form)
      BY <3>2 DEF WholeIsLast
    <3> QED BY <1>4, <3>1, <3>3 DEF PresetOf
  <2>2. CASE ~ValidPreset(PresetOf(f))
    BY <1>1, <2>2 DEF EditTo, f
  <2> QED BY <2>1, <2>2
<1>8. Rendered(lastValid', Read(readings)) = Rendered(lastValid, Read(readings))
      /\ (Compiles(lastValid') <=> Compiles(lastValid))
  BY <1>7 DEF Rendered, Compiles, BandEnd
<1>9. UNCHANGED <<preview, failed, generation, timers, up, rowOpen, status, readings, panelSeeded>>
  BY DEF playing, linked
<1>10. PreviewIsHonest'
  BY <1>8, <1>9 DEF PreviewIsHonest
<1>11. PictureIsOfSome' /\ OneTimer' /\ PreviewTypes'
  BY <1>6, <1>9 DEF PictureIsOfSome, OneTimer, PreviewTypes
<1>12. panelSeeded
  BY DEF HasPanel, SeedComesFirst
<1>13. SeedComesFirst' /\ Paced
  BY <1>9, <1>12 DEF SeedComesFirst, Paced
<1> QED BY <1>6, <1>10, <1>11, <1>13

\* A status and a snapshot arrive: the first one seeds the form before anything is edited.
LEMMA LinkHolds == ASSUME PreviewIInv, RefreshLink PROVE PreviewIInv' /\ Paced
<1> USE DEF PreviewIInv
<1>1. /\ RefreshPicture(lastValid', status', readings')
      /\ panelSeeded' = (panelSeeded \/ status' # Unsent)
      /\ UNCHANGED <<rowOpen, panelEdits>>
  BY DEF RefreshLink
<1>2. form' \in Form /\ lastValid' \in Preset /\ ValidPreset(lastValid') /\ WholeIsLast'
  <2>1. CASE ~panelSeeded /\ status' # Unsent /\ status'.committed # Unsent
    <3>1. PICK there \in BOOLEAN, given \in Reported \cup {Unsent} :
            status' \in {Unsent, [panel |-> there, committed |-> given]}
      BY DEF RefreshLink
    <3>2. status'.committed \in Preset
      BY <2>1, <3>1, PreviewAssumption
    <3>3. EditTo(FromPreset(status'.committed))
      BY <2>1 DEF RefreshLink
    <3> QED BY <3>2, <3>3, FormOfPreset, EditStaysWhole
  <2>2. CASE ~(~panelSeeded /\ status' # Unsent /\ status'.committed # Unsent)
    <3>1. UNCHANGED <<form, lastValid>>
      BY <2>2 DEF RefreshLink
    <3> QED BY <3>1 DEF PreviewTypes, WholeIsLast
  <2> QED BY <2>1, <2>2
<1>3. /\ PreviewIsHonest' /\ PictureIsOfSome' /\ OneTimer' /\ failed' \in BOOLEAN
      /\ generation' \in Nat /\ timers' \in Seq(Timer) /\ up' \in Nat
      /\ preview' # preview /\ IsAnimated(preview) /\ IsAnimated(preview')
           => preview'.identity # preview.identity
  BY <1>1, <1>2, RefreshFollows
<1>4. panelSeeded' \in BOOLEAN
  BY <1>1, Zenon
<1>5. PreviewTypes'
  BY <1>1, <1>2, <1>3, <1>4 DEF PreviewTypes
<1>6. SeedComesFirst'
  BY <1>1 DEF SeedComesFirst
<1>7. panelSeeded' # panelSeeded => panelEdits = 0
  BY <1>1 DEF SeedComesFirst, PreviewTypes
<1>8. Paced
  BY <1>1, <1>3, <1>7 DEF Paced
<1> QED BY <1>2, <1>3, <1>5, <1>6, <1>8

\* Time: what the timers have left and what the frame has been up move together.
LEMMA TickHolds == ASSUME PreviewIInv, PreviewTick PROVE PreviewIInv' /\ Paced
<1> USE DEF PreviewIInv
<1>1. /\ UNCHANGED <<form, lastValid, preview, failed, generation, rowOpen, status, readings,
                     panelSeeded, panelEdits>>
      /\ up' = up + 1
  BY DEF PreviewTick, screen, linked
<1>2. timers \in Seq(Timer) /\ up \in Nat
  BY DEF PreviewTypes
<1> DEFINE n == Len(timers)
           later(t) == [t EXCEPT !.left = IF @ > 0 THEN @ - 1 ELSE 0]
<1>3. \A t \in Timer : /\ later(t) \in Timer /\ t.left \in Nat /\ later(t).left \in Nat
                       /\ later(t).generation = t.generation /\ later(t).left >= t.left - 1
  <2> TAKE t \in Timer
  <2>1. t = [generation |-> t.generation, left |-> t.left] /\ t.generation \in Nat /\ t.left \in Nat
    BY DEF Timer
  <2>2. later(t) = [generation |-> t.generation, left |-> IF t.left > 0 THEN t.left - 1 ELSE 0]
    BY <2>1
  <2> HIDE DEF later
  <2>3. later(t).generation = t.generation /\ later(t).left = IF t.left > 0 THEN t.left - 1 ELSE 0
    BY <2>2
  <2> QED BY <2>1, <2>2, <2>3 DEF Timer
<1>4. n \in Nat /\ DOMAIN timers = 1..n /\ timers' = [i \in 1..n |-> later(timers[i])]
  BY <1>2 DEF PreviewTick
<1> HIDE DEF n, later
<1>5. \A i \in 1..n : timers[i] \in Timer /\ timers'[i] = later(timers[i])
  BY <1>2, <1>4
<1>6. /\ timers' \in Seq(Timer) /\ DOMAIN timers' = DOMAIN timers
      /\ \A i \in DOMAIN timers :
           /\ timers'[i].generation = timers[i].generation /\ timers'[i].left >= timers[i].left - 1
           /\ timers[i].left \in Nat /\ timers'[i].left \in Nat
  BY <1>3, <1>4, <1>5
<1>7. OneTimer'
  <2>1. \A i \in DOMAIN timers' : timers'[i].generation <= generation'
    BY <1>1, <1>6 DEF OneTimer
  <2>2. ASSUME rowOpen, IsAnimated(preview)
        PROVE  \E i \in DOMAIN timers' :
                 /\ timers'[i].generation = generation'
                 /\ \A j \in DOMAIN timers' : timers'[j].generation = generation' => j = i
                 /\ up' + timers'[i].left >= preview'.delays[preview'.cursor]
    <3>1. PICK i \in DOMAIN timers :
            /\ timers[i].generation = generation
            /\ \A j \in DOMAIN timers : timers[j].generation = generation => j = i
            /\ up + timers[i].left >= preview.delays[preview.cursor]
      BY <2>2 DEF OneTimer
    <3>2. preview.delays[preview.cursor] \in Nat
      <4>1. preview # NoPicture
        BY <2>2 DEF IsAnimated, NoPicture
      <4> QED BY <2>2, <4>1, DelayOf DEF PictureIsOfSome
    <3>3. up' + timers'[i].left >= preview'.delays[preview'.cursor]
      BY <1>1, <1>2, <1>6, <3>1, <3>2
    <3> QED BY <1>1, <1>6, <3>1, <3>3
  <2> QED BY <1>1, <2>1, <2>2 DEF OneTimer
<1>8. PreviewTypes'
  BY <1>1, <1>2, <1>6 DEF PreviewTypes
<1>9. WholeIsLast' /\ PreviewIsHonest' /\ PictureIsOfSome' /\ SeedComesFirst' /\ Paced
  BY <1>1 DEF WholeIsLast, PreviewIsHonest, PictureIsOfSome, SeedComesFirst, Paced
<1> QED BY <1>7, <1>8, <1>9

\* A timer fires: one left behind changes nothing, the one of the generation shows the
\* next frame and arms its successor.
LEMMA TimerHolds ==
    ASSUME PreviewIInv, NEW i \in DOMAIN timers, FilmTimerFires(i)
    PROVE  PreviewIInv' /\ Paced
<1> USE DEF PreviewIInv
<1>1. /\ timers[i].left = 0
      /\ UNCHANGED <<form, lastValid, failed, rowOpen, status, readings, panelSeeded, panelEdits>>
  BY DEF FilmTimerFires, linked
<1>2. timers \in Seq(Timer) /\ up \in Nat /\ generation \in Nat /\ rowOpen \in BOOLEAN
      /\ \A j \in DOMAIN timers : timers[j].generation <= generation
  BY DEF PreviewTypes, OneTimer
<1> DEFINE n == Len(timers) - 1
<1>3. /\ Without(i) \in Seq(Timer) /\ DOMAIN Without(i) = 1..n
      /\ \A j \in 1..n : Without(i)[j] = IF j < i THEN timers[j] ELSE timers[j + 1]
  BY <1>2, TheOthersWait
<1>4. n \in Nat /\ DOMAIN timers = 1..(n + 1) /\ i \in 1..(n + 1)
  BY <1>2
<1> HIDE DEF n
<1>5. \A j \in DOMAIN Without(i) : Without(i)[j].generation <= generation
  <2> SUFFICES ASSUME NEW j \in 1..n PROVE Without(i)[j].generation <= generation
    BY <1>3
  <2>1. j \in DOMAIN timers /\ j + 1 \in DOMAIN timers
    BY <1>4
  <2>2. timers[j].generation <= generation /\ timers[j + 1].generation <= generation
    BY <1>2, <2>1
  <2>3. Without(i)[j] = timers[j] \/ Without(i)[j] = timers[j + 1]
    BY <1>3
  <2> QED BY <2>2, <2>3
<1>6. CASE timers[i].generation = generation /\ IsAnimated(preview)
  <2>1. /\ preview' = [preview EXCEPT !.cursor = (@ % Len(preview.delays)) + 1]
        /\ PlayFilm(rowOpen, Without(i)) /\ up' = 0
    BY <1>6 DEF FilmTimerFires
  <2>2. preview # NoPicture
    BY <1>6 DEF IsAnimated, NoPicture
  <2>3. PICK p, telemetry : PictureOf(preview, p, telemetry)
    BY <2>2 DEF PictureIsOfSome
  <2>4. /\ preview.of = "film" /\ preview.delays \in Seq(Nat) /\ preview.cursor \in 1..Len(preview.delays)
        /\ \A c \in 1..Len(preview.delays) : preview.delays[c] \in Nat
    BY <1>6, <2>3, DelayOf
  <2> DEFINE next == (preview.cursor % Len(preview.delays)) + 1
  <2>5. next \in 1..Len(preview.delays)
    BY <2>4
  <2>6. preview = [of |-> "film", identity |-> preview.identity, content |-> preview.content,
                   delays |-> preview.delays, cursor |-> preview.cursor]
    BY <2>3, <2>4 DEF PictureOf
  <2>7. preview' = [of |-> "film", identity |-> preview.identity, content |-> preview.content,
                    delays |-> preview.delays, cursor |-> next]
    BY <2>1, <2>6
  <2> HIDE DEF next
  <2>8. /\ preview'.of = "film" /\ preview'.identity = preview.identity /\ preview'.content = preview.content
        /\ preview'.delays = preview.delays /\ preview'.cursor = next
    BY <2>7
  <2>9. PictureOf(preview', p, telemetry)
    BY <2>3, <2>4, <2>5, <2>7, <2>8 DEF PictureOf
  <2>10. preview' # NoPicture
    BY <2>8 DEF NoPicture
  <2>11. PictureIsOfSome' /\ PreviewIsHonest'
    <3>1. PictureIsOfSome'
      BY <2>9 DEF PictureIsOfSome
    <3>2. PreviewIsHonest'
      BY <1>1, <2>2, <2>8, <2>10 DEF PreviewIsHonest
    <3> QED BY <3>1, <3>2
  <2>12. preview'.delays[preview'.cursor] \in Nat
    BY <2>4, <2>5, <2>8
  <2>13. OneTimer' /\ generation' \in Nat /\ timers' \in Seq(Timer) /\ up' \in Nat
    BY <1>1, <1>2, <1>3, <1>5, <2>1, <2>12, PlayArms
  <2>14. PreviewTypes'
    BY <1>1, <2>13 DEF PreviewTypes
  <2>15. rowOpen => up >= preview.delays[preview.cursor]
    <3> SUFFICES ASSUME rowOpen PROVE up >= preview.delays[preview.cursor]
      OBVIOUS
    <3>1. PICK k \in DOMAIN timers :
            /\ \A j \in DOMAIN timers : timers[j].generation = generation => j = k
            /\ up + timers[k].left >= preview.delays[preview.cursor]
      BY <1>6 DEF OneTimer
    <3>2. k = i
      BY <1>6, <3>1
    <3>3. up + 0 >= preview.delays[preview.cursor]
      BY <1>1, <3>1, <3>2
    <3> QED BY <1>2, <2>4, <3>3
  <2>16. Paced
    BY <1>1, <2>15 DEF Paced
  <2>17. WholeIsLast' /\ SeedComesFirst'
    BY <1>1 DEF WholeIsLast, SeedComesFirst
  <2> QED BY <2>11, <2>13, <2>14, <2>16, <2>17
<1>7. CASE ~(timers[i].generation = generation /\ IsAnimated(preview))
  <2>1. timers' = Without(i) /\ UNCHANGED <<preview, generation, up>>
    BY <1>7 DEF FilmTimerFires
  <2>2. PreviewTypes' /\ WholeIsLast' /\ PreviewIsHonest' /\ PictureIsOfSome' /\ SeedComesFirst' /\ Paced
    BY <1>1, <1>3, <2>1 DEF PreviewTypes, WholeIsLast, PreviewIsHonest, PictureIsOfSome, SeedComesFirst, Paced
  <2>3. \A j \in DOMAIN timers' : timers'[j].generation <= generation'
    BY <1>5, <2>1
  <2>4. ASSUME rowOpen, IsAnimated(preview)
        PROVE  \E k \in DOMAIN timers' :
                 /\ timers'[k].generation = generation'
                 /\ \A j \in DOMAIN timers' : timers'[j].generation = generation' => j = k
                 /\ up' + timers'[k].left >= preview'.delays[preview'.cursor]
    <3>1. PICK k \in DOMAIN timers :
            /\ timers[k].generation = generation
            /\ \A j \in DOMAIN timers : timers[j].generation = generation => j = k
            /\ up + timers[k].left >= preview.delays[preview.cursor]
      BY <2>4 DEF OneTimer
    <3> DEFINE m == IF k < i THEN k ELSE k - 1
    <3>2. k # i
      BY <1>7, <2>4, <3>1
    <3>3. m \in 1..n /\ Without(i)[m] = timers[k]
      BY <1>3, <1>4, <3>1, <3>2
    <3>4. ASSUME NEW j \in 1..n, Without(i)[j].generation = generation PROVE j = m
      <4>1. CASE j < i
        BY <1>3, <1>4, <3>1, <3>4, <4>1
      <4>2. CASE ~(j < i)
        <5>1. j + 1 \in DOMAIN timers /\ Without(i)[j] = timers[j + 1]
          BY <1>3, <1>4, <4>2
        <5>2. j + 1 = k
          BY <3>1, <3>4, <5>1
        <5> QED BY <1>4, <4>2, <5>2
      <4> QED BY <4>1, <4>2
    <3> HIDE DEF m
    <3> QED BY <1>3, <2>1, <3>1, <3>3, <3>4
  <2>5. OneTimer'
    BY <1>1, <2>1, <2>3, <2>4 DEF OneTimer
  <2> QED BY <2>2, <2>5
<1> QED BY <1>6, <1>7

\* Opening or closing the row plays its film from the frame it is on, or stops it.
LEMMA ToggleHolds == ASSUME PreviewIInv, ToggleRow PROVE PreviewIInv' /\ Paced
<1> USE DEF PreviewIInv
<1>1. /\ rowOpen' = ~rowOpen /\ preview' = preview /\ PlayFilm(rowOpen', timers) /\ up' = 0
      /\ UNCHANGED <<form, lastValid, failed, status, readings, panelSeeded, panelEdits>>
  BY DEF ToggleRow, linked
<1>2. timers \in Seq(Timer) /\ generation \in Nat /\ rowOpen' \in BOOLEAN
      /\ \A j \in DOMAIN timers : timers[j].generation <= generation
  BY <1>1, Zenon DEF PreviewTypes, OneTimer
<1>3. IsAnimated(preview') => preview'.delays[preview'.cursor] \in Nat
  <2> SUFFICES ASSUME IsAnimated(preview) PROVE preview.delays[preview.cursor] \in Nat
    BY <1>1
  <2>1. preview # NoPicture
    BY DEF IsAnimated, NoPicture
  <2> QED BY <2>1, DelayOf DEF PictureIsOfSome
<1>4. OneTimer' /\ generation' \in Nat /\ timers' \in Seq(Timer) /\ up' \in Nat
  BY <1>1, <1>2, <1>3, PlayArms
<1>5. PreviewTypes'
  BY <1>1, <1>2, <1>4 DEF PreviewTypes
<1>6. WholeIsLast' /\ PreviewIsHonest' /\ PictureIsOfSome' /\ SeedComesFirst' /\ Paced
  BY <1>1 DEF WholeIsLast, PreviewIsHonest, PictureIsOfSome, SeedComesFirst, Paced
<1> QED BY <1>4, <1>5, <1>6

\* A release, a dialog, and the file it answers with.
LEMMA DialogHolds ==
    ASSUME PreviewIInv,
           ReleaseBrightness \/ OpenDialog \/ CancelDialog \/ ChooseImage \/ UNCHANGED previewVars
    PROVE  PreviewIInv' /\ Paced
<1> USE DEF PreviewIInv
<1>1. CASE OpenDialog \/ CancelDialog \/ UNCHANGED previewVars
  <2>1. UNCHANGED <<form, lastValid, preview, failed, generation, timers, up, rowOpen, status, readings,
                    panelSeeded, panelEdits>>
    BY <1>1 DEF OpenDialog, CancelDialog, previewVars, screen, playing, linked
  <2> QED BY <2>1
          DEF PreviewTypes, WholeIsLast, PreviewIsHonest, PictureIsOfSome, OneTimer, SeedComesFirst, Paced
<1>2. CASE ReleaseBrightness \/ ChooseImage
  <2>1. form' \in Form /\ lastValid' \in Preset /\ ValidPreset(lastValid') /\ WholeIsLast'
    <3>1. CASE ReleaseBrightness
      BY <3>1 DEF ReleaseBrightness, PreviewTypes, WholeIsLast
    <3>2. CASE ChooseImage
      <4>1. PICK path \in Path : EditTo([form EXCEPT !.path = path])
        BY <3>2 DEF ChooseImage
      <4>2. [form EXCEPT !.path = path] \in Form
        BY DEF PreviewTypes, Form
      <4> QED BY <4>1, <4>2, EditStaysWhole
    <3> QED BY <1>2, <3>1, <3>2
  <2>2. /\ RefreshPicture(lastValid', status', readings')
        /\ UNCHANGED <<rowOpen, status, readings, panelSeeded, panelEdits>>
    BY <1>2 DEF ReleaseBrightness, ChooseImage, linked
  <2>3. /\ PreviewIsHonest' /\ PictureIsOfSome' /\ OneTimer' /\ failed' \in BOOLEAN
        /\ generation' \in Nat /\ timers' \in Seq(Timer) /\ up' \in Nat
        /\ preview' # preview /\ IsAnimated(preview) /\ IsAnimated(preview')
             => preview'.identity # preview.identity
    BY <2>1, <2>2, RefreshFollows
  <2>4. PreviewTypes' /\ SeedComesFirst' /\ Paced
    BY <2>1, <2>2, <2>3 DEF PreviewTypes, SeedComesFirst, Paced
  <2> QED BY <2>1, <2>3, <2>4
<1> QED BY <1>1, <1>2

\* Every step keeps it and the pace.
LEMMA PreviewStepHolds == ASSUME PreviewIInv, [PreviewNext]_previewVars PROVE PreviewIInv' /\ Paced
<1>1. form \in Form
  BY DEF PreviewIInv, PreviewTypes
<1>2. ASSUME ChooseDisplayMode PROVE PreviewIInv' /\ Paced
  <2>1. PICK mode \in DisplayMode : PanelEdit([form EXCEPT !.mode = mode])
    BY <1>2 DEF ChooseDisplayMode
  <2>2. [form EXCEPT !.mode = mode] \in Form
    BY <1>1 DEF Form
  <2> QED BY <2>1, <2>2, PanelEditHolds
<1>3. ASSUME ChooseMetric PROVE PreviewIInv' /\ Paced
  <2>1. PICK slot \in 1..ReadingSlots(form.mode), metric \in PanelMetric :
           PanelEdit([form EXCEPT !.metrics[slot] = metric])
    BY <1>3 DEF ChooseMetric
  <2>2. slot \in 1..2
    BY DEF ReadingSlots
  <2>3. [form EXCEPT !.metrics[slot] = metric] \in Form
    BY <1>1, <2>2 DEF Form
  <2> QED BY <2>1, <2>3, PanelEditHolds
<1>4. ASSUME ChoosePanelColor PROVE PreviewIInv' /\ Paced
  <2>1. PICK field \in Fields, ink \in Ink : PanelEdit([form EXCEPT !.colors[field] = ink])
    BY <1>4 DEF ChoosePanelColor
  <2>2. [form EXCEPT !.colors[field] = ink] \in Form
    BY <1>1 DEF Form
  <2> QED BY <2>1, <2>2, PanelEditHolds
<1>5. ASSUME \E i \in DOMAIN timers : FilmTimerFires(i) PROVE PreviewIInv' /\ Paced
  BY <1>5, TimerHolds
<1> QED BY <1>2, <1>3, <1>4, <1>5, DragHolds, LinkHolds, TickHolds, ToggleHolds, DialogHolds DEF PreviewNext

\* What the preview relies on holds of every behaviour of it.
THEOREM PreviewInductive == PreviewSpec => []PreviewIInv
<1>1. PreviewIInv /\ [PreviewNext]_previewVars => PreviewIInv'
  BY PreviewStepHolds
<1> QED BY <1>1, PreviewInitHolds, PTL DEF PreviewSpec

\* The preview is the picture of the last whole preset, and an animation on an showing row
\* has the one timer that moves it on, for any presets, files and readings.
THEOREM PreviewStaysAlive == PreviewSpec => []PreviewIsAlive
<1>1. PreviewIInv => PreviewIsAlive
  <2> SUFFICES ASSUME PreviewIInv PROVE PreviewIsHonest /\ OpenFilmPlays
    BY DEF PreviewIsAlive
  <2>1. ASSUME rowOpen, IsAnimated(preview)
        PROVE  Cardinality({i \in DOMAIN timers : timers[i].generation = generation}) = 1
    <3>1. PICK i \in DOMAIN timers :
            /\ timers[i].generation = generation
            /\ \A j \in DOMAIN timers : timers[j].generation = generation => j = i
      BY <2>1 DEF PreviewIInv, OneTimer
    <3>2. {j \in DOMAIN timers : timers[j].generation = generation} = {i}
      BY <3>1
    <3> QED BY <3>2, FS_Singleton
  <2> QED BY <2>1 DEF PreviewIInv, OpenFilmPlays
<1> QED BY <1>1, PreviewInductive, PTL

\* A frame on an showing row stays up as long as its file says, and the status that seeds
\* the form replaces nothing the operator entered, however many timers are left behind.
THEOREM FilmStaysOnPace == PreviewSpec => FilmKeepsPace
<1>1. PreviewIInv /\ [PreviewNext]_previewVars => [Paced]_previewVars
  BY PreviewStepHolds
<1> QED BY <1>1, PreviewInductive, PTL DEF PreviewSpec, FilmKeepsPace, Paced
=============================================================================
