-------------------------- MODULE DeviceLinkProofs --------------------------
(***************************************************************************)
(* What holds of a device's link for every number of queued and polled     *)
(* reports, every read limit and every picture: the interface that is      *)
(* claimed has an owner, a device that can be found is found, and an       *)
(* acknowledged frame is on the glass.  Then what is read beside the       *)
(* devices: the processor's load, however far its counters go.             *)
(***************************************************************************)
EXTENDS DeviceLink, Machine, TLAPS

-----------------------------------------------------------------------------
(* Sequences of reports, by what they hold.                                *)

Holds(s, x) == \E i \in 1..Len(s) : s[i] = x

\* Reading a report takes the first and keeps the order of the rest.
LEMMA TailIsRest ==
    ASSUME NEW S, NEW s \in Seq(S), s # <<>>
    PROVE  /\ Head(s) \in S /\ Tail(s) \in Seq(S)
           /\ Len(s) \in Nat /\ Len(s) > 0 /\ Len(Tail(s)) = Len(s) - 1
           /\ s[1] = Head(s)
           /\ \A i \in 1..Len(Tail(s)) : Tail(s)[i] = s[i + 1]
  OBVIOUS

\* A report that arrives is the last.
LEMMA AppendIsLast ==
    ASSUME NEW S, NEW s \in Seq(S), NEW y \in S
    PROVE  /\ Append(s, y) \in Seq(S)
           /\ Len(s) \in Nat /\ Len(Append(s, y)) = Len(s) + 1
           /\ Append(s, y)[Len(s) + 1] = y
           /\ \A i \in 1..Len(s) : Append(s, y)[i] = s[i]
  OBVIOUS

\* What a drain leaves keeps its order.
LEMMA DrainIsRest ==
    ASSUME NEW S, NEW s \in Seq(S), NEW n \in Nat
    PROVE  \A i \in 1..Len(SubSeq(s, n + 1, Len(s))) :
             /\ i + n \in 1..Len(s)
             /\ SubSeq(s, n + 1, Len(s))[i] = s[i + n]
  OBVIOUS

\* What a queue holds after a report was read.
LEMMA TailHolds ==
    ASSUME NEW S, NEW s \in Seq(S), s # <<>>, NEW x
    PROVE  /\ Holds(Tail(s), x) => Holds(s, x)
           /\ Holds(s, x) => x = Head(s) \/ Holds(Tail(s), x)
<1> USE TailIsRest DEF Holds
<1>1. ASSUME NEW i \in 1..Len(Tail(s)), Tail(s)[i] = x PROVE Holds(s, x)
  <2>1. i + 1 \in 1..Len(s) /\ s[i + 1] = x
    BY <1>1
  <2>2. QED
    BY <2>1
<1>2. ASSUME NEW i \in 1..Len(s), s[i] = x, x # Head(s) PROVE Holds(Tail(s), x)
  <2>1. i - 1 \in 1..Len(Tail(s)) /\ Tail(s)[i - 1] = x
    BY <1>2
  <2>2. QED
    BY <2>1
<1>3. QED
  BY <1>1, <1>2

\* What it holds after one arrived.
LEMMA AppendHolds ==
    ASSUME NEW S, NEW s \in Seq(S), NEW y \in S, NEW x
    PROVE  Holds(Append(s, y), x) <=> Holds(s, x) \/ x = y
<1> USE AppendIsLast DEF Holds
<1>1. ASSUME NEW i \in 1..Len(s), s[i] = x PROVE Holds(Append(s, y), x)
  <2>1. i \in 1..Len(Append(s, y)) /\ Append(s, y)[i] = x
    BY <1>1
  <2>2. QED
    BY <2>1
<1>2. Holds(Append(s, y), y)
  <2>1. Len(s) + 1 \in 1..Len(Append(s, y))
    OBVIOUS
  <2>2. QED
    BY <2>1
<1>3. ASSUME NEW i \in 1..Len(Append(s, y)), Append(s, y)[i] = x, x # y PROVE Holds(s, x)
  <2>1. i \in 1..Len(s)
    BY <1>3
  <2>2. QED
    BY <1>3, <2>1
<1>4. QED
  BY <1>1, <1>2, <1>3

-----------------------------------------------------------------------------
(* The connection.                                                         *)

Asked == {"firmware", "display", "lighting"}
Ack == {"start_ack", "end_ack"}
Report == {"status"} \cup Asked \cup Ack
Command == Asked \cup {"start", "end"}
Asking == {"open", "claim", "ask", "collect", "resolve"}
Framing == {"start", "start_ack", "pixels", "end", "end_ack"}
Shown == Picture \cup {None, Torn}
Frame == [picture : Picture \cup {None}, left : 0..2, acks : 0..4,
          result : {"none", "ok", "error"}]
Panel == [glass : Shown, hidden : Shown, filled : Shown, ready : BOOLEAN]

Kinds ==
    /\ given \in [device : {"kraken", "rgb"}, busy : BOOLEAN, faults : SUBSET Faults]
    /\ pc \in Asking \cup Framing \cup {"absent", "idle"}
    /\ queue \in Seq(Report)
    /\ asked \in [answers : SUBSET Exchanges, reads : 0..MaxReads]
    /\ claimed \in BOOLEAN /\ link \in BOOLEAN
    /\ frame \in Frame
    /\ plugged \in BOOLEAN
    /\ unanswered \in Seq(Command)
    /\ panel \in Panel
    /\ spent \in [status : 0..MaxStatus, frames : 0..MaxFrames]

\* The acknowledgements that can have come by now, over both sequences.
Passed ==
    IF pc \in Asking THEN 0
    ELSE IF pc \in {"start", "start_ack"} THEN 2 * (2 - frame.left)
    ELSE IF pc \in {"pixels", "end", "end_ack"} THEN 2 * (2 - frame.left) + 1
    ELSE 4

\* No acknowledgement is counted before it could have come.
FrameCounts == frame.acks <= Passed /\ (pc \in Framing => frame.left \in 1..2)

\* The bulk interface is claimed on the way to a link to a Kraken, or for one.
ClaimFits ==
    /\ pc \in {"open", "claim"} => ~claimed
    /\ pc \in Asking => ~link
    /\ pc = "claim" \/ claimed => Is("kraken")
    /\ ClaimIsTheLinks

\* The drain reaches the end of what was queued, and the reads of a query reach
\* past what the driver polls for (hid.rs: MAX_DRAINED_REPORTS, MAX_QUERY_READS).
RoomToAsk == Backlog <= Drained /\ MaxStatus + 2 <= MaxReads

\* Nothing the device says is lost before it is read: each report is in the queue,
\* read, or still to come.
FoundWhenItCan ==
    (RoomToAsk /\ given.faults = {}) =>
        /\ plugged
        /\ pc \in {"open", "claim", "ask"} => unanswered = <<>>
        /\ pc = "open" => Len(queue) = Backlog /\ spent.status = 0
        /\ pc \in {"claim", "ask"} => Len(queue) = spent.status
        /\ pc = "collect" =>
             /\ Len(queue) + (MaxReads - asked.reads) + Len(unanswered) = spent.status + 2
             /\ \A e \in Exchanges : e \in asked.answers \/ Holds(queue, e) \/ Holds(unanswered, e)
        /\ pc = "resolve" => asked.answers = Exchanges
        /\ pc \in {"ask", "collect", "resolve"} => claimed = (Is("kraken") /\ ~given.busy)
        /\ pc \in Framing \cup {"idle", "absent"} => link = (Is("rgb") \/ ~given.busy)

LinkInv == Kinds /\ FrameCounts /\ ClaimFits /\ FoundWhenItCan

\* Opening: before anything is asked.
LEMMA LinkStarts == Init => LinkInv
<1> SUFFICES ASSUME Init PROVE LinkInv
  OBVIOUS
<1>1. Kinds
  <2>1. queue \in Seq(Report)
    BY DeviceLinkAssumption DEF Init, Report
  <2>2. given \in [device : {"kraken", "rgb"}, busy : BOOLEAN, faults : SUBSET Faults]
    BY DEF Init
  <2>3. asked \in [answers : SUBSET Exchanges, reads : 0..MaxReads]
    BY DeviceLinkAssumption DEF Init
  <2>4. unanswered \in Seq(Command)
    BY DEF Init
  <2>5. /\ frame \in Frame
        /\ panel \in Panel
        /\ spent \in [status : 0..MaxStatus, frames : 0..MaxFrames]
    BY DeviceLinkAssumption DEF Init, Shown, Frame, Panel
  <2>6. /\ pc \in Asking \cup Framing \cup {"absent", "idle"}
        /\ claimed \in BOOLEAN /\ link \in BOOLEAN /\ plugged \in BOOLEAN
    BY DEF Init, Asking
  <2>7. QED
    BY <2>1, <2>2, <2>3, <2>4, <2>5, <2>6 DEF Kinds
<1>2. FrameCounts
  BY DEF Init, FrameCounts, Passed, Framing
<1>3. ClaimFits
  BY DEF Init, ClaimFits, ClaimIsTheLinks
<1>4. FoundWhenItCan
  <2>1. Len(queue) = Backlog
    BY DeviceLinkAssumption DEF Init
  <2>2. QED
    BY <2>1 DEF Init, FoundWhenItCan, Framing
<1>5. QED
  BY <1>1, <1>2, <1>3, <1>4 DEF LinkInv

\* drain leaves nothing of what was queued before, when there is room for it.
LEMMA OpenLinks == ASSUME LinkInv, Open PROVE LinkInv'
<1>1. /\ pc = "open" /\ pc' \in {"absent", "claim", "ask"}
      /\ UNCHANGED <<given, plugged, asked, claimed, link, frame, unanswered, panel, spent>>
      /\ ~plugged => pc' = "absent"
      /\ plugged => (pc' = "claim" /\ Is("kraken")) \/ (pc' = "ask" /\ ~Is("kraken"))
  BY DEF Open, world, connection
<1>2. queue' = SubSeq(queue, Drained + 1, Len(queue)) /\ queue' \in Seq(Report)
  BY DeviceLinkAssumption DEF Open, Drain, LinkInv, Kinds
<1>3. Kinds'
  BY <1>1, <1>2 DEF LinkInv, Kinds, Asking, Exchanges, Essential, Is
<1>4. FrameCounts' /\ ClaimFits'
  <2>1. FrameCounts'
    BY <1>1 DEF LinkInv, Kinds, Frame, FrameCounts, Passed, Asking, Framing
  <2>2. ClaimFits'
    BY <1>1 DEF LinkInv, Kinds, ClaimFits, ClaimIsTheLinks, Asking, Is
  <2>3. QED
    BY <2>1, <2>2
<1>5. FoundWhenItCan'
  <2>1. ASSUME RoomToAsk PROVE Len(queue) = Backlog => Len(queue') = 0
    BY <1>2, <2>1, DeviceLinkAssumption DEF RoomToAsk, LinkInv, Kinds
  <2>2. ASSUME RoomToAsk, given.faults = {}
        PROVE  plugged /\ Len(queue') = spent.status /\ unanswered = <<>>
    BY <1>1, <2>1, <2>2 DEF LinkInv, FoundWhenItCan
  <2>3. pc' = "ask" => claimed = (Is("kraken") /\ ~given.busy)
    BY <1>1 DEF LinkInv, ClaimFits, Kinds
  <2>4. QED
    BY <1>1, <2>2, <2>3 DEF FoundWhenItCan, RoomToAsk, Framing, Is
<1>6. QED
  BY <1>3, <1>4, <1>5 DEF LinkInv

\* Usbfs::claim, then the query.
LEMMA ClaimLinks == ASSUME LinkInv, Claim PROVE LinkInv'
<1>1. /\ pc = "claim" /\ pc' = "ask" /\ claimed' = (plugged /\ ~given.busy)
      /\ UNCHANGED <<given, plugged, queue, asked, link, frame, unanswered, panel, spent>>
  BY DEF Claim, world
<1>2. Kinds'
  BY <1>1 DEF LinkInv, Kinds, Asking, Exchanges, Essential, Is
<1>3. FrameCounts' /\ ClaimFits'
  <2>1. FrameCounts'
    BY <1>1 DEF LinkInv, Kinds, Frame, FrameCounts, Passed, Asking, Framing
  <2>2. ClaimFits'
    BY <1>1 DEF LinkInv, Kinds, ClaimFits, ClaimIsTheLinks, Asking, Is
  <2>3. QED
    BY <2>1, <2>2
<1>4. FoundWhenItCan'
  BY <1>1 DEF LinkInv, ClaimFits, FoundWhenItCan, RoomToAsk, Framing, Is
<1>5. QED
  BY <1>2, <1>3, <1>4 DEF LinkInv

\* Both requests are out: everything asked is still to come.
LEMMA AskLinks == ASSUME LinkInv, Ask PROVE LinkInv'
<1>1. /\ pc = "ask" /\ UNCHANGED <<given, plugged, queue, claimed, link, frame, panel, spent>>
      /\ \/ /\ unanswered' = Requests /\ asked' = [asked EXCEPT !.reads = MaxReads]
            /\ pc' = "collect"
         \/ /\ ~plugged \/ May("refusal")
            /\ unanswered' \in {<<>>, <<"firmware">>} /\ pc' = "resolve" /\ UNCHANGED asked
  BY DEF Ask, world
<1>2. /\ Requests \in Seq(Command) /\ Len(Requests) = 2
      /\ Requests[1] = "firmware" /\ Requests[2] = Essential
      /\ <<"firmware">> \in Seq(Command) /\ <<>> \in Seq(Command)
  BY DEF Requests, Command, Asked, Essential
<1>3. Kinds'
  <2>1. asked' \in [answers : SUBSET Exchanges, reads : 0..MaxReads]
    BY <1>1, DeviceLinkAssumption DEF LinkInv, Kinds
  <2>2. QED
    BY <1>1, <1>2, <2>1 DEF LinkInv, Kinds, Asking, Exchanges, Essential, Is
<1>4. FrameCounts' /\ ClaimFits'
  <2>1. FrameCounts'
    BY <1>1 DEF LinkInv, Kinds, Frame, FrameCounts, Passed, Asking, Framing
  <2>2. ClaimFits'
    BY <1>1 DEF LinkInv, Kinds, ClaimFits, ClaimIsTheLinks, Asking, Is
  <2>3. QED
    BY <2>1, <2>2
<1>5. FoundWhenItCan'
  <2>1. ASSUME RoomToAsk, given.faults = {} PROVE /\ plugged /\ pc' = "collect"
    BY <1>1, <2>1 DEF LinkInv, FoundWhenItCan, May
  <2>2. pc' = "collect" => \A e \in Exchanges : Holds(unanswered', e)
    <3>1. 1 \in 1..Len(Requests) /\ 2 \in 1..Len(Requests)
      BY <1>2
    <3>2. QED
      BY <1>1, <1>2, <3>1 DEF Holds, Exchanges
  <2>3. pc' = "collect" => asked'.reads = MaxReads /\ Len(unanswered') = 2
    BY <1>1, <1>2 DEF LinkInv, Kinds
  <2>4. Exchanges' = Exchanges
    BY <1>1 DEF Exchanges, Essential, Is
  <2>5. ASSUME RoomToAsk, given.faults = {}
        PROVE  Len(queue') + (MaxReads - asked'.reads) + Len(unanswered') = spent'.status + 2
    <3>1. Len(queue) = spent.status /\ queue' = queue /\ spent' = spent /\ spent.status \in Nat
      BY <1>1, <2>5, DeviceLinkAssumption DEF LinkInv, Kinds, FoundWhenItCan
    <3>2. asked'.reads = MaxReads /\ Len(unanswered') = 2
      BY <2>1, <2>3, <2>5
    <3>3. MaxReads - asked'.reads = 0
      BY <3>2, DeviceLinkAssumption
    <3>4. QED
      BY <3>1, <3>2, <3>3
  <2>6. QED
    BY <1>1, <2>1, <2>2, <2>4, <2>5 DEF LinkInv, FoundWhenItCan, RoomToAsk, Framing, Is
<1>6. QED
  BY <1>3, <1>4, <1>5 DEF LinkInv

\* Reading: an answer is kept, and with room to ask the last one is read before
\* the reads are over.
LEMMA CollectLinks == ASSUME LinkInv, Collect PROVE LinkInv'
<1>1. /\ pc = "collect" /\ pc' \in {"collect", "resolve"}
      /\ UNCHANGED <<given, plugged, claimed, link, frame, unanswered, panel, spent>>
      /\ Exchanges' = Exchanges
  BY DEF Collect, world, Exchanges, Essential, Is
<1>2. FrameCounts' /\ ClaimFits'
  <2>1. FrameCounts'
    BY <1>1 DEF LinkInv, Kinds, Frame, FrameCounts, Passed, Asking, Framing
  <2>2. ClaimFits'
    BY <1>1 DEF LinkInv, Kinds, ClaimFits, ClaimIsTheLinks, Asking, Is
  <2>3. QED
    BY <2>1, <2>2
<1>3. CASE Exchanges \subseteq asked.answers \/ asked.reads = 0 \/ Quiet
  <2>1. CASE pc' = "resolve"
    <3>1. /\ queue' = queue
          /\ asked' = asked \/ (~plugged /\ asked' = [asked EXCEPT !.answers = {}])
      BY <1>1, <1>3, <2>1 DEF Collect, Quiet
    <3>2. Kinds'
      <4>1. asked' \in [answers : SUBSET Exchanges, reads : 0..MaxReads]
        BY <3>1 DEF LinkInv, Kinds
      <4>2. QED
        BY <1>1, <2>1, <3>1, <4>1 DEF LinkInv, Kinds, Asking
    <3>3. ASSUME RoomToAsk, given.faults = {}, ~(Exchanges \subseteq asked.answers)
          PROVE  Len(queue) = 0 /\ Len(unanswered) = 0
      <4>1. CASE Quiet
        BY <3>3, <4>1 DEF Quiet, May, LinkInv, FoundWhenItCan
      <4>2. CASE asked.reads = 0
        <5>1. Len(queue) + MaxReads + Len(unanswered) = spent.status + 2
          BY <1>1, <3>3, <4>2, DeviceLinkAssumption DEF LinkInv, FoundWhenItCan
        <5>2. /\ Len(queue) \in Nat /\ Len(unanswered) \in Nat /\ spent.status \in 0..MaxStatus
          BY DEF LinkInv, Kinds
        <5>3. QED
          BY <3>3, <5>1, <5>2, DeviceLinkAssumption DEF RoomToAsk
      <4>3. QED
        BY <1>3, <3>3, <4>1, <4>2
    <3>4. ASSUME RoomToAsk, given.faults = {}
          PROVE  asked.answers = Exchanges
      <4>1. asked.answers \subseteq Exchanges
        BY DEF LinkInv, Kinds
      <4>2. CASE ~(Exchanges \subseteq asked.answers)
        <5>1. \A e \in Exchanges : ~Holds(queue, e) /\ ~Holds(unanswered, e)
          BY <3>3, <3>4, <4>2 DEF Holds
        <5>2. QED
          BY <1>1, <3>4, <4>1, <5>1 DEF LinkInv, FoundWhenItCan
      <4>3. QED
        BY <4>1, <4>2
    <3>5. FoundWhenItCan'
      <4>1. (RoomToAsk /\ given.faults = {}) => asked' = asked
        BY <3>1 DEF LinkInv, FoundWhenItCan
      <4>2. QED
        BY <1>1, <2>1, <3>1, <3>4, <4>1 DEF LinkInv, FoundWhenItCan, RoomToAsk, Framing, Is
    <3>6. QED
      BY <1>2, <3>2, <3>5 DEF LinkInv
  <2>2. CASE pc' # "resolve"
    BY <1>1, <1>3, <2>2 DEF Collect, Quiet
  <2>3. QED
    BY <2>1, <2>2
<1>4. CASE ~(Exchanges \subseteq asked.answers \/ asked.reads = 0 \/ Quiet)
  <2>1. /\ pc' = "collect" /\ queue # <<>> /\ queue' = Tail(queue)
        /\ asked' = [answers |-> Take(Head(queue)), reads |-> asked.reads - 1]
    BY <1>1, <1>4 DEF Collect, Quiet
  <2>2. /\ queue' \in Seq(Report) /\ Len(queue) \in Nat /\ Len(queue') = Len(queue) - 1
    BY <2>1, TailIsRest DEF LinkInv, Kinds
  <2>3. /\ asked.reads \in 1..MaxReads
        /\ Take(Head(queue)) \in SUBSET Exchanges
        /\ asked.answers \subseteq Take(Head(queue))
        /\ Head(queue) \in Exchanges => Head(queue) \in Take(Head(queue))
    BY <1>4 DEF LinkInv, Kinds, Take
  <2>4. asked' \in [answers : SUBSET Exchanges, reads : 0..MaxReads]
    BY <2>1, <2>3, DeviceLinkAssumption
  <2>5. Kinds'
    BY <1>1, <2>1, <2>2, <2>4 DEF LinkInv, Kinds, Asking
  <2>6. ASSUME RoomToAsk, given.faults = {}
        PROVE  Len(queue') + (MaxReads - asked'.reads) + Len(unanswered') = spent'.status + 2
    <3>1. Len(queue) + (MaxReads - asked.reads) + Len(unanswered) = spent.status + 2
      BY <1>1, <2>6 DEF LinkInv, FoundWhenItCan
    <3>2. /\ asked'.reads = asked.reads - 1 /\ Len(unanswered) \in Nat /\ spent.status \in Nat
          /\ unanswered' = unanswered /\ spent' = spent
      BY <1>1, <2>1, DeviceLinkAssumption DEF LinkInv, Kinds
    <3>3. QED
      BY <2>2, <2>3, <3>1, <3>2, DeviceLinkAssumption
  <2>7. ASSUME RoomToAsk, given.faults = {}, NEW e \in Exchanges
        PROVE  e \in asked'.answers \/ Holds(queue', e) \/ Holds(unanswered', e)
    <3>1. e \in asked.answers \/ Holds(queue, e) \/ Holds(unanswered, e)
      BY <1>1, <2>7 DEF LinkInv, FoundWhenItCan
    <3>2. Holds(queue, e) => e = Head(queue) \/ Holds(Tail(queue), e)
      BY <2>1, TailHolds DEF LinkInv, Kinds
    <3>3. QED
      BY <1>1, <2>1, <2>3, <3>1, <3>2
  <2>8. FoundWhenItCan'
    BY <1>1, <2>1, <2>6, <2>7 DEF LinkInv, FoundWhenItCan, RoomToAsk, Framing, Is
  <2>9. QED
    BY <1>2, <2>5, <2>8 DEF LinkInv
<1>5. QED
  BY <1>3, <1>4

\* connect: a link is kept whole, or its claim goes with it.
LEMMA ResolveLinks == ASSUME LinkInv, Resolve PROVE LinkInv'
<1>1. /\ pc = "resolve" /\ link' = Keeps /\ claimed' = (claimed /\ Keeps)
      /\ Keeps => pc' = "idle"
      /\ ~Keeps => pc' = "absent"
      /\ UNCHANGED <<given, plugged, queue, asked, frame, unanswered, panel, spent>>
  BY DEF Resolve, world
<1>2. Keeps \in BOOLEAN /\ claimed \in BOOLEAN
  BY DEF Keeps, LinkInv, Kinds
<1>3. Kinds'
  BY <1>1, <1>2 DEF LinkInv, Kinds, Exchanges, Essential, Is
<1>4. FrameCounts'
  BY <1>1 DEF LinkInv, Kinds, Frame, FrameCounts, Passed, Asking, Framing
<1>5. ClaimFits'
  BY <1>1, <1>2 DEF LinkInv, Keeps, ClaimFits, ClaimIsTheLinks, Asking, Is
<1>6. FoundWhenItCan'
  <2>1. ASSUME RoomToAsk, given.faults = {} PROVE Keeps = (Is("rgb") \/ ~given.busy)
    BY <1>1, <2>1 DEF LinkInv, Kinds, FoundWhenItCan, Keeps, Exchanges, Is
  <2>2. QED
    BY <1>1, <2>1 DEF LinkInv, FoundWhenItCan, RoomToAsk, Framing, Is
<1>7. QED
  BY <1>3, <1>4, <1>5, <1>6 DEF LinkInv

-----------------------------------------------------------------------------
(* A link in use.                                                          *)

\* Sending changes nothing of who holds what.
LEMMA LinkKept ==
    ASSUME LinkInv, UNCHANGED <<given, plugged, asked, claimed, link>>,
           pc \in Framing \cup {"idle"}, pc' \in Framing \cup {"idle"}
    PROVE  ClaimFits' /\ FoundWhenItCan'
<1>1. ClaimFits'
  BY DEF LinkInv, ClaimFits, ClaimIsTheLinks, Framing, Asking, Is
<1>2. FoundWhenItCan'
  BY DEF LinkInv, FoundWhenItCan, RoomToAsk, Framing, Is
<1>3. QED
  BY <1>1, <1>2

\* What sending may touch keeps its types.
LEMMA SendingKinds ==
    ASSUME Kinds, UNCHANGED <<given, plugged, asked, claimed, link>>,
           pc' \in Framing \cup {"idle"},
           queue' \in Seq(Report), unanswered' \in Seq(Command),
           frame' \in Frame,
           panel' \in Panel,
           spent' \in [status : 0..MaxStatus, frames : 0..MaxFrames]
    PROVE  Kinds'
BY DEF Kinds, Exchanges, Essential, Is

\* A setting is one report; a frame starts with both sequences before it.
LEMMA BeginLinks ==
    ASSUME LinkInv, WriteReport \/ \E picture \in Picture : SendFrame(picture)
    PROVE  LinkInv'
<1>1. /\ pc = "idle" /\ pc' \in {"idle", "start"} /\ spent.frames < MaxFrames
      /\ UNCHANGED <<given, plugged, asked, claimed, link, queue, unanswered, panel>>
      /\ spent' = [spent EXCEPT !.frames = @ + 1]
  BY DEF WriteReport, SendFrame, world, connection
<1>2. /\ frame' \in Frame
      /\ frame'.acks = 0 /\ (pc' = "start" => frame'.left = 2)
  <2>1. CASE WriteReport
    <3>1. PICK ok \in BOOLEAN :
            frame' = [frame EXCEPT !.picture = None, !.acks = 0,
                                   !.result = IF ok THEN "ok" ELSE "error"]
      BY <2>1 DEF WriteReport
    <3>2. frame' = [picture |-> None, left |-> frame.left, acks |-> 0,
                    result |-> IF ok THEN "ok" ELSE "error"]
      BY <3>1 DEF LinkInv, Kinds, Frame
    <3>3. pc' = "idle"
      BY <1>1, <2>1 DEF WriteReport
    <3>4. QED
      BY <3>2, <3>3 DEF LinkInv, Kinds, Frame
  <2>2. ASSUME NEW p \in Picture, SendFrame(p)
        PROVE  /\ frame' \in Frame
               /\ frame'.acks = 0 /\ frame'.left = 2
    BY <2>2 DEF SendFrame, SequencesPerFrame, Frame
  <2>3. QED
    BY <2>1, <2>2
<1>3. spent' \in [status : 0..MaxStatus, frames : 0..MaxFrames]
  BY <1>1, DeviceLinkAssumption DEF LinkInv, Kinds
<1>4. Kinds'
  BY <1>1, <1>2, <1>3, SendingKinds DEF LinkInv, Kinds, Framing
<1>5. FrameCounts'
  BY <1>1, <1>2 DEF LinkInv, Kinds, FrameCounts, Passed, Asking, Framing
<1>6. QED
  BY <1>1, <1>4, <1>5, LinkKept DEF LinkInv, Framing

\* An error leaves the sequence wherever it stands.
LEMMA FailsLinks ==
    ASSUME LinkInv, pc \in Framing, Fails,
           UNCHANGED <<given, plugged, asked, claimed, link, queue, spent>>
    PROVE  LinkInv'
<1>1. pc' = "idle" /\ frame' = [frame EXCEPT !.left = 0, !.result = "error"]
      /\ UNCHANGED <<unanswered, panel>>
  BY DEF Fails
<1>2. frame' = [picture |-> frame.picture, left |-> 0, acks |-> frame.acks, result |-> "error"]
  BY <1>1 DEF LinkInv, Kinds, Frame
<1>3. Kinds'
  BY <1>1, <1>2, SendingKinds DEF LinkInv, Kinds, Frame
<1>4. FrameCounts'
  BY <1>1, <1>2 DEF LinkInv, Kinds, Frame, FrameCounts, Passed, Asking, Framing
<1>5. QED
  BY <1>1, <1>3, <1>4, LinkKept DEF LinkInv

\* The start and the end of a sequence are one report each.
LEMMA CommandLinks == ASSUME LinkInv, WriteCommand PROVE LinkInv'
<1>1. pc \in {"start", "end"} /\ UNCHANGED <<given, plugged, asked, claimed, link, queue, spent>>
  BY DEF WriteCommand, world, connection
<1>2. CASE Fails
  BY <1>1, <1>2, FailsLinks DEF Framing
<1>3. CASE ~Fails
  <2>1. /\ unanswered' = Append(unanswered, pc) /\ UNCHANGED <<frame, panel>>
        /\ pc = "start" => pc' = "start_ack"
        /\ pc = "end" => pc' = "end_ack"
    BY <1>1, <1>3 DEF WriteCommand
  <2>2. unanswered' \in Seq(Command)
    BY <1>1, <2>1, AppendIsLast DEF LinkInv, Kinds, Command
  <2>3. Kinds'
    BY <1>1, <2>1, <2>2, SendingKinds DEF LinkInv, Kinds, Framing
  <2>4. FrameCounts'
    BY <1>1, <2>1 DEF LinkInv, FrameCounts, Passed, Asking, Framing
  <2>5. QED
    BY <1>1, <2>1, <2>3, <2>4, LinkKept DEF LinkInv, Framing
<1>4. QED
  BY <1>2, <1>3

\* What the end of a wait makes of the sequence.
LEMMA Acknowledges ==
    ASSUME Kinds, FrameCounts, pc \in Ack, NEW n \in {0, 1}, Acknowledged(n)
    PROVE  /\ pc' \in Framing \cup {"idle"}
           /\ frame' \in Frame
           /\ frame'.picture = frame.picture /\ frame'.acks = frame.acks + n
           /\ pc = "start_ack" => pc' = "pixels" /\ frame'.left = frame.left
           /\ pc = "end_ack" /\ frame.left = 2 => pc' = "start" /\ frame'.left = 1
           /\ pc = "end_ack" /\ frame.left = 1 => pc' = "idle"
<1>1. frame.left \in 1..2 /\ frame.acks + n \in 0..4
  BY DEF Kinds, Frame, FrameCounts, Passed, Framing, Ack
<1>2. CASE pc = "start_ack"
  <2>1. pc' = "pixels" /\ frame' = [frame EXCEPT !.acks = @ + n]
    BY <1>2 DEF Acknowledged
  <2>2. frame' = [picture |-> frame.picture, left |-> frame.left, acks |-> frame.acks + n,
                  result |-> frame.result]
    BY <2>1 DEF Kinds, Frame
  <2>3. QED
    BY <1>1, <1>2, <2>1, <2>2 DEF Kinds, Frame, Framing
<1>3. CASE pc = "end_ack"
  <2>1. /\ pc' = IF frame.left > 1 THEN "start" ELSE "idle"
        /\ frame' = [frame EXCEPT !.acks = @ + n, !.left = @ - 1,
                                  !.result = IF frame.left > 1 THEN "none" ELSE "ok"]
    BY <1>3 DEF Acknowledged
  <2>2. frame' = [picture |-> frame.picture, left |-> frame.left - 1, acks |-> frame.acks + n,
                  result |-> IF frame.left > 1 THEN "none" ELSE "ok"]
    BY <2>1 DEF Kinds, Frame
  <2>3. frame.left - 1 \in 0..2 /\ frame.picture \in Picture \cup {None}
    BY <1>1 DEF Kinds, Frame
  <2>4. frame' \in Frame
    BY <1>1, <2>2, <2>3 DEF Frame
  <2>5. QED
    BY <1>1, <1>3, <2>1, <2>2, <2>4 DEF Framing
<1>4. QED
  BY <1>2, <1>3 DEF Ack

\* Waiting for an acknowledgement.
LEMMA AwaitLinks == ASSUME LinkInv, AwaitAck PROVE LinkInv'
<1>1. /\ pc \in Ack /\ UNCHANGED <<given, plugged, asked, claimed, link, unanswered, panel, spent>>
      /\ queue' \in {queue, Tail(queue)} /\ (queue' # queue => queue # <<>>)
  BY DEF AwaitAck, Ack, world, connection
<1>2. queue' \in Seq(Report)
  <2>1. queue # <<>> => Tail(queue) \in Seq(Report)
    BY TailIsRest DEF LinkInv, Kinds
  <2>2. QED
    BY <1>1, <2>1 DEF LinkInv, Kinds
<1>3. CASE \E n \in {0, 1} : Acknowledged(n)
  <2>1. PICK n \in {0, 1} : Acknowledged(n)
    BY <1>3
  <2>2. Kinds'
    BY <1>1, <1>2, <2>1, Acknowledges, SendingKinds DEF LinkInv, Kinds
  <2>3. FrameCounts'
    BY <1>1, <2>1, Acknowledges DEF LinkInv, Kinds, Frame, FrameCounts, Passed, Asking, Framing, Ack
  <2>4. QED
    BY <1>1, <2>1, <2>2, <2>3, Acknowledges, LinkKept DEF LinkInv, Ack, Framing
<1>4. CASE UNCHANGED <<pc, frame>>
  <2>1. Kinds'
    BY <1>1, <1>2, <1>4, SendingKinds DEF LinkInv, Kinds, Ack, Framing
  <2>2. FrameCounts'
    BY <1>4 DEF LinkInv, FrameCounts, Passed, Asking
  <2>3. QED
    BY <1>1, <1>4, <2>1, <2>2, LinkKept DEF LinkInv, Ack, Framing
<1>5. QED
  BY <1>3, <1>4 DEF AwaitAck

\* The pixels.
LEMMA PixelsLinks == ASSUME LinkInv, WritePixels PROVE LinkInv'
<1>1. pc = "pixels" /\ UNCHANGED <<given, plugged, asked, claimed, link, queue, spent>>
  BY DEF WritePixels, world, connection
<1>2. CASE Fails
  BY <1>1, <1>2, FailsLinks DEF Framing
<1>3. CASE ~Fails
  <2>1. /\ pc' = "end" /\ UNCHANGED <<frame, unanswered>>
        /\ panel' = [panel EXCEPT !.filled = IF panel.ready THEN frame.picture ELSE Torn]
    BY <1>3 DEF WritePixels
  <2>2. panel' \in Panel
    BY <2>1 DEF LinkInv, Kinds, Shown, Frame, Panel
  <2>3. Kinds'
    BY <1>1, <2>1, <2>2, SendingKinds DEF LinkInv, Kinds, Framing
  <2>4. FrameCounts'
    BY <1>1, <2>1 DEF LinkInv, FrameCounts, Passed, Asking, Framing
  <2>5. QED
    BY <1>1, <2>1, <2>3, <2>4, LinkKept DEF LinkInv, Framing
<1>4. QED
  BY <1>2, <1>3

-----------------------------------------------------------------------------
(* The device.                                                             *)

\* An answer changes hands, from the commands outstanding to the queue.
LEMMA RespondLinks == ASSUME LinkInv, Respond PROVE LinkInv'
<1>1. /\ unanswered # <<>> /\ unanswered' = Tail(unanswered)
      /\ UNCHANGED <<given, plugged, pc, asked, claimed, link, frame, spent>>
      /\ panel' \in {panel, [panel EXCEPT !.ready = TRUE], [panel EXCEPT !.ready = FALSE], Swapped}
      /\ queue' \in {queue, Append(queue, AckOf(Head(unanswered)))}
      /\ May("silent") \/ queue' = Append(queue, AckOf(Head(unanswered)))
  <2>1. PICK silent \in IF May("silent") THEN BOOLEAN ELSE {FALSE} :
          /\ queue' = IF silent THEN queue ELSE Append(queue, AckOf(Head(unanswered)))
          /\ panel' = CASE Head(unanswered) = "start" -> [panel EXCEPT !.ready = ~silent]
                        [] Head(unanswered) = "end" -> Swapped
                        [] OTHER -> panel
    BY DEF Respond
  <2>2. silent \in BOOLEAN /\ (silent => May("silent"))
    BY <2>1
  <2>3. panel' \in {panel, [panel EXCEPT !.ready = TRUE], [panel EXCEPT !.ready = FALSE], Swapped}
    BY <2>1, <2>2
  <2>4. QED
    BY <2>1, <2>2, <2>3 DEF Respond, world, connection
<1>2. Exchanges' = Exchanges /\ UNCHANGED world
  BY <1>1 DEF Exchanges, Essential, Is, world
<1>3. AckOf(Head(unanswered)) \in Report
  BY <1>1, TailIsRest DEF LinkInv, Kinds, AckOf, Report, Command, Asked, Ack
<1>4. queue' \in Seq(Report) /\ unanswered' \in Seq(Command)
  <2>1. Tail(unanswered) \in Seq(Command)
    BY <1>1, TailIsRest DEF LinkInv, Kinds
  <2>2. Append(queue, AckOf(Head(unanswered))) \in Seq(Report)
    BY <1>3, AppendIsLast DEF LinkInv, Kinds
  <2>3. QED
    BY <1>1, <2>1, <2>2 DEF LinkInv, Kinds
<1>5. panel' \in Panel
  BY <1>1 DEF LinkInv, Kinds, Panel, Swapped
<1>6. Kinds'
  BY <1>1, <1>2, <1>4, <1>5 DEF LinkInv, Kinds
<1>7. FrameCounts'
  BY <1>1 DEF LinkInv, FrameCounts, Passed, Asking
<1>8. ClaimFits'
  BY <1>1 DEF LinkInv, ClaimFits, ClaimIsTheLinks, Is
<1>9. FoundWhenItCan'
  <2>1. ASSUME RoomToAsk, given.faults = {} PROVE queue' = Append(queue, AckOf(Head(unanswered)))
    BY <1>1, <2>1 DEF May
  <2>2. Len(Append(queue, AckOf(Head(unanswered)))) = Len(queue) + 1 /\ Len(queue) \in Nat
    BY <1>3, AppendIsLast DEF LinkInv, Kinds
  <2>3. Len(unanswered') = Len(unanswered) - 1 /\ Len(unanswered) \in Nat
    BY <1>1, TailIsRest DEF LinkInv, Kinds
  <2>4. ASSUME RoomToAsk, given.faults = {}, pc = "collect"
        PROVE  Len(queue') + (MaxReads - asked'.reads) + Len(unanswered') = spent'.status + 2
    <3>1. Len(queue) + (MaxReads - asked.reads) + Len(unanswered) = spent.status + 2
      BY <2>4 DEF LinkInv, FoundWhenItCan
    <3>2. Len(queue') = Len(queue) + 1
      BY <2>1, <2>2, <2>4
    <3>3. asked.reads \in Nat /\ spent.status \in Nat /\ asked' = asked /\ spent' = spent
      BY <1>1, DeviceLinkAssumption DEF LinkInv, Kinds
    <3>4. MaxReads - asked.reads \in Int
      BY <3>3, DeviceLinkAssumption
    <3>5. QED
      BY <2>2, <2>3, <3>1, <3>2, <3>3, <3>4
  <2>5. ASSUME RoomToAsk, given.faults = {}, pc = "collect", NEW e \in Exchanges
        PROVE  e \in asked'.answers \/ Holds(queue', e) \/ Holds(unanswered', e)
    <3>1. e \in asked.answers \/ Holds(queue, e) \/ Holds(unanswered, e)
      BY <2>5 DEF LinkInv, FoundWhenItCan
    <3>2. Holds(unanswered, e) => e = Head(unanswered) \/ Holds(Tail(unanswered), e)
      BY <1>1, TailHolds DEF LinkInv, Kinds
    <3>3. \A x : Holds(Append(queue, AckOf(Head(unanswered))), x)
                   <=> Holds(queue, x) \/ x = AckOf(Head(unanswered))
      BY <1>3, AppendHolds DEF LinkInv, Kinds
    <3>4. AckOf(e) = e
      BY DEF AckOf, Exchanges, Essential
    <3>5. QED
      BY <1>1, <2>1, <2>5, <3>1, <3>2, <3>3, <3>4
  <2>6. pc \notin {"open", "claim", "ask"} \/ ~RoomToAsk \/ given.faults # {}
    BY <1>1 DEF LinkInv, FoundWhenItCan
  <2>7. QED
    BY <1>1, <1>2, <2>4, <2>5, <2>6 DEF LinkInv, FoundWhenItCan, RoomToAsk, Framing, Is
<1>10. QED
  BY <1>6, <1>7, <1>8, <1>9 DEF LinkInv

\* A report the kernel driver polled for.
LEMMA StatusLinks == ASSUME LinkInv, StatusReport PROVE LinkInv'
<1>1. /\ pc # "open" /\ spent.status < MaxStatus /\ queue' = Append(queue, "status")
      /\ spent' = [spent EXCEPT !.status = @ + 1]
      /\ UNCHANGED <<given, plugged, pc, asked, claimed, link, frame, unanswered, panel>>
      /\ Exchanges' = Exchanges
  BY DEF StatusReport, world, connection, Exchanges, Essential, Is
<1>2. queue' \in Seq(Report) /\ Len(queue') = Len(queue) + 1 /\ Len(queue) \in Nat
  BY <1>1, AppendIsLast DEF LinkInv, Kinds, Report
<1>3. /\ spent' \in [status : 0..MaxStatus, frames : 0..MaxFrames]
      /\ spent'.status = spent.status + 1 /\ spent.status \in Nat
  BY <1>1, DeviceLinkAssumption DEF LinkInv, Kinds
<1>4. Kinds'
  BY <1>1, <1>2, <1>3 DEF LinkInv, Kinds
<1>5. FrameCounts'
  BY <1>1 DEF LinkInv, FrameCounts, Passed, Asking
<1>6. ClaimFits'
  BY <1>1 DEF LinkInv, ClaimFits, ClaimIsTheLinks, Is
<1>7. FoundWhenItCan'
  <2>1. ASSUME RoomToAsk, given.faults = {}, pc = "collect"
        PROVE  Len(queue') + (MaxReads - asked'.reads) + Len(unanswered') = spent'.status + 2
    <3>1. Len(queue) + (MaxReads - asked.reads) + Len(unanswered) = spent.status + 2
      BY <2>1 DEF LinkInv, FoundWhenItCan
    <3>2. /\ asked.reads \in Nat /\ asked'.reads = asked.reads
          /\ Len(unanswered) \in Nat /\ Len(unanswered') = Len(unanswered)
      BY <1>1, DeviceLinkAssumption DEF LinkInv, Kinds
    <3>3. MaxReads - asked.reads \in Int
      BY <3>2, DeviceLinkAssumption
    <3>4. spent'.status + 2 = (spent.status + 2) + 1
      BY <1>3
    <3>5. Len(queue') = Len(queue) + 1 /\ Len(queue) \in Nat
      BY <1>2
    <3>6. spent.status \in Nat
      BY <1>3
    <3>7. QED
      BY <3>1, <3>2, <3>3, <3>4, <3>5, <3>6
  <2>2. \A x : Holds(queue, x) => Holds(queue', x)
    BY <1>1, AppendHolds DEF LinkInv, Kinds, Report
  <2>3. ASSUME RoomToAsk, given.faults = {}, pc = "collect", NEW e \in Exchanges
        PROVE  e \in asked'.answers \/ Holds(queue', e) \/ Holds(unanswered', e)
    BY <1>1, <2>2, <2>3 DEF LinkInv, FoundWhenItCan
  <2>4. QED
    BY <1>1, <1>2, <1>3, <2>1, <2>3 DEF LinkInv, FoundWhenItCan, RoomToAsk, Framing, Is
<1>8. QED
  BY <1>4, <1>5, <1>6, <1>7 DEF LinkInv

\* The device leaves, or nothing happens.
LEMMA QuietLinks == ASSUME LinkInv, Unplug \/ UNCHANGED vars PROVE LinkInv'
<1>1. /\ UNCHANGED <<given, pc, queue, asked, claimed, link, frame, unanswered, panel, spent>>
      /\ plugged' = plugged \/ (plugged' = FALSE /\ May("unplug"))
  BY DEF Unplug, vars, world, connection
<1>2. Kinds'
  BY <1>1 DEF LinkInv, Kinds, Exchanges, Essential, Is
<1>3. FrameCounts'
  BY <1>1 DEF LinkInv, FrameCounts, Passed, Asking
<1>4. ClaimFits'
  BY <1>1 DEF LinkInv, ClaimFits, ClaimIsTheLinks, Is
<1>5. FoundWhenItCan'
  <2>1. Exchanges' = Exchanges
    BY <1>1 DEF Exchanges, Essential, Is
  <2>2. given.faults = {} => plugged' = plugged
    BY <1>1 DEF May
  <2>3. QED
    BY <1>1, <2>1, <2>2 DEF LinkInv, FoundWhenItCan, RoomToAsk, Holds, Framing, Is
<1>6. QED
  BY <1>2, <1>3, <1>4, <1>5 DEF LinkInv

\* Every step of the thread, of the device and of the driver.
LEMMA NextLinks == ASSUME LinkInv, [Next]_vars PROVE LinkInv'
<1>1. CASE Open \/ Claim \/ Ask \/ Collect \/ Resolve
  BY <1>1, OpenLinks, ClaimLinks, AskLinks, CollectLinks, ResolveLinks
<1>2. CASE WriteReport \/ \E picture \in Picture : SendFrame(picture)
  BY <1>2, BeginLinks
<1>3. CASE WriteCommand \/ AwaitAck \/ WritePixels
  BY <1>3, CommandLinks, AwaitLinks, PixelsLinks
<1>4. CASE Respond \/ StatusReport \/ Unplug \/ UNCHANGED vars
  BY <1>4, RespondLinks, StatusLinks, QuietLinks
<1>5. QED
  BY <1>1, <1>2, <1>3, <1>4 DEF Next

\* The invariant of the connection holds throughout.
THEOREM Inductive == Spec => []LinkInv
<1>1. Init => LinkInv
  BY LinkStarts
<1>2. LinkInv /\ [Next]_vars => LinkInv'
  BY NextLinks
<1>3. QED
  BY <1>1, <1>2, PTL DEF Spec

\* A claim has a link (usbfs.rs, lcd.rs: half a link is dropped with its claim),
\* and a device that answers is found, whatever lay in the queue and whatever the
\* driver polls for: as long as the drain empties the queue and a query reads two
\* more reports than the driver asks for.
THEOREM LinksAreWhole == ASSUME RoomToAsk PROVE Spec => []LinkIsWhole
<1>1. LinkInv => TypeOK
  <2>1. ASSUME LinkInv PROVE TypeOK
    BY <2>1 DEF LinkInv, Kinds, Frame, Panel, Shown, TypeOK, SequencesPerFrame, Asking, Framing
  <2>2. QED
    BY <2>1
<1>2. LinkInv => ClaimIsTheLinks
  BY DEF LinkInv, ClaimFits
<1>3. LinkInv => ConnectsWhenItCan
  BY RoomToAsk DEF LinkInv, FoundWhenItCan, ConnectsWhenItCan, Framing
<1>4. QED
  BY <1>1, <1>2, <1>3, Inductive, PTL DEF LinkIsWhole

-----------------------------------------------------------------------------
(* A frame.                                                                *)

\* The device answers in time or not at all.
InTime == "late" \notin Faults

\* A command of a frame is answered once, to the wait that is for it: nothing
\* of an earlier one is still on its way.
OneAnswer ==
    /\ plugged => \A i \in 1..Len(unanswered) : unanswered[i] \in {"start", "end"} =>
           /\ i = Len(unanswered) /\ pc = AckOf(unanswered[i])
           /\ \A x \in Ack : ~Holds(queue, x)
    /\ \A i \in 1..Len(queue) : queue[i] \in Ack =>
           /\ pc = queue[i]
           /\ \A j \in 1..Len(queue) : queue[j] \in Ack => j = i

\* All that could be acknowledged by now has been.
Acknowledging == frame.acks = Passed

\* While every command is acknowledged, the buffers follow the sequences.
PanelFollows ==
    /\ (pc = "start_ack" /\ Holds(queue, "start_ack")) => panel.ready
    /\ (pc = "pixels" /\ Acknowledging) => panel.ready
    /\ (pc \in {"end", "end_ack"} /\ Acknowledging) => panel.filled = frame.picture
    /\ (pc \in Framing /\ frame.left = 1 /\ Acknowledging) => panel.hidden = frame.picture
    /\ (pc = "end_ack" /\ Acknowledging /\ Holds(queue, "end_ack")) =>
         /\ panel.hidden = frame.picture
         /\ frame.left = 1 => panel.glass = frame.picture

\* A panel that is not silent is ready, or about to be told to be.
PanelAsked ==
    (plugged /\ ~May("silent")) =>
        /\ pc = "start_ack" => (panel.ready \/ Holds(unanswered, "start"))
        /\ pc = "pixels" => panel.ready

FrameInv == OneAnswer /\ PanelFollows /\ PanelAsked /\ FrameIsShown

\* Nothing of a frame is under way before a link is open, or between two.
LEMMA FrameStarts == Init => FrameInv
<1> SUFFICES ASSUME Init PROVE FrameInv
  OBVIOUS
<1>1. OneAnswer
  <2>1. \A i \in 1..Len(queue) : queue[i] = "status"
    BY DeviceLinkAssumption DEF Init
  <2>2. unanswered = <<>> /\ "status" \notin Ack
    BY DEF Init, Ack
  <2>3. QED
    BY <2>1, <2>2 DEF OneAnswer
<1>2. PanelFollows /\ PanelAsked /\ FrameIsShown
  BY DEF Init, PanelFollows, PanelAsked, FrameIsShown, Framing
<1>3. QED
  BY <1>1, <1>2 DEF FrameInv

\* Where no command of a frame is out.
NoneOut ==
    /\ plugged => \A i \in 1..Len(unanswered) : unanswered[i] \notin {"start", "end"}
    /\ \A i \in 1..Len(queue) : queue[i] \notin Ack

\* Between two waits none is.
LEMMA NoneIsOut ==
    ASSUME Kinds, OneAnswer, pc \notin Ack
    PROVE  NoneOut
<1>1. \A i \in 1..Len(unanswered) : unanswered[i] \in {"start", "end"} => AckOf(unanswered[i]) \in Ack
  BY DEF AckOf, Ack
<1>2. QED
  BY <1>1 DEF OneAnswer, NoneOut

\* No command of a frame out: one answer is none.
LEMMA NoneIsOne == ASSUME NoneOut' PROVE OneAnswer'
  BY DEF NoneOut, OneAnswer

\* Opening, claiming, asking, and reading what was asked.
LEMMA ConnectingFrames ==
    ASSUME LinkInv, FrameInv, Open \/ Claim \/ Ask \/ Collect \/ Resolve
    PROVE  FrameInv'
<1>1. /\ pc \in Asking /\ pc' \in Asking \cup {"absent", "idle"}
      /\ UNCHANGED <<given, plugged, frame, panel>>
      /\ pc' = "idle" => pc = "resolve"
  BY DEF Open, Claim, Ask, Collect, Resolve, world, Asking
<1>2. NoneOut
  BY <1>1, NoneIsOut DEF LinkInv, FrameInv, Asking, Ack
<1>3. \A i \in 1..Len(queue') : queue'[i] \notin Ack
  <2>1. CASE Open
    <3>1. queue' = SubSeq(queue, Drained + 1, Len(queue))
      BY <2>1 DEF Open, Drain
    <3>2. \A i \in 1..Len(queue') : i + Drained \in 1..Len(queue) /\ queue'[i] = queue[i + Drained]
      BY <3>1, DeviceLinkAssumption, DrainIsRest DEF LinkInv, Kinds
    <3>3. QED
      BY <1>2, <3>2 DEF NoneOut
  <2>2. CASE Collect
    <3>1. queue' = queue \/ (queue # <<>> /\ queue' = Tail(queue))
      BY <2>2 DEF Collect
    <3>2. ASSUME queue # <<>>, NEW i \in 1..Len(Tail(queue))
          PROVE  i + 1 \in 1..Len(queue) /\ Tail(queue)[i] = queue[i + 1]
      BY <3>2, TailIsRest DEF LinkInv, Kinds
    <3>3. QED
      BY <1>2, <3>1, <3>2 DEF NoneOut
  <2>3. CASE Claim \/ Ask \/ Resolve
    BY <1>2, <2>3 DEF Claim, Ask, Resolve, NoneOut
  <2>4. QED
    BY <2>1, <2>2, <2>3
<1>4. plugged => \A i \in 1..Len(unanswered') : unanswered'[i] \notin {"start", "end"}
  <2>1. CASE Ask
    BY <2>1 DEF Ask, Requests, Essential
  <2>2. CASE ~Ask
    <3>1. unanswered' = unanswered
      BY <2>2 DEF Open, Claim, Collect, Resolve
    <3>2. QED
      BY <1>2, <3>1 DEF NoneOut
  <2>3. QED
    BY <2>1, <2>2
<1>5. NoneOut'
  BY <1>1, <1>3, <1>4 DEF NoneOut
<1>6. PanelFollows' /\ PanelAsked'
  BY <1>1 DEF PanelFollows, PanelAsked, Asking, Framing
<1>7. FrameIsShown'
  <2>1. frame.acks = 0
    BY <1>1 DEF LinkInv, Kinds, Frame, FrameCounts, Passed
  <2>2. QED
    BY <1>1, <2>1 DEF FrameIsShown, SequencesPerFrame
<1>8. QED
  BY <1>5, <1>6, <1>7, NoneIsOne DEF FrameInv

\* A frame begins, or one report is written instead of one: nothing is out.
LEMMA BeginFrames ==
    ASSUME LinkInv, FrameInv, WriteReport \/ \E picture \in Picture : SendFrame(picture)
    PROVE  FrameInv'
<1>1. /\ pc = "idle" /\ pc' \in {"idle", "start"}
      /\ UNCHANGED <<given, plugged, queue, unanswered, panel>>
  BY DEF WriteReport, SendFrame, world
<1>2. NoneOut'
  BY <1>1, NoneIsOut DEF LinkInv, FrameInv, NoneOut, Ack
<1>3. /\ pc' = "start" => frame'.left = 2
      /\ pc' = "idle" => frame'.acks = 0
  <2>1. CASE WriteReport
    <3>1. PICK ok \in BOOLEAN :
            frame' = [frame EXCEPT !.picture = None, !.acks = 0,
                                   !.result = IF ok THEN "ok" ELSE "error"]
      BY <2>1 DEF WriteReport
    <3>2. frame'.acks = 0 /\ pc' = "idle"
      BY <1>1, <2>1, <3>1 DEF WriteReport, LinkInv, Kinds, Frame
    <3>3. QED
      BY <3>2
  <2>2. CASE \E picture \in Picture : SendFrame(picture)
    BY <2>2 DEF SendFrame, SequencesPerFrame
  <2>3. QED
    BY <2>1, <2>2
<1>4. PanelFollows' /\ PanelAsked' /\ FrameIsShown'
  BY <1>1, <1>3 DEF PanelFollows, PanelAsked, FrameIsShown, Framing, SequencesPerFrame
<1>5. QED
  BY <1>2, <1>4, NoneIsOne DEF FrameInv

\* An error between two commands: nothing is out.
LEMMA FailsFrames ==
    ASSUME LinkInv, FrameInv, pc \in {"start", "pixels", "end"}, Fails,
           UNCHANGED <<given, plugged, queue>>
    PROVE  FrameInv'
<1>1. pc' = "idle" /\ frame'.result = "error" /\ UNCHANGED <<unanswered, panel>>
  BY DEF Fails, LinkInv, Kinds, Frame
<1>2. NoneOut'
  BY <1>1, NoneIsOut DEF LinkInv, FrameInv, NoneOut, Ack
<1>3. PanelFollows' /\ PanelAsked' /\ FrameIsShown'
  BY <1>1 DEF PanelFollows, PanelAsked, FrameIsShown, Framing
<1>4. QED
  BY <1>2, <1>3, NoneIsOne DEF FrameInv

\* A command goes out after every answer of the one before it was read.
LEMMA CommandFrames == ASSUME LinkInv, FrameInv, WriteCommand PROVE FrameInv'
<1>1. pc \in {"start", "end"} /\ UNCHANGED <<given, plugged, queue>>
  BY DEF WriteCommand, world
<1>2. CASE Fails
  BY <1>1, <1>2, FailsFrames
<1>3. CASE ~Fails
  <2>1. /\ unanswered' = Append(unanswered, pc) /\ UNCHANGED <<frame, panel>>
        /\ pc' = AckOf(pc)
    BY <1>1, <1>3 DEF WriteCommand, AckOf
  <2>2. NoneOut
    BY <1>1, NoneIsOut DEF LinkInv, FrameInv, Ack
  <2>3. /\ unanswered \in Seq(Command) /\ pc \in Command
    BY <1>1 DEF LinkInv, Kinds, Command
  <2>4. \A x \in Ack : ~Holds(queue', x)
    BY <1>1, <2>2 DEF NoneOut, Holds
  <2>5. ASSUME plugged', NEW i \in 1..Len(unanswered'), unanswered'[i] \in {"start", "end"}
        PROVE  i = Len(unanswered') /\ pc' = AckOf(unanswered'[i])
    <3>1. /\ Len(unanswered) \in Nat /\ Len(unanswered') = Len(unanswered) + 1
          /\ unanswered'[Len(unanswered) + 1] = pc
          /\ \A k \in 1..Len(unanswered) : unanswered'[k] = unanswered[k]
      BY <2>1, <2>3, AppendIsLast
    <3>2. \A k \in 1..Len(unanswered) : unanswered[k] \notin {"start", "end"}
      BY <1>1, <2>2, <2>5 DEF NoneOut
    <3>3. i = Len(unanswered) + 1
      BY <2>5, <3>1, <3>2
    <3>4. QED
      BY <2>1, <3>1, <3>3
  <2>6. OneAnswer'
    BY <1>1, <2>2, <2>4, <2>5 DEF OneAnswer, NoneOut
  <2>7. (pc = "start" /\ pc' = "start_ack") \/ (pc = "end" /\ pc' = "end_ack")
    BY <1>1, <2>1 DEF AckOf
  <2>8. Passed' = Passed
    BY <2>1, <2>7 DEF Passed, Asking
  <2>9. PanelFollows'
    BY <2>1, <2>4, <2>7, <2>8 DEF FrameInv, PanelFollows, Acknowledging, Framing, Ack
  <2>10. PanelAsked'
    BY <2>1, <2>3, <2>7, AppendHolds DEF PanelAsked
  <2>11. FrameIsShown'
    BY <2>7 DEF FrameIsShown
  <2>12. QED
    BY <2>6, <2>9, <2>10, <2>11 DEF FrameInv
<1>4. QED
  BY <1>2, <1>3

\* Pixels after the answer, into a panel that is ready for them.
LEMMA PixelsFrames == ASSUME LinkInv, FrameInv, WritePixels PROVE FrameInv'
<1>1. pc = "pixels" /\ UNCHANGED <<given, plugged, queue>>
  BY DEF WritePixels, world
<1>2. CASE Fails
  BY <1>1, <1>2, FailsFrames
<1>3. CASE ~Fails
  <2>1. /\ pc' = "end" /\ UNCHANGED <<frame, unanswered>>
        /\ panel' = [panel EXCEPT !.filled = IF panel.ready THEN frame.picture ELSE Torn]
    BY <1>3 DEF WritePixels
  <2>2. NoneOut'
    BY <1>1, <2>1, NoneIsOut DEF LinkInv, FrameInv, NoneOut, Ack
  <2>3. Passed' = Passed
    BY <1>1, <2>1 DEF Passed, Asking
  <2>4. panel'.hidden = panel.hidden /\ (panel.ready => panel'.filled = frame.picture)
    BY <2>1 DEF LinkInv, Kinds, Panel
  <2>5. PanelFollows'
    BY <1>1, <2>1, <2>3, <2>4 DEF FrameInv, PanelFollows, Acknowledging, Framing
  <2>6. PanelAsked' /\ FrameIsShown'
    BY <2>1 DEF PanelAsked, FrameIsShown
  <2>7. QED
    BY <2>2, <2>5, <2>6, NoneIsOne DEF FrameInv
<1>4. QED
  BY <1>2, <1>3

\* A wait ends with its own answer, or when none can come: then one that was
\* missed is one too few for good.
LEMMA AwaitFrames == ASSUME InTime, LinkInv, FrameInv, AwaitAck PROVE FrameInv'
<1>1. /\ pc \in Ack /\ UNCHANGED <<given, plugged, unanswered, panel>>
      /\ \/ queue # <<>> /\ Head(queue) = pc /\ queue' = Tail(queue) /\ Acknowledged(1)
         \/ queue # <<>> /\ Head(queue) # pc /\ queue' = Tail(queue) /\ UNCHANGED <<pc, frame>>
         \/ Quiet /\ queue' = queue /\ Acknowledged(0)
  BY DEF AwaitAck, GivesUp, Ack, world
<1>2. /\ Kinds /\ FrameCounts /\ frame \in Frame /\ frame.left \in 1..2 /\ frame.acks <= Passed
      /\ queue \in Seq(Report)
  BY <1>1 DEF LinkInv, Kinds, FrameCounts, Framing, Ack
<1>3. CASE queue # <<>> /\ Head(queue) = pc /\ queue' = Tail(queue) /\ Acknowledged(1)
  <2>1. /\ pc' \in Framing \cup {"idle"}
        /\ frame'.picture = frame.picture /\ frame'.acks = frame.acks + 1
        /\ pc = "start_ack" => pc' = "pixels" /\ frame'.left = frame.left
        /\ pc = "end_ack" /\ frame.left = 2 => pc' = "start" /\ frame'.left = 1
        /\ pc = "end_ack" /\ frame.left = 1 => pc' = "idle"
    BY <1>1, <1>2, <1>3, Acknowledges
  <2>2. /\ 1 \in 1..Len(queue) /\ queue[1] = pc
        /\ \A i \in 1..Len(queue') : i + 1 \in 1..Len(queue) /\ queue'[i] = queue[i + 1] /\ i + 1 # 1
    BY <1>2, <1>3, TailIsRest
  <2>3. Holds(queue, pc)
    BY <2>2 DEF Holds
  <2>4. NoneOut'
    <3>1. plugged => \A i \in 1..Len(unanswered) : unanswered[i] \notin {"start", "end"}
      BY <1>1, <2>3 DEF FrameInv, OneAnswer
    <3>2. \A i \in 1..Len(queue') : queue'[i] \notin Ack
      BY <1>1, <2>2 DEF FrameInv, OneAnswer
    <3>3. QED
      BY <1>1, <3>1, <3>2 DEF NoneOut
  <2>5. CASE pc = "start_ack"
    <3>1. panel.ready
      BY <2>3, <2>5 DEF FrameInv, PanelFollows
    <3>2. /\ pc' = "pixels" /\ Passed = 2 * (2 - frame.left) /\ Passed' = 2 * (2 - frame.left) + 1
      BY <2>1, <2>5 DEF Passed, Asking
    <3>3. Acknowledging' => Acknowledging
      BY <1>2, <2>1, <3>2 DEF Acknowledging, Frame
    <3>4. PanelFollows'
      BY <1>1, <2>1, <2>5, <3>1, <3>2, <3>3 DEF FrameInv, PanelFollows, Framing
    <3>5. PanelAsked' /\ FrameIsShown'
      BY <1>1, <3>1, <3>2 DEF PanelAsked, FrameIsShown
    <3>6. QED
      BY <2>4, <3>4, <3>5, NoneIsOne DEF FrameInv
  <2>6. CASE pc = "end_ack" /\ frame.left = 2
    <3>1. pc' = "start" /\ frame'.left = 1 /\ Passed = 1 /\ Passed' = 2
      BY <2>1, <2>6 DEF Passed, Asking
    <3>2. Acknowledging' => Acknowledging
      BY <1>2, <2>1, <3>1 DEF Acknowledging, Frame
    <3>3. PanelFollows'
      BY <1>1, <2>1, <2>3, <2>6, <3>1, <3>2 DEF FrameInv, PanelFollows
    <3>4. PanelAsked' /\ FrameIsShown'
      BY <3>1 DEF PanelAsked, FrameIsShown
    <3>5. QED
      BY <2>4, <3>3, <3>4, NoneIsOne DEF FrameInv
  <2>7. CASE pc = "end_ack" /\ frame.left = 1
    <3>1. pc' = "idle" /\ Passed = 3
      BY <2>1, <2>7 DEF Passed, Asking
    <3>2. frame'.acks = 4 => Acknowledging
      BY <1>2, <2>1, <3>1 DEF Acknowledging, Frame
    <3>3. FrameIsShown'
      BY <1>1, <2>1, <2>3, <2>7, <3>2 DEF FrameInv, PanelFollows, FrameIsShown, SequencesPerFrame
    <3>4. PanelFollows' /\ PanelAsked'
      BY <3>1 DEF PanelFollows, PanelAsked, Framing
    <3>5. QED
      BY <2>4, <3>3, <3>4, NoneIsOne DEF FrameInv
  <2>8. QED
    BY <1>1, <1>2, <2>5, <2>6, <2>7 DEF Ack
<1>4. CASE queue # <<>> /\ Head(queue) # pc /\ queue' = Tail(queue) /\ UNCHANGED <<pc, frame>>
  <2>1. \A x : Holds(queue', x) => Holds(queue, x)
    BY <1>2, <1>4, TailHolds
  <2>2. /\ Len(queue') = Len(queue) - 1 /\ Len(queue) \in Nat
        /\ \A i \in 1..Len(queue') : i + 1 \in 1..Len(queue) /\ queue'[i] = queue[i + 1]
    BY <1>2, <1>4, TailIsRest
  <2>3. ASSUME NEW i \in 1..Len(queue'), queue'[i] \in Ack
        PROVE  pc' = queue'[i] /\ \A j \in 1..Len(queue') : queue'[j] \in Ack => j = i
    <3>1. i + 1 \in 1..Len(queue) /\ queue[i + 1] \in Ack
      BY <2>2, <2>3
    <3>2. pc = queue[i + 1] /\ \A j \in 1..Len(queue) : queue[j] \in Ack => j = i + 1
      BY <3>1 DEF FrameInv, OneAnswer
    <3>3. ASSUME NEW j \in 1..Len(queue'), queue'[j] \in Ack PROVE j = i
      <4>1. j + 1 \in 1..Len(queue) /\ queue[j + 1] \in Ack
        BY <2>2, <3>3
      <4>2. j + 1 = i + 1
        BY <3>2, <4>1
      <4>3. QED
        BY <4>2
    <3>4. QED
      BY <1>4, <2>2, <3>2, <3>3
  <2>4. OneAnswer'
    BY <1>1, <1>4, <2>1, <2>3 DEF FrameInv, OneAnswer
  <2>5. Passed' = Passed
    BY <1>4 DEF Passed
  <2>6. PanelFollows' /\ PanelAsked' /\ FrameIsShown'
    BY <1>1, <1>4, <2>1, <2>5 DEF FrameInv, PanelFollows, PanelAsked, FrameIsShown, Acknowledging, May
  <2>7. QED
    BY <2>4, <2>6 DEF FrameInv
<1>5. CASE Quiet /\ queue' = queue /\ Acknowledged(0)
  <2>1. /\ pc' \in Framing \cup {"idle"}
        /\ frame'.picture = frame.picture /\ frame'.acks = frame.acks
        /\ pc = "start_ack" => pc' = "pixels" /\ frame'.left = frame.left
        /\ pc = "end_ack" /\ frame.left = 2 => pc' = "start" /\ frame'.left = 1
        /\ pc = "end_ack" /\ frame.left = 1 => pc' = "idle"
    BY <1>1, <1>2, <1>5, Acknowledges DEF Frame
  <2>2. queue = <<>> /\ (plugged => unanswered = <<>>)
    BY <1>5 DEF Quiet, InTime, May, LinkInv, Kinds
  <2>3. NoneOut'
    BY <1>1, <1>5, <2>2 DEF NoneOut
  <2>4. CASE pc = "start_ack"
    <3>1. /\ pc' = "pixels" /\ Passed = 2 * (2 - frame.left) /\ Passed' = 2 * (2 - frame.left) + 1
      BY <2>1, <2>4 DEF Passed, Asking
    <3>2. ~Acknowledging'
      BY <1>2, <2>1, <3>1 DEF Acknowledging, Frame
    <3>3. PanelFollows' /\ FrameIsShown'
      BY <3>1, <3>2 DEF PanelFollows, FrameIsShown
    <3>4. PanelAsked'
      BY <1>1, <2>2, <2>4, <3>1 DEF FrameInv, PanelAsked, May, Holds
    <3>5. QED
      BY <2>3, <3>3, <3>4, NoneIsOne DEF FrameInv
  <2>5. CASE pc = "end_ack" /\ frame.left = 2
    <3>1. pc' = "start" /\ Passed = 1 /\ Passed' = 2
      BY <2>1, <2>5 DEF Passed, Asking
    <3>2. ~Acknowledging'
      BY <1>2, <2>1, <3>1 DEF Acknowledging, Frame
    <3>3. PanelFollows' /\ PanelAsked' /\ FrameIsShown'
      BY <3>1, <3>2 DEF PanelFollows, PanelAsked, FrameIsShown
    <3>4. QED
      BY <2>3, <3>3, NoneIsOne DEF FrameInv
  <2>6. CASE pc = "end_ack" /\ frame.left = 1
    <3>1. pc' = "idle" /\ Passed = 3
      BY <2>1, <2>6 DEF Passed, Asking
    <3>2. frame'.acks # 4
      BY <1>2, <2>1, <3>1 DEF Frame
    <3>3. PanelFollows' /\ PanelAsked' /\ FrameIsShown'
      BY <3>1, <3>2 DEF PanelFollows, PanelAsked, FrameIsShown, Framing, SequencesPerFrame
    <3>4. QED
      BY <2>3, <3>3, NoneIsOne DEF FrameInv
  <2>7. QED
    BY <1>1, <1>2, <2>4, <2>5, <2>6 DEF Ack
<1>6. QED
  BY <1>1, <1>3, <1>4, <1>5

\* The device answers the command that is out, and the panel does what it says.
LEMMA RespondFrames == ASSUME LinkInv, FrameInv, Respond PROVE FrameInv'
<1> DEFINE command == Head(unanswered)
<1>1. /\ plugged /\ unanswered # <<>> /\ unanswered' = Tail(unanswered)
      /\ UNCHANGED <<given, plugged, pc, frame>>
  BY DEF Respond, world
<1>2. /\ command \in Command /\ unanswered' \in Seq(Command)
      /\ Len(unanswered) \in Nat /\ Len(unanswered') = Len(unanswered) - 1
      /\ 1 \in 1..Len(unanswered) /\ unanswered[1] = command
      /\ \A i \in 1..Len(unanswered') : i + 1 \in 1..Len(unanswered) /\ unanswered'[i] = unanswered[i + 1]
  BY <1>1, TailIsRest DEF LinkInv, Kinds
<1>3. PICK silent \in BOOLEAN :
        /\ silent => May("silent")
        /\ queue' = IF silent THEN queue ELSE Append(queue, AckOf(command))
        /\ panel' = CASE command = "start" -> [panel EXCEPT !.ready = ~silent]
                      [] command = "end" -> Swapped
                      [] OTHER -> panel
  <2>1. PICK silent \in IF May("silent") THEN BOOLEAN ELSE {FALSE} :
          /\ queue' = IF silent THEN queue ELSE Append(queue, AckOf(command))
          /\ panel' = CASE command = "start" -> [panel EXCEPT !.ready = ~silent]
                        [] command = "end" -> Swapped
                        [] OTHER -> panel
    BY DEF Respond
  <2>2. silent \in BOOLEAN /\ (silent => May("silent"))
    BY <2>1
  <2>3. QED
    BY <2>1, <2>2
<1>4. AckOf(command) \in Report /\ queue \in Seq(Report) /\ panel \in Panel
  BY <1>2 DEF LinkInv, Kinds, AckOf, Report, Command, Asked, Ack
<1>5. /\ Len(queue) \in Nat
      /\ ~silent => /\ Len(queue') = Len(queue) + 1
                    /\ queue'[Len(queue) + 1] = AckOf(command)
                    /\ \A i \in 1..Len(queue) : queue'[i] = queue[i]
      /\ silent => queue' = queue
      /\ \A x : Holds(queue', x) => Holds(queue, x) \/ (~silent /\ x = AckOf(command))
  <2>1. /\ Len(queue) \in Nat
        /\ ~silent => /\ Len(queue') = Len(queue) + 1
                      /\ queue'[Len(queue) + 1] = AckOf(command)
                      /\ \A i \in 1..Len(queue) : queue'[i] = queue[i]
    BY <1>3, <1>4, AppendIsLast
  <2>2. ASSUME NEW x, Holds(queue', x) PROVE Holds(queue, x) \/ (~silent /\ x = AckOf(command))
    BY <1>3, <1>4, <2>2, AppendHolds
  <2>3. QED
    BY <1>3, <2>1, <2>2
<1>6. Passed' = Passed
  BY <1>1 DEF Passed
<1>7. CASE command \in Asked
  <2>1. AckOf(command) \notin Ack /\ panel' = panel /\ command # "start"
    BY <1>3, <1>7 DEF AckOf, Ack, Asked
  <2>2. ASSUME NEW x \in Ack, Holds(queue', x) PROVE Holds(queue, x)
    BY <1>5, <2>1, <2>2
  <2>3. ASSUME NEW i \in 1..Len(unanswered'), unanswered'[i] \in {"start", "end"}
        PROVE  /\ i = Len(unanswered') /\ pc' = AckOf(unanswered'[i])
               /\ \A x \in Ack : ~Holds(queue', x)
    <3>1. i + 1 \in 1..Len(unanswered) /\ unanswered[i + 1] \in {"start", "end"}
      BY <1>2, <2>3
    <3>2. /\ i + 1 = Len(unanswered) /\ pc = AckOf(unanswered[i + 1])
          /\ \A x \in Ack : ~Holds(queue, x)
      BY <1>1, <3>1 DEF FrameInv, OneAnswer
    <3>3. i = Len(unanswered')
      BY <1>2, <3>2
    <3>4. QED
      BY <1>1, <1>2, <2>2, <3>2, <3>3
  <2>4. ASSUME NEW i \in 1..Len(queue'), queue'[i] \in Ack
        PROVE  i \in 1..Len(queue) /\ queue'[i] = queue[i]
    BY <1>5, <2>1, <2>4
  <2>5. ASSUME NEW i \in 1..Len(queue'), queue'[i] \in Ack
        PROVE  pc' = queue'[i] /\ \A j \in 1..Len(queue') : queue'[j] \in Ack => j = i
    BY <1>1, <2>4, <2>5 DEF FrameInv, OneAnswer
  <2>6. OneAnswer'
    BY <2>3, <2>5 DEF OneAnswer
  <2>7. Holds(unanswered, "start") => Holds(unanswered', "start")
    BY <1>1, <2>1, TailHolds DEF LinkInv, Kinds
  <2>8. PanelFollows'
    BY <1>1, <1>6, <2>1, <2>2 DEF FrameInv, PanelFollows, Acknowledging, Ack
  <2>9. PanelAsked' /\ FrameIsShown'
    BY <1>1, <2>1, <2>7 DEF FrameInv, PanelAsked, FrameIsShown, May
  <2>10. QED
    BY <2>6, <2>8, <2>9 DEF FrameInv
<1>8. CASE command \in {"start", "end"}
  <2>1. /\ 1 = Len(unanswered) /\ pc = AckOf(command)
        /\ \A x \in Ack : ~Holds(queue, x)
    BY <1>1, <1>2, <1>8 DEF FrameInv, OneAnswer
  <2>2. Len(unanswered') = 0
    <3>1. Len(unanswered) = 1
      BY <2>1
    <3>2. Len(unanswered') = Len(unanswered) - 1
      BY <1>2
    <3>3. QED
      BY <3>1, <3>2
  <2>3. \A i \in 1..Len(queue) : queue[i] \notin Ack
    BY <2>1 DEF Holds
  <2>4. ASSUME NEW i \in 1..Len(queue'), queue'[i] \in Ack
        PROVE  i = Len(queue) + 1 /\ queue'[i] = AckOf(command)
    BY <1>5, <2>3, <2>4
  <2>5. OneAnswer'
    <3>1. 1..Len(unanswered') = {}
      BY <2>2
    <3>2. ASSUME NEW i \in 1..Len(queue'), queue'[i] \in Ack
          PROVE  pc' = queue'[i] /\ \A j \in 1..Len(queue') : queue'[j] \in Ack => j = i
      BY <1>1, <2>1, <2>4, <3>2
    <3>3. QED
      BY <3>1, <3>2 DEF OneAnswer
  <2>6. (command = "start" /\ pc = "start_ack") \/ (command = "end" /\ pc = "end_ack")
    BY <1>8, <2>1 DEF AckOf
  <2>7. CASE command = "start"
    <3>1. /\ pc = "start_ack" /\ panel'.ready = ~silent
          /\ panel'.filled = panel.filled /\ panel'.hidden = panel.hidden
      BY <1>3, <1>4, <2>6, <2>7 DEF Panel
    <3>2. Holds(queue', "start_ack") => ~silent
      BY <1>5, <2>1 DEF Ack
    <3>3. PanelFollows'
      BY <1>1, <1>6, <3>1, <3>2 DEF FrameInv, PanelFollows, Acknowledging
    <3>4. PanelAsked' /\ FrameIsShown'
      BY <1>1, <1>3, <3>1 DEF PanelAsked, FrameIsShown, May
    <3>5. QED
      BY <2>5, <3>3, <3>4 DEF FrameInv
  <2>8. CASE command = "end"
    <3>1. /\ pc = "end_ack" /\ panel'.glass = panel.hidden
          /\ panel'.hidden = panel.filled /\ panel'.filled = panel.filled
      BY <1>3, <1>4, <2>6, <2>8 DEF Panel, Swapped
    <3>2. PanelFollows'
      BY <1>1, <1>6, <3>1 DEF FrameInv, PanelFollows, Acknowledging, Framing
    <3>3. PanelAsked' /\ FrameIsShown'
      BY <1>1, <3>1 DEF PanelAsked, FrameIsShown
    <3>4. QED
      BY <2>5, <3>2, <3>3 DEF FrameInv
  <2>9. QED
    BY <1>8, <2>7, <2>8
<1>9. QED
  BY <1>2, <1>7, <1>8 DEF Command

\* Reports of the driver, an unplugged device, and nothing at all.
LEMMA OthersFrames ==
    ASSUME LinkInv, FrameInv, StatusReport \/ Unplug \/ UNCHANGED vars
    PROVE  FrameInv'
<1>1. /\ UNCHANGED <<given, pc, frame, unanswered, panel>>
      /\ plugged' => plugged
      /\ queue' = queue \/ queue' = Append(queue, "status")
  BY DEF StatusReport, Unplug, vars, world, connection
<1>2. queue \in Seq(Report) /\ "status" \in Report /\ "status" \notin Ack
  BY DEF LinkInv, Kinds, Report, Ack
<1>3. ASSUME NEW x \in Ack, Holds(queue', x) PROVE Holds(queue, x)
  <2>1. Holds(Append(queue, "status"), x) <=> Holds(queue, x) \/ x = "status"
    BY <1>2, AppendHolds
  <2>2. QED
    BY <1>1, <1>2, <1>3, <2>1
<1>4. ASSUME NEW i \in 1..Len(queue'), queue'[i] \in Ack
      PROVE  i \in 1..Len(queue) /\ queue'[i] = queue[i]
  BY <1>1, <1>2, <1>4, AppendIsLast
<1>5. ASSUME NEW i \in 1..Len(queue'), queue'[i] \in Ack
      PROVE  pc' = queue'[i] /\ \A j \in 1..Len(queue') : queue'[j] \in Ack => j = i
  BY <1>1, <1>4, <1>5 DEF FrameInv, OneAnswer
<1>6. OneAnswer'
  BY <1>1, <1>3, <1>5 DEF FrameInv, OneAnswer
<1>7. Passed' = Passed
  BY <1>1 DEF Passed
<1>8. PanelFollows' /\ PanelAsked' /\ FrameIsShown'
  BY <1>1, <1>3, <1>7 DEF FrameInv, PanelFollows, PanelAsked, FrameIsShown, Acknowledging, May, Ack, Holds
<1>9. QED
  BY <1>6, <1>8 DEF FrameInv

\* Every step keeps the frame and the panel together.
LEMMA NextFrames == ASSUME InTime, LinkInv, FrameInv, [Next]_vars PROVE FrameInv'
<1>1. CASE Open \/ Claim \/ Ask \/ Collect \/ Resolve
  BY <1>1, ConnectingFrames
<1>2. CASE WriteReport \/ \E picture \in Picture : SendFrame(picture)
  BY <1>2, BeginFrames
<1>3. CASE WriteCommand \/ AwaitAck \/ WritePixels
  BY <1>3, InTime, CommandFrames, AwaitFrames, PixelsFrames
<1>4. CASE Respond \/ StatusReport \/ Unplug \/ UNCHANGED vars
  BY <1>4, RespondFrames, OthersFrames
<1>5. QED
  BY <1>1, <1>2, <1>3, <1>4 DEF Next

\* The frame and the panel stay together throughout.
THEOREM FramesInStep == ASSUME InTime PROVE Spec => [](LinkInv /\ FrameInv)
<1>1. Init => LinkInv /\ FrameInv
  BY LinkStarts, FrameStarts
<1>2. (LinkInv /\ FrameInv) /\ [Next]_vars => (LinkInv /\ FrameInv)'
  BY InTime, NextLinks, NextFrames
<1>3. QED
  BY <1>1, <1>2, PTL DEF Spec

\* lcd.rs, send_frame: a picture whose commands were all acknowledged is on the
\* glass, whole, when send_frame returns, for a device whose answers are never
\* later than the wait for them.
THEOREM FramesAreShown == ASSUME InTime PROVE Spec => []FrameIsShown
<1>1. LinkInv /\ FrameInv => FrameIsShown
  BY DEF FrameInv
<1>2. QED
  BY <1>1, FramesInStep, PTL

\* await_ack: the pixels of a panel that is not silent never come before it is
\* ready for them.
THEOREM PixelsWait == ASSUME InTime PROVE Spec => PixelsWaitForPanel
<1>1. ASSUME LinkInv, FrameInv, WritePixels, panel' # panel, ~May("silent") PROVE panel.ready
  <2>1. pc = "pixels" /\ plugged
    BY <1>1 DEF WritePixels, Fails
  <2>2. QED
    BY <1>1, <2>1 DEF FrameInv, PanelAsked
<1>2. LinkInv /\ FrameInv /\ [Next]_vars =>
        [WritePixels /\ panel' # panel /\ ~May("silent") => panel.ready]_vars
  BY <1>1
<1>3. QED
  BY <1>2, FramesInStep, PTL DEF Spec, PixelsWaitForPanel

-----------------------------------------------------------------------------
(* The processor's load: Machine.                                          *)

Moment == [idle : Nat, total : Nat]

\* What is not idle never shrinks: a correction is of idle time, and a baseline is of times
\* that were.  An answer is the whole of what passed since the one before.
MachineIInv ==
    /\ ticks \in [work : Nat, idle : Nat, iowait : Nat, guest : Nat]
    /\ previous \in Moment \cup {NoBaseline}
    /\ origin \in Moment \cup {NoBaseline}
    /\ told \in [busy : Nat, total : Nat]
    /\ steady \in BOOLEAN
    /\ load.cause = "" => load.total > 0 /\ load.busy \in 0..load.total
    /\ previous = NoBaseline => origin = NoBaseline /\ told.busy = 0 /\ told.total = 0
    /\ previous # NoBaseline =>
        /\ origin # NoBaseline
        /\ previous.total - previous.idle <= Times.total - Times.idle
        /\ steady => /\ previous.total <= Times.total /\ previous.idle <= Times.idle
                     /\ told.total = previous.total - origin.total
                     /\ told.busy = told.total - (previous.idle - origin.idle)

\* The kernel's times are times, and a missing baseline is none.
LEMMA TimesAreTimes ==
    ASSUME ticks \in [work : Nat, idle : Nat, iowait : Nat, guest : Nat]
    PROVE  /\ Times \in Moment /\ Times.idle = ticks.idle + ticks.iowait
           /\ Times.total = ticks.work + ticks.idle + ticks.iowait + ticks.guest
           /\ NoBaseline \notin Moment
<1>1. Times = [idle |-> ticks.idle + ticks.iowait,
               total |-> ticks.work + ticks.idle + ticks.iowait + ticks.guest]
  BY DEF Times
<1>2. NoBaseline.idle = -1
  BY DEF NoBaseline
<1> QED BY <1>1, <1>2 DEF Moment

LEMMA MachineInitHolds == MachineInit => MachineIInv
<1> SUFFICES ASSUME MachineInit PROVE MachineIInv
  OBVIOUS
<1>1. ticks = [work |-> 0, idle |-> 0, iowait |-> 0, guest |-> 0]
  BY DEF MachineInit
<1>2. ticks \in [work : Nat, idle : Nat, iowait : Nat, guest : Nat]
  BY <1>1
<1>3. Times \in Moment /\ NoBaseline \notin Moment
  BY <1>2, TimesAreTimes
<1>4. load.cause # ""
  BY DEF MachineInit, NoFigure
<1>5. previous \in {NoBaseline, Times} /\ origin = previous /\ told = [busy |-> 0, total |-> 0] /\ steady = TRUE
  BY DEF MachineInit
<1>6. Times.total \in Nat /\ Times.idle \in Nat
  BY <1>3 DEF Moment
<1> HIDE DEF NoBaseline
<1>7. CASE previous = NoBaseline
  BY <1>2, <1>3, <1>4, <1>5, <1>7 DEF MachineIInv
<1>8. CASE previous # NoBaseline
  <2>1. previous = Times
    BY <1>5, <1>8
  <2>2. previous.total - previous.idle <= Times.total - Times.idle /\ previous.total <= Times.total
        /\ previous.idle <= Times.idle /\ previous.total - origin.total = 0 /\ previous.idle - origin.idle = 0
    BY <1>5, <1>6, <2>1
  <2>3. told.total = 0 /\ told.busy = 0 /\ told \in [busy : Nat, total : Nat]
    BY <1>5
  <2>4. /\ told.total = previous.total - origin.total
        /\ told.busy = told.total - (previous.idle - origin.idle)
    BY <2>2, <2>3
  <2>5. origin # NoBaseline /\ previous \in Moment /\ origin \in Moment /\ steady \in BOOLEAN
    BY <1>3, <1>5, <1>8, <2>1
  <2> HIDE DEF Times, Moment
  <2> QED BY <1>2, <1>4, <1>8, <2>2, <2>3, <2>4, <2>5 DEF MachineIInv
<1> QED BY <1>7, <1>8

\* Time that passes is in no counter less, and a correction is of idle time alone.
LEMMA TicksHold == ASSUME MachineIInv, CountTick \/ Correction PROVE MachineIInv'
<1>1. ticks \in [work : Nat, idle : Nat, iowait : Nat, guest : Nat]
  BY DEF MachineIInv
<1>2. UNCHANGED <<previous, load, told, origin>>
  BY DEF CountTick, Correction
<1>3. /\ ticks' \in [work : Nat, idle : Nat, iowait : Nat, guest : Nat]
      /\ ticks.work + ticks.guest <= ticks'.work + ticks'.guest
      /\ steady' \in BOOLEAN
      /\ steady' => /\ steady
                    /\ ticks.idle + ticks.iowait <= ticks'.idle + ticks'.iowait
                    /\ ticks.work + ticks.idle + ticks.iowait + ticks.guest
                            <= ticks'.work + ticks'.idle + ticks'.iowait + ticks'.guest
  <2>1. CASE CountTick
    <3>1. steady' = steady /\ steady \in BOOLEAN
      BY <2>1 DEF CountTick, MachineIInv
    <3>2. PICK counter \in {"work", "idle", "iowait", "guest"} :
            ticks' = IF counter = "guest"
                     THEN [ticks EXCEPT !.guest = @ + 1, !.work = @ + 1]
                     ELSE [ticks EXCEPT ![counter] = @ + 1]
      BY <2>1 DEF CountTick
    <3>3. CASE counter = "guest"
      <4>1. ticks' = [work |-> ticks.work + 1, idle |-> ticks.idle, iowait |-> ticks.iowait,
                      guest |-> ticks.guest + 1]
        BY <1>1, <3>2, <3>3
      <4> QED BY <1>1, <3>1, <4>1
    <3>4. CASE counter = "work"
      <4>1. ticks' = [ticks EXCEPT !.work = @ + 1]
        BY <3>2, <3>4
      <4> QED BY <1>1, <3>1, <4>1
    <3>5. CASE counter = "idle"
      <4>1. ticks' = [ticks EXCEPT !.idle = @ + 1]
        BY <3>2, <3>5
      <4> QED BY <1>1, <3>1, <4>1
    <3>6. CASE counter = "iowait"
      <4>1. ticks' = [ticks EXCEPT !.iowait = @ + 1]
        BY <3>2, <3>6
      <4> QED BY <1>1, <3>1, <4>1
    <3> QED BY <3>2, <3>3, <3>4, <3>5, <3>6
  <2>2. CASE Correction
    <3>1. ticks' = [ticks EXCEPT !.iowait = @ - 1] /\ ticks.iowait > 0 /\ steady' = FALSE
      BY <2>2 DEF Correction
    <3>2. ticks' = [work |-> ticks.work, idle |-> ticks.idle, iowait |-> ticks.iowait - 1,
                    guest |-> ticks.guest]
      BY <1>1, <3>1
    <3>3. ticks.iowait - 1 \in Nat
      BY <1>1, <3>1
    <3>4. ticks' \in [work : Nat, idle : Nat, iowait : Nat, guest : Nat]
      BY <1>1, <3>2, <3>3
    <3>5. ticks'.work = ticks.work /\ ticks'.guest = ticks.guest /\ ticks.work + ticks.guest \in Nat
      BY <1>1, <3>2
    <3>6. ticks.work + ticks.guest <= ticks'.work + ticks'.guest
      BY <3>5
    <3>7. steady' \in BOOLEAN /\ ~steady'
      BY <3>1, Zenon
    <3> QED BY <3>4, <3>6, <3>7, Zenon
  <2> QED BY <2>1, <2>2
<1>4. /\ Times \in Moment /\ Times.idle = ticks.idle + ticks.iowait
      /\ Times.total = ticks.work + ticks.idle + ticks.iowait + ticks.guest
      /\ NoBaseline \notin Moment
  BY <1>1, TimesAreTimes
<1>5. /\ Times' \in Moment /\ Times'.idle = ticks'.idle + ticks'.iowait
      /\ Times'.total = ticks'.work + ticks'.idle + ticks'.iowait + ticks'.guest
  <2>1. Times' = [idle |-> ticks'.idle + ticks'.iowait,
                  total |-> ticks'.work + ticks'.idle + ticks'.iowait + ticks'.guest]
    BY DEF Times
  <2> QED BY <1>3, <2>1 DEF Moment
<1>6. ASSUME previous # NoBaseline
      PROVE  /\ previous.total - previous.idle <= Times'.total - Times'.idle
             /\ steady' => previous.total <= Times'.total /\ previous.idle <= Times'.idle
  <2>1. /\ previous.total \in Nat /\ previous.idle \in Nat
        /\ previous.total - previous.idle <= Times.total - Times.idle
        /\ steady => previous.total <= Times.total /\ previous.idle <= Times.idle
    BY <1>6 DEF MachineIInv, Moment
  <2>2. /\ ticks.work \in Nat /\ ticks.idle \in Nat /\ ticks.iowait \in Nat /\ ticks.guest \in Nat
        /\ ticks'.work \in Nat /\ ticks'.idle \in Nat /\ ticks'.iowait \in Nat /\ ticks'.guest \in Nat
    BY <1>1, <1>3
  <2> QED BY <1>3, <1>4, <1>5, <2>1, <2>2
<1>7. NoBaseline' = NoBaseline
  BY DEF NoBaseline
<1> HIDE DEF NoBaseline
<1> QED BY <1>2, <1>3, <1>6, <1>7 DEF MachineIInv

\* A reading covers what passed since the one before, the first begins the account, and one
\* that fails or finds no time passed leaves it where it was.
LEMMA ReadingsHold == ASSUME MachineIInv, ReadLoad PROVE MachineIInv'
<1>1. /\ Times \in Moment /\ NoBaseline \notin Moment /\ Times.total \in Nat /\ Times.idle \in Nat
      /\ Times.total - Times.idle >= 0
  <2>1. ticks \in [work : Nat, idle : Nat, iowait : Nat, guest : Nat]
    BY DEF MachineIInv
  <2>2. ticks.work \in Nat /\ ticks.idle \in Nat /\ ticks.iowait \in Nat /\ ticks.guest \in Nat
    BY <2>1
  <2> QED BY <2>1, <2>2, TimesAreTimes
<1>2. UNCHANGED <<ticks, steady>>
  BY DEF ReadLoad, LoadIsRead, LoadIsUnread
<1>3. Times' = Times /\ NoBaseline' = NoBaseline
  BY <1>2 DEF Times, NoBaseline
<1>4. \A cause \in {"unread", "not_twice", "no_ticks"} : NoFigure(cause).cause # ""
  BY DEF NoFigure
<1>5. CASE LoadIsUnread
  <2>1. load'.cause # "" /\ UNCHANGED <<previous, told, origin>>
    BY <1>4, <1>5 DEF LoadIsUnread
  <2> HIDE DEF NoBaseline, Times
  <2> QED BY <1>2, <1>3, <2>1 DEF MachineIInv
<1>6. CASE LoadIsRead
  <2> DEFINE total == SatSub(Times.total, previous.total)
             idle_ == SatSub(Times.idle, previous.idle)
             busy == SatSub(total, idle_)
  <2>1. CASE previous = NoBaseline
    <3>1. previous' = Times /\ load'.cause # "" /\ told' = told /\ origin = NoBaseline /\ origin' = Times
          /\ told.busy = 0 /\ told.total = 0
      BY <1>4, <1>6, <2>1 DEF LoadIsRead, MachineIInv
    <3>2. Times.total - Times.total = 0 /\ Times.idle - Times.idle = 0 /\ Times # NoBaseline /\ 0 - 0 = 0
          /\ Times.total <= Times.total /\ Times.idle <= Times.idle
          /\ Times.total - Times.idle <= Times.total - Times.idle
      BY <1>1
    <3> HIDE DEF NoBaseline, Times
    <3> QED BY <1>1, <1>2, <1>3, <3>1, <3>2 DEF MachineIInv
  <2>2. CASE previous # NoBaseline /\ total = 0
    <3>1. load'.cause # "" /\ UNCHANGED <<previous, told, origin>>
      BY <1>4, <1>6, <2>2 DEF LoadIsRead
    <3> HIDE DEF NoBaseline, Times
    <3> QED BY <1>2, <1>3, <3>1 DEF MachineIInv
  <2>3. CASE previous # NoBaseline /\ total # 0
    <3>1. /\ previous' = Times /\ origin' = origin
          /\ load' = [busy |-> busy, total |-> total, cause |-> ""]
          /\ told' = [busy |-> told.busy + busy, total |-> told.total + total]
      BY <1>6, <2>3 DEF LoadIsRead
    <3>2. /\ previous.total \in Nat /\ previous.idle \in Nat
          /\ previous.total - previous.idle <= Times.total - Times.idle
          /\ origin # NoBaseline /\ origin.total \in Nat /\ origin.idle \in Nat
          /\ told.busy \in Nat /\ told.total \in Nat
      BY <2>3 DEF MachineIInv, Moment
    <3>3. total \in Nat /\ idle_ \in Nat /\ busy \in 0..total
      <4>1. \A a, b \in Nat : SatSub(a, b) \in 0..a
        BY DEF SatSub
      <4>2. total \in Nat /\ idle_ \in Nat
        <5> HIDE DEF Times
        <5>1. total \in 0..Times.total /\ idle_ \in 0..Times.idle
          BY <1>1, <3>2, <4>1
        <5> HIDE DEF total, idle_
        <5> QED BY <1>1, <5>1
      <4> HIDE DEF total, idle_
      <4> QED BY <4>1, <4>2
    <3>4. load'.total > 0 /\ load'.busy \in 0..load'.total
      <4> HIDE DEF total, busy, idle_
      <4>1. load'.total = total /\ load'.busy = busy
        BY <3>1
      <4>2. total > 0
        BY <2>3, <3>3
      <4> QED BY <3>3, <4>1, <4>2
    <3>5. /\ told' \in [busy : Nat, total : Nat]
          /\ told'.busy = told.busy + busy /\ told'.total = told.total + total
      <4>1. told.busy + busy \in Nat /\ told.total + total \in Nat
        <5> HIDE DEF total, busy, idle_
        <5> QED BY <3>2, <3>3
      <4> HIDE DEF total, busy, idle_
      <4> QED BY <3>1, <4>1
    <3>6. ASSUME steady
          PROVE  /\ told'.total = Times.total - origin.total
                 /\ told'.busy = told'.total - (Times.idle - origin.idle)
      <4>1. /\ previous.total <= Times.total /\ previous.idle <= Times.idle
            /\ told.total = previous.total - origin.total
            /\ told.busy = told.total - (previous.idle - origin.idle)
        BY <2>3, <3>6 DEF MachineIInv
      <4>2. total = Times.total - previous.total /\ idle_ = Times.idle - previous.idle
        BY <1>1, <3>2, <4>1 DEF SatSub
      <4>3. busy = total - idle_
        <5>1. total >= idle_
          BY <1>1, <3>2, <4>2
        <5> HIDE DEF total, idle_
        <5> QED BY <3>3, <5>1 DEF SatSub
      <4> HIDE DEF total, idle_, busy, Times
      <4> QED BY <1>1, <3>2, <3>3, <3>5, <4>1, <4>2, <4>3
    <3>7. Times # NoBaseline /\ Times.total <= Times.total /\ Times.idle <= Times.idle
          /\ Times.total - Times.idle <= Times.total - Times.idle
      BY <1>1
    <3> HIDE DEF NoBaseline, Times, total, busy, idle_
    <3> QED BY <1>1, <1>2, <1>3, <3>1, <3>2, <3>4, <3>5, <3>6, <3>7 DEF MachineIInv
  <2> QED BY <2>1, <2>2, <2>3
<1> QED BY <1>5, <1>6 DEF ReadLoad

\* The account of the processor's time is kept by every tick, correction and reading.
THEOREM MachineInductive == MachineSpec => []MachineIInv
<1>1. MachineIInv /\ [MachineNext]_machineVars => MachineIInv'
  <2> SUFFICES ASSUME MachineIInv, [MachineNext]_machineVars PROVE MachineIInv'
    OBVIOUS
  <2>1. CASE UNCHANGED machineVars
    BY <2>1 DEF machineVars, MachineIInv, Times, NoBaseline
  <2>2. CASE MachineNext
    BY <2>2, TicksHold, ReadingsHold DEF MachineNext
  <2> QED BY <2>1, <2>2
<1> QED BY <1>1, MachineInitHolds, PTL DEF MachineSpec

\* A load is a share of a time that passed, and the answers cover the time since the first
\* baseline once, whatever reads failed between them (sensors.rs, cpu_load_percent).
THEOREM LoadStaysMeasured == MachineSpec => []LoadIsMeasured
<1>1. MachineIInv => LoadIsMeasured
  BY DEF MachineIInv, LoadIsMeasured
<1> QED BY <1>1, MachineInductive, PTL
=============================================================================
