--------------------------- MODULE ExecutorProofs ---------------------------
(***************************************************************************)
(* The writers of a device which says nothing back.  First the display:    *)
(* the panel shows what is on record of it, a refused stream stays         *)
(* refused, and the ticker keeps time, for any presets, brightnesses,      *)
(* readings and faults, a clip of any number of frames and any delays, and *)
(* any telemetry interval.  Then the lighting: the record is true and the  *)
(* floor holds, for any channels, programs and floor.  Last the probes,    *)
(* which run while the daemon does not.  They share no state.              *)
(***************************************************************************)
EXTENDS Display, Lighting, Probes, FiniteSetTheorems, TLAPS

-----------------------------------------------------------------------------
(* The inductive invariant.                                                *)

Animation == [cursor : 1..Frames, due : Nat, start : Nat]
Executor == [active     : Preset \cup {None},
             committed  : [preset : Preset, picture : Picture] \cup {None},
             brightness : Brightness \cup {None},
             faulted    : BOOLEAN,
             animation  : Animation \cup {None}]
Panel == [picture : Picture \cup {Firmware, Torn}, brightness : Brightness]
Hardware == {"none", "confirmed", "not_applied", "uncertain"}
Outcome == [executor : Executor, panel : Panel, hardware : Hardware, tried : BOOLEAN]

\* The picture an executor deduplicates against is the one on the glass.
Shown(e, g) == Live /\ e.committed # None => g.picture = e.committed.picture

\* Only an applied clip plays.
PlaysItsClip(e) ==
    e.animation # None => e.active \in Preset /\ e.active.kind = "clip"

\* An animation stands on the n-th picture of its loop, which began in the past and
\* ends when its due time says.
Plays(a, n) ==
    /\ a.cursor = FrameAfter(1, n)
    /\ a.start + At(n) <= clock
    /\ a.due = a.start + At(n + 1)

OnTime(e) == e.animation # None => \E n \in 0..MaxTime : Plays(e.animation, n)

\* What holds of the executor and the panel, between actions and inside a wake.
Sound(e, g) == Shown(e, g) /\ PlaysItsClip(e) /\ OnTime(e)

WorldType ==
    /\ plugs \in 1..MaxPlugs /\ link \in 0..plugs /\ plugged \in BOOLEAN
    /\ present \in BOOLEAN /\ reading \in Reading
    /\ clock \in 0..MaxTime
    /\ tried \in BOOLEAN /\ refused \in BOOLEAN

\* The next pass is on the grid of the intervals, and not further away than one.
OnGrid == next \in Nat /\ next <= clock + Interval /\ next % Interval = 0

IInv ==
    /\ executor \in Executor /\ panel \in Panel
    /\ Sound(executor, panel)
    /\ WorldType /\ OnGrid
    /\ refused => executor.faulted

-----------------------------------------------------------------------------
(* Lemmas about the clock of the clip.                                     *)

\* A number is its quotient and its remainder.
LEMMA Division ==
    ASSUME NEW n \in Nat, NEW d \in Nat \ {0}
    PROVE  /\ n \div d \in Nat
           /\ n % d \in 0..d - 1
           /\ n = d * (n \div d) + (n % d)
  OBVIOUS

\* And no other.
LEMMA DivisionIsUnique ==
    ASSUME NEW d \in Nat \ {0}, NEW q \in Nat, NEW r \in 0..d - 1,
           NEW n \in Nat, n = d * q + r
    PROVE  n \div d = q /\ n % d = r
<1>1. n < d * q + d
  OBVIOUS
<1>2. d * (q + 1) = d * q + d
  OBVIOUS
<1>3. n \div d = q
  BY <1>1, <1>2
<1>4. n = d * (n \div d) + (n % d) /\ n % d \in Int
  OBVIOUS
<1>5. d * (n \div d) = d * q /\ d * q \in Int
  BY <1>3
<1>6. QED
  BY <1>3, <1>4, <1>5

\* A clip has at least two frames.
LEMMA FramesType == Frames \in Nat \ {0} /\ Frames > 1 /\ Len(Begin) = Frames + 1
  BY DisplayAssumption DEF Frames

\* Its times are natural numbers, one apart at least.
LEMMA ClipShape ==
    /\ \A i \in 1..Frames + 1 : Begin[i] \in Nat /\ Begin[i] >= i - 1
    /\ Period \in Nat /\ Period >= Frames
    /\ Begin[1] = 0
<1>1. Frames \in Nat /\ Frames > 1 /\ Len(Begin) = Frames + 1
  BY FramesType
<1>2. \A i \in 1..Frames + 1 : Begin[i] \in Nat
  <2>1. ASSUME NEW i \in 1..Len(Begin) PROVE Begin[i] \in Nat
    BY DisplayAssumption
  <2>2. QED
    BY <1>1, <2>1
<1>3. Begin[1] = 0 /\ \A i, j \in 1..Frames + 1 : i < j => Begin[j] - Begin[i] >= j - i
  BY <1>1, DisplayAssumption
<1>4. ASSUME NEW i \in 1..Frames + 1 PROVE Begin[i] >= i - 1
  <2>1. CASE i = 1
    BY <2>1, <1>3
  <2>2. CASE i > 1
    <3>1. Begin[i] - Begin[1] >= i - 1
      BY <2>2, <1>3, <1>1
    <3>2. QED
      BY <3>1, <1>2, <1>3, <1>1
  <2>3. QED
    BY <2>1, <2>2
<1>5. Frames + 1 \in 1..Frames + 1
  BY <1>1
<1>6. Period \in Nat /\ Period >= Frames
  BY <1>1, <1>2, <1>4, <1>5 DEF Period
<1>7. QED
  BY <1>1, <1>2, <1>3, <1>4, <1>6

\* A picture of the loop is a number of whole loops and a frame.
LEMMA Loops ==
    ASSUME NEW n \in Nat
    PROVE  /\ n \div Frames \in Nat
           /\ n % Frames \in 0..Frames - 1
           /\ n = Frames * (n \div Frames) + (n % Frames)
  BY Division, FramesType

\* And of only one such number and frame.
LEMMA LoopsAreUnique ==
    ASSUME NEW n \in Nat, NEW q \in Nat, NEW r \in 0..Frames - 1, n = Frames * q + r
    PROVE  n \div Frames = q /\ n % Frames = r
  BY DivisionIsUnique, FramesType

\* A picture begins at a natural time, and no two begin at once.
LEMMA AtType ==
    ASSUME NEW n \in Nat
    PROVE  At(n) \in Nat /\ At(n) >= n
<1> DEFINE q == n \div Frames
           r == n % Frames
<1>1. q \in Nat /\ r \in 0..Frames - 1 /\ n = Frames * q + r
  BY Loops
<1>2. r + 1 \in 1..Frames + 1 /\ Begin[r + 1] \in Nat /\ Begin[r + 1] >= r
  BY <1>1, ClipShape, FramesType
<1> HIDE DEF q, r
<1>3. q * Period \in Nat /\ q * Period >= Frames * q /\ Frames * q \in Nat
  <2>1. ASSUME NEW x \in Nat, NEW y \in Nat, NEW z \in Nat, y >= z
        PROVE  x * y \in Nat /\ x * y >= z * x /\ z * x \in Nat
    <3>1. x * (y - z) \in Nat /\ x * y = z * x + x * (y - z)
      BY <2>1
    <3>2. x * y \in Nat /\ z * x \in Nat
      OBVIOUS
    <3>3. QED
      BY <3>1, <3>2
  <2>2. QED
    BY <1>1, <2>1, ClipShape, FramesType
<1>4. At(n) = q * Period + Begin[r + 1]
  BY DEF At, q, r
<1>5. QED
  BY <1>1, <1>2, <1>3, <1>4, FramesType

\* Whole loops later the same frames begin, as many periods later.
LEMMA AtRepeats ==
    ASSUME NEW m \in Nat, NEW p \in Nat
    PROVE  At(m + Frames * p) = At(m) + p * Period
<1> DEFINE q == m \div Frames
           r == m % Frames
           n == m + Frames * p
<1>1. q \in Nat /\ r \in 0..Frames - 1 /\ m = Frames * q + r
  BY Loops
<1> HIDE DEF q, r
<1>2. n \in Nat /\ n = Frames * (q + p) + r
  BY <1>1, FramesType
<1>3. n \div Frames = q + p /\ n % Frames = r
  BY <1>1, <1>2, LoopsAreUnique
<1>4. At(n) = (q + p) * Period + Begin[r + 1]
  BY <1>3 DEF At
<1>5. At(m) = q * Period + Begin[r + 1]
  BY DEF At, q, r
<1>6. Begin[r + 1] \in Nat
  BY <1>1, ClipShape, FramesType
<1>7. (q + p) * Period = q * Period + p * Period
  BY <1>1, ClipShape
<1>8. q * Period \in Nat /\ p * Period \in Nat
  BY <1>1, ClipShape
<1>9. QED
  BY <1>4, <1>5, <1>6, <1>7, <1>8

\* What an animation on the n-th picture does when it advances by k: it is on the
\* picture n + k, due when that one ends (advance_animation adds the delay of
\* each frame it passes).
LEMMA AdvanceKeepsTime ==
    ASSUME NEW a \in Animation, NEW n \in Nat, NEW k \in Nat,
           a.cursor = FrameAfter(1, n), a.due = a.start + At(n + 1)
    PROVE  /\ FrameAfter(a.cursor, k) = FrameAfter(1, n + k)
           /\ DueAfter(a, k) = a.start + At(n + k + 1)
<1> DEFINE q == n \div Frames
           c == a.cursor
<1>1. q \in Nat /\ c \in 1..Frames /\ n + 1 = c + Frames * q
  <2>1. 1 - 1 + n = n
    OBVIOUS
  <2>2. a.cursor = (n % Frames) + 1
    BY <2>1 DEF FrameAfter
  <2>3. q \in Nat /\ n = Frames * q + (n % Frames) /\ n % Frames \in Nat
    <3>1. n % Frames \in 0..Frames - 1
      BY Loops
    <3>2. n % Frames \in Nat
      BY <3>1, FramesType
    <3>3. QED
      BY <3>2, Loops
  <2>4. Frames * q \in Nat
    BY <2>3, FramesType
  <2>5. a.cursor \in 1..Frames
    BY DEF Animation
  <2>6. QED
    BY <2>2, <2>3, <2>4, <2>5
<1> HIDE DEF q
<1>2. n + 1 = c + Frames * q /\ n + k + 1 = (c + k) + Frames * q
  <2>1. Frames * q \in Nat /\ c \in Nat
    BY <1>1, FramesType
  <2>2. QED
    BY <1>1, <2>1
<1>3. At(n + 1) = At(c) + q * Period
  <2>1. c \in Nat
    BY <1>1, FramesType
  <2>2. QED
    BY <1>1, <1>2, <2>1, AtRepeats
<1>4. c + k \in Nat
  BY <1>1, FramesType
<1>5. At(n + k + 1) = At(c + k) + q * Period
  BY <1>1, <1>2, <1>4, AtRepeats
<1>6. At(c) \in Nat /\ At(c + k) \in Nat /\ q * Period \in Nat /\ a.start \in Nat
  <2>1. c \in Nat /\ a.start \in Nat
    BY <1>1, FramesType DEF Animation
  <2>2. q * Period \in Nat
    BY <1>1, ClipShape
  <2>3. QED
    BY <1>4, <2>1, <2>2, AtType
<1>7. DueAfter(a, k) = a.start + At(n + k + 1)
  <2>1. DueAfter(a, k) = a.start + At(n + 1) + At(c + k) - At(c)
    BY DEF DueAfter
  <2>2. QED
    BY <2>1, <1>3, <1>5, <1>6
<1>8. (c - 1 + k) % Frames = (n + k) % Frames
  <2>1. c - 1 + k \in Nat /\ n + k \in Nat
    BY <1>1, FramesType
  <2> DEFINE m == c - 1 + k
             p == m \div Frames
             r == m % Frames
  <2>2. p \in Nat /\ r \in 0..Frames - 1 /\ m = Frames * p + r
    BY <2>1, Loops
  <2>3. n + k = m + Frames * q
    <3>1. Frames * q \in Nat /\ c \in Nat
      BY <1>1, FramesType
    <3>2. QED
      BY <1>1, <3>1
  <2>4. n + k = Frames * (p + q) + r
    <3> HIDE DEF m, p, r
    <3>1. Frames * (p + q) = Frames * p + Frames * q
      BY <2>2, <1>1, FramesType
    <3>2. Frames * p \in Nat /\ Frames * q \in Nat
      BY <2>2, <1>1, FramesType
    <3>3. QED
      BY <2>2, <2>3, <3>1, <3>2, FramesType
  <2>5. (n + k) % Frames = r
    <3> HIDE DEF m, p, r
    <3>1. p + q \in Nat
      BY <2>2, <1>1
    <3>2. QED
      BY <2>1, <2>2, <2>4, <3>1, LoopsAreUnique
  <2>6. QED
    BY <2>5
<1>9. FrameAfter(1, n + k) = ((n + k) % Frames) + 1
  <2>1. 1 - 1 + (n + k) = n + k
    OBVIOUS
  <2>2. QED
    BY <2>1 DEF FrameAfter
<1>10. QED
  BY <1>7, <1>8, <1>9 DEF FrameAfter

\* A set of positions has a least one.
LEMMA LeastOf ==
    ASSUME NEW N \in Nat, NEW S, S \subseteq 1..N, S # {}
    PROVE  \E n \in S : \A m \in S : n <= m
<1> DEFINE T == {S \cap (1..n) : n \in S}
<1>1. IsWellFoundedOn(StrictSubsetOrdering(1..N), FiniteSubsetsOf(1..N))
  BY FS_StrictSubsetOrderingWellFounded
<1>2. T \subseteq FiniteSubsetsOf(1..N) /\ T # {}
  <2>1. IsFiniteSet(1..N)
    BY FS_Interval
  <2>2. \A n \in S : S \cap (1..n) \in FiniteSubsetsOf(1..N)
    <3> TAKE n \in S
    <3>1. S \cap (1..n) \in SUBSET (1..N)
      OBVIOUS
    <3>2. IsFiniteSet(S \cap (1..n))
      BY <2>1, <3>1, FS_Subset
    <3> QED BY <3>1, <3>2 DEF FiniteSubsetsOf
  <2> QED BY <2>2
<1> HIDE DEF T
<1>3. PICK x \in T : \A y \in T : ~(<<y, x>> \in StrictSubsetOrdering(1..N))
  BY <1>1, <1>2, WFMin
<1> USE DEF T
<1>4. PICK n \in S : x = S \cap (1..n)
  BY <1>3
<1>5. ASSUME NEW m \in S, m < n
      PROVE  FALSE
  <2>1. S \cap (1..m) \in T
    OBVIOUS
  <2>2. n \in x /\ n \notin S \cap (1..m) /\ S \cap (1..m) \subseteq x
    BY <1>4, <1>5
  <2>3. <<S \cap (1..m), x>> \in StrictSubsetOrdering(1..N)
    BY <1>2, <1>3, <2>1, <2>2 DEF StrictSubsetOrdering, FiniteSubsetsOf
  <2> QED BY <1>3, <2>1, <2>3
<1> QED BY <1>5

\* Among the numbers of frames a pass may skip is a first whose frame is still due later,
\* since a picture of the loop begins no earlier than its number.
LEMMA CatchesUp ==
    ASSUME NEW a \in Animation, NEW n \in Nat, clock \in 0..MaxTime,
           a.cursor = FrameAfter(1, n), a.due = a.start + At(n + 1)
    PROVE  \E b : Advanced(a) = {b}
<1> DEFINE S == {k \in 1..MaxTime + 1 : DueAfter(a, k) > clock}
<1>1. MaxTime \in Nat /\ clock \in Nat /\ clock <= MaxTime /\ a.start \in Nat
  BY DisplayAssumption DEF Animation
<1>2. \A k \in Nat : DueAfter(a, k) \in Nat /\ DueAfter(a, k) >= n + k + 1
  <2> TAKE k \in Nat
  <2>1. DueAfter(a, k) = a.start + At(n + k + 1)
    BY AdvanceKeepsTime
  <2>2. At(n + k + 1) \in Nat /\ At(n + k + 1) >= n + k + 1
    BY AtType
  <2> QED BY <1>1, <2>1, <2>2
<1>3. MaxTime + 1 \in S
  BY <1>1, <1>2
<1>4. PICK k \in S : \A m \in S : k <= m
  <2>1. MaxTime + 1 \in Nat /\ S \subseteq 1..(MaxTime + 1) /\ S # {}
    BY <1>1, <1>3
  <2> HIDE DEF S
  <2> QED BY <2>1, LeastOf
<1>5. k \in 1..MaxTime + 1 /\ DueAfter(a, k) > clock
  BY <1>4
<1>6. \A j \in 1..k - 1 : DueAfter(a, j) <= clock
  <2> SUFFICES ASSUME NEW j \in 1..k - 1 PROVE DueAfter(a, j) <= clock
    OBVIOUS
  <2>1. j \in 1..MaxTime + 1 /\ j \in Nat /\ j < k
    BY <1>1, <1>5
  <2>2. j \notin S
    BY <1>1, <1>4, <1>5, <2>1
  <2>3. DueAfter(a, j) \in Nat
    BY <1>2, <2>1
  <2> QED BY <1>1, <2>1, <2>2, <2>3
<1>7. ASSUME NEW m \in 1..MaxTime + 1, DueAfter(a, m) > clock,
             \A j \in 1..m - 1 : DueAfter(a, j) <= clock
      PROVE  m = k
  <2>1. m \in S
    BY <1>7
  <2>2. k <= m
    BY <1>4, <2>1
  <2>3. ~(k < m)
    <3> SUFFICES ASSUME k < m PROVE FALSE
      OBVIOUS
    <3>1. k \in 1..m - 1
      BY <1>1, <1>5
    <3>2. DueAfter(a, k) <= clock
      BY <1>7, <3>1
    <3>3. DueAfter(a, k) \in Nat
      BY <1>1, <1>2, <1>5
    <3> QED BY <1>1, <1>5, <3>2, <3>3
  <2> QED BY <1>1, <1>5, <2>2, <2>3
<1> HIDE DEF S
<1> DEFINE First == {x \in 1..MaxTime + 1 : /\ DueAfter(a, x) > clock
                                          /\ \A j \in 1..x - 1 : DueAfter(a, j) <= clock}
           On(x) == [a EXCEPT !.cursor = FrameAfter(a.cursor, x), !.due = DueAfter(a, x)]
<1>8. First = {k}
  BY <1>5, <1>6, <1>7
<1>9. Advanced(a) = {On(x) : x \in First}
  BY DEF Advanced
<1> HIDE DEF First, On
<1>10. Advanced(a) = {On(k)}
  BY <1>8, <1>9
<1> QED BY <1>10

\* A clip begins on its first picture (start_image).
LEMMA ClipBegins ==
    /\ At(0) = 0 /\ At(1) = Delay(1)
    /\ FrameAfter(1, 0) = 1
    /\ Delay(1) \in Nat
<1>1. 0 \div Frames = 0 /\ 0 % Frames = 0
  <2>1. 0 = Frames * 0 + 0 /\ 0 \in 0..Frames - 1
    BY FramesType
  <2>2. QED
    BY <2>1, LoopsAreUnique
<1>2. 1 \div Frames = 0 /\ 1 % Frames = 1
  <2>1. 1 = Frames * 0 + 1 /\ 1 \in 0..Frames - 1
    BY FramesType
  <2>2. QED
    BY <2>1, LoopsAreUnique
<1>3. Begin[1] = 0 /\ Begin[2] \in Nat
  BY ClipShape, FramesType
<1>4. At(0) = 0 * Period + Begin[0 + 1] /\ At(1) = 0 * Period + Begin[1 + 1]
  BY <1>1, <1>2 DEF At
<1>5. FrameAfter(1, 0) = 1
  BY <1>1 DEF FrameAfter
<1>6. QED
  <2>1. 0 * Period = 0 /\ 0 + 1 = 1 /\ 1 + 1 = 2
    BY ClipShape
  <2>2. At(0) = 0 /\ At(1) = Begin[2] /\ Delay(1) = Begin[2]
    BY <1>3, <1>4, <2>1 DEF Delay
  <2>3. QED
    BY <1>3, <1>5, <2>2

\* The pass after a wake is the first on the grid that lies ahead.
LEMMA NextPassIsAhead ==
    ASSUME clock \in Nat, OnGrid, clock >= next
    PROVE  /\ NextPass \in Nat /\ NextPass % Interval = 0
           /\ NextPass > clock /\ NextPass <= clock + Interval
<1> DEFINE p == next \div Interval
           q == (clock - next) \div Interval
           r == (clock - next) % Interval
<1>1. Interval \in Nat \ {0} /\ next \in Nat /\ next % Interval = 0
  BY DisplayAssumption DEF OnGrid
<1>2. p \in Nat /\ next = Interval * p
  BY <1>1
<1>3. q \in Nat /\ r \in 0..Interval - 1 /\ clock - next = Interval * q + r
  BY <1>1
<1>4. NextPass = next + (q + 1) * Interval
  BY DEF NextPass
<1> HIDE DEF p, q, r
<1>5. (q + 1) * Interval = Interval * q + Interval /\ Interval * q \in Nat
  BY <1>1, <1>3
<1>6. NextPass \in Nat /\ NextPass > clock /\ NextPass <= clock + Interval
  BY <1>1, <1>3, <1>4, <1>5
<1>7. NextPass = Interval * (p + q + 1) /\ p + q + 1 \in Nat
  BY <1>1, <1>2, <1>3, <1>4, <1>5
<1>8. (Interval * (p + q + 1)) % Interval = 0
  <2>1. ASSUME NEW m \in Nat PROVE (Interval * m) % Interval = 0
    BY <1>1
  <2>2. QED
    BY <2>1, <1>7
<1>9. QED
  BY <1>6, <1>7, <1>8

-----------------------------------------------------------------------------
(* What handing the link a picture does.                                   *)

\* A transfer leaves the executor and the panel such that what is on record is on
\* the glass, and touches neither the preset, the fault nor the animation.
Transferred(e, r) ==
    /\ r \in Outcome
    /\ Shown(r.executor, r.panel)
    /\ r.executor.active = e.active
    /\ r.executor.animation = e.animation
    /\ r.executor.faulted = e.faulted

\* The record of the picture dropped, the rest as it was (uncertain).
LEMMA UncertainType ==
    ASSUME NEW e \in Executor
    PROVE  /\ Uncertain(e) \in Executor
           /\ Uncertain(e).committed = None
           /\ Uncertain(e).active = e.active
           /\ Uncertain(e).animation = e.animation
           /\ Uncertain(e).faulted = e.faulted
  BY DEF Uncertain, Executor

\* send_bytes from the deduplication on: equal to the record, transferred, or failed.
LEMMA TransferHolds ==
    ASSUME NEW e \in Executor, NEW g \in Panel, Shown(e, g),
           NEW preset \in Preset, NEW picture \in Picture, NEW wrote \in BOOLEAN,
           NEW r \in Transfers(e, g, preset, picture, wrote)
    PROVE  Transferred(e, r)
<1>1. CASE r = Result(e, g, "confirmed", wrote)
  BY <1>1 DEF Transferred, Result, Outcome, Hardware
<1>2. CASE r = Result([e EXCEPT !.committed = [preset |-> preset, picture |-> picture]],
                      [g EXCEPT !.picture = picture], "confirmed", TRUE)
  <2> DEFINE x == [e EXCEPT !.committed = [preset |-> preset, picture |-> picture]]
             h == [g EXCEPT !.picture = picture]
  <2>1. /\ x \in Executor /\ x.committed.picture = picture
        /\ x.active = e.active /\ x.animation = e.animation /\ x.faulted = e.faulted
    BY DEF Executor
  <2>2. h \in Panel /\ h.picture = picture
    BY DEF Panel
  <2> HIDE DEF x, h
  <2>3. r = [executor |-> x, panel |-> h, hardware |-> "confirmed", tried |-> TRUE]
    BY <1>2 DEF Result, x, h
  <2>4. Shown(x, h)
    BY <2>1, <2>2 DEF Shown
  <2>5. QED
    BY <2>1, <2>2, <2>3, <2>4 DEF Transferred, Outcome, Hardware
<1>3. ASSUME NEW p \in {g.picture, Torn},
             r = Result(Uncertain(e), [g EXCEPT !.picture = p], "uncertain", TRUE)
      PROVE  Transferred(e, r)
  <2> DEFINE h == [g EXCEPT !.picture = p]
  <2>1. h \in Panel
    BY DEF Panel
  <2> HIDE DEF h
  <2>2. r = [executor |-> Uncertain(e), panel |-> h, hardware |-> "uncertain", tried |-> TRUE]
    BY <1>3 DEF Result, h
  <2>3. Shown(Uncertain(e), h)
    BY UncertainType DEF Shown
  <2>4. QED
    BY <2>1, <2>2, <2>3, UncertainType DEF Transferred, Outcome, Hardware
<1>4. \/ r = Result(e, g, "confirmed", wrote)
      \/ r = Result([e EXCEPT !.committed = [preset |-> preset, picture |-> picture]],
                    [g EXCEPT !.picture = picture], "confirmed", TRUE)
      \/ \E p \in {g.picture, Torn} :
           r = Result(Uncertain(e), [g EXCEPT !.picture = p], "uncertain", TRUE)
  BY DEF Transfers
<1>5. QED
  BY <1>1, <1>2, <1>3, <1>4

\* The whole of send_bytes, with the brightness ahead of the picture.
LEMMA SendHolds ==
    ASSUME NEW e \in Executor, NEW g \in Panel, Shown(e, g),
           NEW preset \in Preset, NEW picture \in Picture,
           NEW r \in SendBytes(e, g, preset, picture)
    PROVE  Transferred(e, r)
<1> DEFINE level == preset.brightness
           x == [e EXCEPT !.brightness = level]
           h == [g EXCEPT !.brightness = level]
<1>1. level \in Brightness
  BY DEF Preset
<1>2. /\ x \in Executor /\ x.committed = e.committed
      /\ x.active = e.active /\ x.animation = e.animation /\ x.faulted = e.faulted
  BY <1>1 DEF Executor
<1>3. h \in Panel /\ h.picture = g.picture
  BY <1>1 DEF Panel
<1>4. CASE r = Result(e, g, "not_applied", FALSE)
  BY <1>4 DEF Transferred, Result, Outcome, Hardware
<1>5. CASE r \in Transfers(e, g, preset, picture, FALSE)
  BY <1>5, TransferHolds
<1>6. CASE r \in Transfers(x, h, preset, picture, TRUE)
  <2> HIDE DEF x, h
  <2>1. Shown(x, h)
    BY <1>2, <1>3 DEF Shown
  <2>2. Transferred(x, r)
    BY <1>2, <1>3, <1>6, <2>1, TransferHolds
  <2>3. QED
    BY <1>2, <2>2 DEF Transferred
<1>7. ASSUME NEW b \in {g.brightness, level},
             r = Result(Uncertain(e), [g EXCEPT !.brightness = b], "uncertain", TRUE)
      PROVE  Transferred(e, r)
  <2> DEFINE k == [g EXCEPT !.brightness = b]
  <2>1. k \in Panel
    BY <1>1 DEF Panel
  <2> HIDE DEF k, level, x, h
  <2>2. r = [executor |-> Uncertain(e), panel |-> k, hardware |-> "uncertain", tried |-> TRUE]
    BY <1>7 DEF Result, k
  <2>3. Shown(Uncertain(e), k)
    BY UncertainType DEF Shown
  <2>4. QED
    BY <2>1, <2>2, <2>3, UncertainType DEF Transferred, Outcome, Hardware
<1>8. \/ r = Result(e, g, "not_applied", FALSE)
      \/ r \in Transfers(e, g, preset, picture, FALSE)
      \/ r \in Transfers(x, h, preset, picture, TRUE)
      \/ \E b \in {g.brightness, level} :
           r = Result(Uncertain(e), [g EXCEPT !.brightness = b], "uncertain", TRUE)
  <2> HIDE DEF x, h
  <2>1. CASE link = 0
    BY <2>1 DEF SendBytes
  <2>2. CASE link # 0 /\ e.brightness = level
    BY <2>2 DEF SendBytes
  <2>3. CASE link # 0 /\ e.brightness # level
    BY <2>3 DEF SendBytes, x, h
  <2>4. QED
    BY <2>1, <2>2, <2>3
<1>9. QED
  BY <1>4, <1>5, <1>6, <1>7, <1>8

\* What a preset draws first is a picture.
LEMMA RenderType ==
    ASSUME NEW preset \in Preset, reading \in Reading
    PROVE  Render(preset) \in Picture
<1>1. 0 \in 0..Frames /\ 1 \in 0..Frames
  BY FramesType
<1>2. QED
  BY <1>1 DEF Render, Preset, Picture

-----------------------------------------------------------------------------
(* What a wake of the ticker does.                                         *)

\* A result inside a wake: what holds between actions holds of it too, a refusal has
\* stopped the stream, and a stream that was stopped was handed nothing.
InWake(r) ==
    /\ r \in Outcome
    /\ Sound(r.executor, r.panel)
    /\ r.hardware = "uncertain" => r.executor.faulted
    /\ executor.faulted => r.executor.faulted /\ ~r.tried
    /\ executor.animation # None /\ Streaming(executor) =>
         clock < r.executor.animation.due
    /\ executor.animation = None => r.executor.animation = None

\* A failed transfer stops the stream and changes nothing else (Faulted).
LEMMA FaultedHolds ==
    ASSUME NEW r \in Outcome
    PROVE  /\ Faulted(r) \in Outcome
           /\ Faulted(r).executor.active = r.executor.active
           /\ Faulted(r).executor.committed = r.executor.committed
           /\ Faulted(r).executor.animation = r.executor.animation
           /\ Faulted(r).panel = r.panel /\ Faulted(r).hardware = r.hardware
           /\ Faulted(r).tried = r.tried
           /\ r.hardware = "uncertain" => Faulted(r).executor.faulted
<1>1. CASE r.hardware = "uncertain"
  <2> DEFINE x == [r.executor EXCEPT !.faulted = TRUE]
  <2>1. r.executor \in Executor
    BY DEF Outcome
  <2>2. /\ x \in Executor /\ x.active = r.executor.active
        /\ x.committed = r.executor.committed /\ x.animation = r.executor.animation
        /\ x.faulted = TRUE
    BY <2>1 DEF Executor
  <2> HIDE DEF x
  <2>3. Faulted(r) = [executor |-> x, panel |-> r.panel,
                      hardware |-> r.hardware, tried |-> r.tried]
    BY <1>1 DEF Faulted, Outcome, x
  <2>4. Faulted(r) \in Outcome /\ Faulted(r).executor = x
    BY <2>2, <2>3 DEF Outcome
  <2>5. QED
    BY <2>2, <2>3, <2>4
<1>2. CASE r.hardware # "uncertain"
  BY <1>2 DEF Faulted
<1>3. QED
  BY <1>1, <1>2

\* The animation after a wake that found a frame due: on the picture whose time it
\* is (advance_animation's loop).
LEMMA AdvancedIsOnTime ==
    ASSUME IInv, executor.animation # None, clock >= executor.animation.due,
           NEW a \in Advanced(executor.animation)
    PROVE  /\ a \in Animation /\ a.cursor \in 0..Frames
           /\ clock < a.due
           /\ \E n \in 0..MaxTime : Plays(a, n)
<1> DEFINE o == executor.animation
<1>1. o \in Animation
  BY DEF IInv, Executor
<1>2. PICK n \in 0..MaxTime : Plays(o, n)
  BY DEF IInv, Sound, OnTime
<1>3. PICK k \in 1..MaxTime + 1 :
        /\ DueAfter(o, k) > clock
        /\ \A j \in 1..k - 1 : DueAfter(o, j) <= clock
        /\ a = [o EXCEPT !.cursor = FrameAfter(o.cursor, k), !.due = DueAfter(o, k)]
  BY DEF Advanced
<1>4. n \in Nat /\ k \in Nat /\ k >= 1 /\ MaxTime \in Nat /\ clock \in 0..MaxTime
  BY DisplayAssumption DEF IInv, WorldType
<1>5. o.cursor = FrameAfter(1, n) /\ o.due = o.start + At(n + 1)
  BY <1>2 DEF Plays
<1>6. /\ FrameAfter(o.cursor, k) = FrameAfter(1, n + k)
      /\ DueAfter(o, k) = o.start + At(n + k + 1)
  BY <1>1, <1>4, <1>5, AdvanceKeepsTime
<1>7. o.start + At(n + k) <= clock
  <2>1. CASE k = 1
    BY <2>1, <1>5
  <2>2. CASE k > 1
    <3>1. k - 1 \in Nat /\ k - 1 \in 1..k - 1 /\ n + (k - 1) + 1 = n + k
      BY <1>4, <2>2
    <3>2. DueAfter(o, k - 1) = o.start + At(n + (k - 1) + 1)
      BY <1>1, <1>4, <1>5, <3>1, AdvanceKeepsTime
    <3>3. QED
      BY <1>3, <3>1, <3>2
  <2>3. QED
    BY <1>4, <2>1, <2>2
<1>8. FrameAfter(1, n + k) \in 1..Frames
  <2>1. 1 - 1 + (n + k) = n + k /\ n + k \in Nat
    BY <1>4
  <2>2. (n + k) % Frames \in 0..Frames - 1
    BY <2>1, Loops
  <2>3. QED
    BY <2>1, <2>2, FramesType DEF FrameAfter
<1>9. At(n + k) \in Nat /\ At(n + k) >= n + k /\ At(n + k + 1) \in Nat /\ o.start \in Nat
  <2>1. n + k \in Nat /\ n + k + 1 \in Nat
    BY <1>4
  <2>2. QED
    BY <1>1, <2>1, AtType DEF Animation
<1>10. n + k \in 0..MaxTime
  BY <1>4, <1>7, <1>9
<1>11. a = [cursor |-> FrameAfter(1, n + k), due |-> o.start + At(n + k + 1), start |-> o.start]
  BY <1>1, <1>3, <1>6 DEF Animation
<1>12. a \in Animation /\ a.cursor \in 0..Frames
  BY <1>8, <1>9, <1>11, FramesType DEF Animation
<1>13. Plays(a, n + k)
  BY <1>7, <1>11 DEF Plays
<1>14. clock < a.due
  BY <1>3, <1>6, <1>11, <1>4, <1>9
<1>15. QED
  BY <1>10, <1>12, <1>13, <1>14

\* advance_animation: nothing to do, or the due picture handed to the link.
LEMMA AnimateHolds ==
    ASSUME IInv, NEW r \in Animate(executor)
    PROVE  InWake(r)
<1> DEFINE o == executor.animation
<1>1. executor \in Executor /\ panel \in Panel /\ Sound(executor, panel)
  BY DEF IInv
<1>2. executor.faulted \in BOOLEAN
  BY <1>1 DEF Executor
<1>3. CASE ~Streaming(executor) \/ o = None \/ clock < o.due
  <2>1. r = [executor |-> executor, panel |-> panel, hardware |-> "none", tried |-> FALSE]
    BY <1>3 DEF Animate, Result
  <2>2. QED
    BY <1>1, <1>3, <2>1 DEF InWake, Outcome, Hardware
<1>4. CASE Streaming(executor) /\ o # None /\ ~(clock < o.due)
  <2>1. PICK a \in Advanced(o) :
          \E s \in SendBytes([executor EXCEPT !.animation = a], panel, executor.active,
                             [kind |-> "clip", n |-> a.cursor]) : r = Faulted(s)
    BY <1>4 DEF Animate
  <2> DEFINE x == [executor EXCEPT !.animation = a]
             picture == [kind |-> "clip", n |-> a.cursor]
  <2>2. PICK s \in SendBytes(x, panel, executor.active, picture) : r = Faulted(s)
    BY <2>1
  <2>3. clock >= o.due
    BY <1>1, <1>4 DEF Executor, Animation, IInv, WorldType
  <2>4. /\ a \in Animation /\ a.cursor \in 0..Frames /\ clock < a.due
        /\ \E n \in 0..MaxTime : Plays(a, n)
    BY <1>4, <2>3, AdvancedIsOnTime
  <2>5. /\ x \in Executor /\ x.animation = a /\ x.committed = executor.committed
        /\ x.active = executor.active /\ x.faulted = executor.faulted
    BY <1>1, <2>4 DEF Executor
  <2>6. executor.active \in Preset /\ executor.active.kind = "clip"
    BY <1>1, <1>4 DEF Sound, PlaysItsClip
  <2>7. picture \in Picture
    BY <2>4, <2>6 DEF Picture, Preset
  <2> HIDE DEF x, picture
  <2>8. Shown(x, panel)
    BY <1>1, <2>5 DEF Sound, Shown
  <2>9. Transferred(x, s)
    BY <1>1, <2>2, <2>5, <2>6, <2>7, <2>8, SendHolds
  <2>10. ~executor.faulted /\ ~x.faulted
    BY <1>4, <2>5 DEF Streaming
  <2>11. /\ r \in Outcome
         /\ r.executor.active = executor.active /\ r.executor.animation = a
         /\ r.executor.committed = s.executor.committed /\ r.panel = s.panel
         /\ r.hardware = "uncertain" => r.executor.faulted
    BY <2>2, <2>5, <2>9, FaultedHolds DEF Transferred
  <2>12. Shown(r.executor, r.panel)
    BY <2>9, <2>11 DEF Transferred, Shown
  <2>13. PlaysItsClip(r.executor) /\ OnTime(r.executor)
    BY <2>4, <2>6, <2>11 DEF PlaysItsClip, OnTime
  <2>14. QED
    BY <1>4, <2>4, <2>10, <2>11, <2>12, <2>13 DEF InWake, Sound
<1>5. QED
  BY <1>3, <1>4

\* tick's refresh, after what the animation did in this wake.
LEMMA RefreshHolds ==
    ASSUME IInv, NEW r, InWake(r), NEW x \in Refresh(r)
    PROVE  InWake(x) /\ (r.executor.faulted => x.executor.faulted)
<1>1. r \in Outcome /\ r.executor \in Executor /\ r.panel \in Panel /\ r.tried \in BOOLEAN
  BY DEF InWake, Outcome
<1>2. CASE x = r
  BY <1>2
<1>3. CASE /\ Streaming(r.executor) /\ r.executor.animation = None
           /\ \E s \in SendBytes(r.executor, r.panel, r.executor.active,
                                 Render(r.executor.active)) :
                x = Faulted([s EXCEPT !.tried = @ \/ r.tried])
  <2> DEFINE preset == r.executor.active
  <2>1. PICK s \in SendBytes(r.executor, r.panel, preset, Render(preset)) :
               x = Faulted([s EXCEPT !.tried = @ \/ r.tried])
    BY <1>3
  <2>2. ~r.executor.faulted /\ preset # None
    BY <1>3 DEF Streaming
  <2>3. preset \in Preset
    BY <1>1, <2>2 DEF Executor
  <2>4. Render(preset) \in Picture
    BY <2>3, RenderType DEF IInv, WorldType
  <2>5. Shown(r.executor, r.panel)
    BY DEF InWake, Sound
  <2>6. Transferred(r.executor, s)
    BY <1>1, <2>1, <2>3, <2>4, <2>5, SendHolds
  <2> DEFINE y == [s EXCEPT !.tried = @ \/ r.tried]
  <2>7. /\ y \in Outcome /\ y.executor = s.executor
        /\ y.panel = s.panel /\ y.hardware = s.hardware
    BY <1>1, <2>6 DEF Transferred, Outcome
  <2> HIDE DEF y
  <2>8. /\ x \in Outcome
        /\ x.executor.active = r.executor.active
        /\ x.executor.animation = r.executor.animation
        /\ x.executor.committed = s.executor.committed /\ x.panel = s.panel
        /\ x.hardware = "uncertain" => x.executor.faulted
    <3>1. x = Faulted(y)
      BY <2>1 DEF y
    <3>2. /\ s.executor.active = r.executor.active
          /\ s.executor.animation = r.executor.animation
      BY <2>6 DEF Transferred
    <3>3. /\ x \in Outcome /\ x.panel = y.panel /\ x.hardware = y.hardware
          /\ x.executor.active = y.executor.active
          /\ x.executor.committed = y.executor.committed
          /\ x.executor.animation = y.executor.animation
          /\ y.hardware = "uncertain" => x.executor.faulted
      BY <2>7, <3>1, FaultedHolds
    <3>4. QED
      BY <2>7, <3>2, <3>3
  <2>9. Shown(x.executor, x.panel)
    BY <2>6, <2>8 DEF Transferred, Shown
  <2>10. PlaysItsClip(x.executor) /\ OnTime(x.executor)
    BY <1>3, <2>8 DEF PlaysItsClip, OnTime
  <2>11. QED
    BY <2>2, <2>8, <2>9, <2>10 DEF InWake, Sound
<1>4. QED
  BY <1>2, <1>3 DEF Refresh

\* What forget leaves of a result: nothing on record, and no fault.
LEMMA ForgetHolds ==
    ASSUME IInv, NEW r, InWake(r)
    PROVE  LET x == [r EXCEPT !.executor = Forget(@)]
           IN  /\ x \in Outcome /\ Sound(x.executor, x.panel)
               /\ x.tried = r.tried /\ x.hardware = r.hardware
               /\ x.executor.animation = r.executor.animation
<1> DEFINE e == Forget(r.executor)
           x == [r EXCEPT !.executor = Forget(@)]
<1>1. r \in Outcome /\ r.executor \in Executor
  BY DEF InWake, Outcome
<1>2. ASSUME NEW y \in Executor
      PROVE  /\ Forget(y) \in Executor /\ Forget(y).committed = None
             /\ Forget(y).active = y.active /\ Forget(y).animation = y.animation
  <2> DEFINE a == [y EXCEPT !.committed = None]
             b == [a EXCEPT !.brightness = None]
             c == [b EXCEPT !.faulted = FALSE]
  <2>1. /\ a \in Executor /\ a.committed = None
        /\ a.active = y.active /\ a.animation = y.animation
    BY DEF Executor
  <2>2. Forget(y) = c
    BY DEF Forget
  <2> HIDE DEF a
  <2>3. /\ b \in Executor /\ b.committed = None
        /\ b.active = y.active /\ b.animation = y.animation
    BY <2>1 DEF Executor
  <2> HIDE DEF b
  <2>4. /\ c \in Executor /\ c.committed = None
        /\ c.active = y.active /\ c.animation = y.animation
    BY <2>3 DEF Executor
  <2>5. QED
    BY <2>2, <2>4
<1>3. /\ e \in Executor /\ e.committed = None /\ e.active = r.executor.active
      /\ e.animation = r.executor.animation
  BY <1>1, <1>2
<1> HIDE DEF e
<1>4. x = [executor |-> e, panel |-> r.panel, hardware |-> r.hardware, tried |-> r.tried]
  BY <1>1 DEF Outcome, e
<1> HIDE DEF x
<1>5. x \in Outcome /\ x.executor = e /\ x.tried = r.tried /\ x.hardware = r.hardware
  BY <1>1, <1>3, <1>4 DEF Outcome
<1>6. Shown(x.executor, x.panel)
  BY <1>3, <1>5 DEF Shown
<1>7. PlaysItsClip(x.executor) /\ OnTime(x.executor)
  BY <1>3, <1>5 DEF InWake, Sound, PlaysItsClip, OnTime
<1>8. QED
  BY <1>3, <1>5, <1>6, <1>7 DEF Sound, x

-----------------------------------------------------------------------------
(* The invariant is inductive: one lemma per action.                       *)

LEMMA InitHolds == Init => IInv
<1> SUFFICES ASSUME Init PROVE IInv
  OBVIOUS
<1>1. executor \in Executor /\ executor.committed = None /\ executor.animation = None
  BY DEF Init, NoExecutor, Executor
<1>2. panel \in Panel
  BY DEF Init, Panel
<1>3. WorldType
  <2>1. 1 \in 1..MaxPlugs /\ 0 \in 0..MaxTime /\ {0, 1} \subseteq 0..1
    BY DisplayAssumption
  <2>2. /\ plugs = 1 /\ link \in 0..1 /\ clock = 0 /\ reading \in Reading
        /\ plugged = TRUE /\ present = TRUE /\ tried = FALSE /\ refused = FALSE
    BY <2>1 DEF Init
  <2>3. QED
    BY <2>1, <2>2 DEF WorldType
<1>4. OnGrid
  BY DisplayAssumption DEF Init, OnGrid
<1>5. Sound(executor, panel)
  BY <1>1 DEF Sound, Shown, PlaysItsClip, OnTime
<1>6. QED
  BY <1>1, <1>2, <1>3, <1>4, <1>5 DEF Init, IInv

\* A step that moves neither the clock nor the connection keeps what was found sound.
LEMMA SoundStays ==
    ASSUME NEW e, NEW g, Sound(e, g), executor' = e, panel' = g,
           UNCHANGED <<link, device, clock>>
    PROVE  Sound(executor, panel)'
<1>1. Shown(executor, panel)'
  BY DEF Sound, Shown, Live, device
<1>2. PlaysItsClip(executor)'
  BY DEF Sound, PlaysItsClip
<1>3. OnTime(executor)'
  BY DEF Sound, OnTime, Plays
<1>4. QED
  BY <1>1, <1>2, <1>3 DEF Sound

\* A wake keeps the invariant; it hands the link nothing once a transfer was refused,
\* and leaves a stream it found running on a picture that is due to change later.
LEMMA WakeHolds ==
    ASSUME IInv, Wake
    PROVE  /\ IInv'
           /\ refused => ~tried'
           /\ Streaming(executor) /\ executor'.animation # None =>
                clock < executor'.animation.due
<1>1. PICK first \in Animate(executor) :
        \E last \in (IF clock >= next THEN Tick(first) ELSE {first}) :
          /\ executor' = last.executor
          /\ panel' = last.panel
          /\ tried' = last.tried
          /\ refused' = /\ ~Misses
                        /\ refused \/ "uncertain" \in {first.hardware, last.hardware}
  BY DEF Wake
<1>2. PICK last \in (IF clock >= next THEN Tick(first) ELSE {first}) :
        /\ executor' = last.executor
        /\ panel' = last.panel
        /\ tried' = last.tried
        /\ refused' = /\ ~Misses
                      /\ refused \/ "uncertain" \in {first.hardware, last.hardware}
  BY <1>1
<1>3. InWake(first)
  BY AnimateHolds
<1>4. /\ last \in Outcome /\ Sound(last.executor, last.panel)
      /\ executor.faulted => ~last.tried
      /\ executor.animation # None /\ Streaming(executor) =>
           clock < last.executor.animation.due
      /\ executor.animation = None => last.executor.animation = None
      /\ ~Misses => /\ executor.faulted => last.executor.faulted
                    /\ "uncertain" \in {first.hardware, last.hardware} => last.executor.faulted
  <2>1. CASE clock < next \/ (clock >= next /\ present)
    <3>1. last = first \/ last \in Refresh(first)
      BY <1>2, <2>1 DEF Tick, IInv, WorldType, OnGrid
    <3>2. InWake(last) /\ (first.executor.faulted => last.executor.faulted)
      BY <1>3, <3>1, RefreshHolds
    <3>3. QED
      BY <1>3, <3>2 DEF InWake
  <2>2. CASE clock >= next /\ ~present
    <3>1. last = [first EXCEPT !.executor = Forget(@)]
      BY <1>2, <2>2 DEF Tick
    <3>2. /\ last \in Outcome /\ Sound(last.executor, last.panel)
          /\ last.tried = first.tried
          /\ last.executor.animation = first.executor.animation
      BY <1>3, <3>1, ForgetHolds
    <3>3. QED
      BY <1>3, <2>2, <3>2 DEF InWake, Misses
  <2>3. QED
    BY <2>1, <2>2 DEF IInv, WorldType, OnGrid
<1>5. UNCHANGED <<link, device, sample, clock>> /\ next' = IF clock >= next THEN NextPass ELSE next
  BY DEF Wake
<1>6. Sound(executor, panel)'
  BY <1>2, <1>4, <1>5, SoundStays
<1>7. executor' \in Executor /\ panel' \in Panel /\ tried' \in BOOLEAN
  BY <1>2, <1>4 DEF Outcome
<1>8. refused' \in BOOLEAN
  BY <1>2
<1>9. WorldType'
  BY <1>5, <1>7, <1>8 DEF IInv, WorldType, device, sample
<1>10. OnGrid'
  <2>1. clock \in Nat
    BY DEF IInv, WorldType
  <2>2. CASE clock >= next
    BY <1>5, <2>1, <2>2, NextPassIsAhead DEF IInv, OnGrid
  <2>3. CASE ~(clock >= next)
    BY <1>5, <2>3 DEF IInv, OnGrid
  <2>4. QED
    BY <2>2, <2>3
<1>11. refused' => executor'.faulted
  BY <1>2, <1>4 DEF IInv
<1>12. IInv'
  BY <1>6, <1>7, <1>9, <1>10, <1>11 DEF IInv
<1>13. refused => ~tried'
  BY <1>2, <1>4 DEF IInv
<1>14. Streaming(executor) /\ executor'.animation # None => clock < executor'.animation.due
  BY <1>2, <1>4
<1>15. QED
  BY <1>12, <1>13, <1>14

\* A preset is applied: the old fault is forgiven, the old animation is gone.
LEMMA ApplyHolds ==
    ASSUME IInv, NEW preset \in Preset, Apply(preset)
    PROVE  IInv'
<1> DEFINE x == [executor EXCEPT !.faulted = FALSE]
           film == IF preset.kind = "clip" /\ link # 0 THEN Started ELSE None
<1>1. executor \in Executor /\ panel \in Panel /\ Sound(executor, panel) /\ clock \in 0..MaxTime
  BY DEF IInv, WorldType
<1>2. x \in Executor /\ x.committed = executor.committed
  BY <1>1 DEF Executor
<1>3. Shown(x, panel)
  BY <1>1, <1>2 DEF Sound, Shown
<1>4. Render(preset) \in Picture
  BY RenderType DEF IInv, WorldType
<1>5. PICK r \in SendBytes(x, panel, preset, Render(preset)) :
        /\ executor' = [r.executor EXCEPT !.active = preset, !.animation = film]
        /\ panel' = r.panel
        /\ tried' = r.tried
  BY DEF Apply
<1>6. Transferred(x, r)
  <2> HIDE DEF x
  <2>1. QED
    BY <1>1, <1>2, <1>3, <1>4, <1>5, SendHolds
<1>7. refused' = FALSE /\ UNCHANGED <<link, device, sample, clock, next>>
  BY DEF Apply
<1>8. /\ Started \in Animation
      /\ Plays(Started, 0)
  <2>1. 1 \in 1..Frames /\ clock \in Nat
    BY <1>1, FramesType
  <2>2. Started \in Animation
    BY <2>1, ClipBegins DEF Started, Animation
  <2>3. 0 + 1 = 1
    OBVIOUS
  <2>4. Plays(Started, 0)
    BY <2>1, <2>3, ClipBegins DEF Started, Plays
  <2>5. QED
    BY <2>2, <2>4
<1>9. film \in Animation \cup {None} /\ (film # None => preset.kind = "clip" /\ Plays(film, 0))
  BY <1>8
<1> HIDE DEF x, film
<1>10. /\ executor' \in Executor /\ executor'.active = preset
       /\ executor'.committed = r.executor.committed /\ executor'.animation = film
  <2> DEFINE y == [r.executor EXCEPT !.active = preset]
  <2>1. y \in Executor /\ y.active = preset /\ y.committed = r.executor.committed
    BY <1>6 DEF Transferred, Outcome, Executor
  <2>2. executor' = [y EXCEPT !.animation = film]
    BY <1>5
  <2> HIDE DEF y
  <2>3. QED
    BY <1>9, <2>1, <2>2 DEF Executor
<1>11. panel' \in Panel /\ tried' \in BOOLEAN
  BY <1>5, <1>6 DEF Transferred, Outcome
<1>12. Sound(executor', panel')
  <2>1. Shown(executor', panel')
    BY <1>5, <1>6, <1>10 DEF Transferred, Shown
  <2>2. PlaysItsClip(executor')
    BY <1>9, <1>10 DEF PlaysItsClip
  <2>3. 0 \in 0..MaxTime
    BY DisplayAssumption
  <2>4. OnTime(executor')
    BY <1>9, <1>10, <2>3 DEF OnTime
  <2>5. QED
    BY <2>1, <2>2, <2>4 DEF Sound
<1>13. Sound(executor, panel)'
  BY <1>7, <1>12, SoundStays
<1>14. WorldType' /\ OnGrid'
  BY <1>7, <1>11 DEF IInv, WorldType, OnGrid, device, sample
<1>15. QED
  BY <1>7, <1>10, <1>11, <1>13, <1>14 DEF IInv

\* A file that does not decode.
LEMMA ApplyBrokenHolds ==
    ASSUME IInv, NEW preset \in Preset, ApplyBroken(preset)
    PROVE  IInv'
<1> DEFINE x == [executor EXCEPT !.faulted = FALSE]
<1>1. executor \in Executor /\ panel \in Panel /\ Sound(executor, panel)
  BY DEF IInv
<1>2. x \in Executor /\ x.committed = executor.committed
  BY <1>1 DEF Executor
<1>3. executor' = [x EXCEPT !.animation = None]
  BY DEF ApplyBroken
<1> HIDE DEF x
<1>4. /\ executor' \in Executor /\ executor'.committed = executor.committed
      /\ executor'.animation = None
  BY <1>2, <1>3 DEF Executor
<1>5. /\ tried' = FALSE /\ refused' = FALSE /\ panel' = panel
      /\ UNCHANGED <<link, device, sample, clock, next>>
  BY DEF ApplyBroken
<1>6. Sound(executor', panel')
  BY <1>1, <1>4, <1>5 DEF Sound, Shown, PlaysItsClip, OnTime
<1>7. Sound(executor, panel)'
  BY <1>5, <1>6, SoundStays
<1>8. WorldType' /\ OnGrid'
  BY <1>5 DEF IInv, WorldType, OnGrid, device, sample
<1>9. QED
  BY <1>1, <1>4, <1>5, <1>7, <1>8 DEF IInv

\* Time passes; what began in the past stays there.
LEMMA ElapseHolds ==
    ASSUME IInv, Elapse
    PROVE  IInv'
<1>1. /\ clock < MaxTime /\ clock' = clock + 1 /\ tried' = FALSE
      /\ UNCHANGED <<executor, link, device, panel, sample, next, refused>>
  BY DEF Elapse
<1>2. clock \in Nat /\ clock' \in 0..MaxTime
  BY <1>1, DisplayAssumption DEF IInv, WorldType
<1>3. OnTime(executor)'
  <2>1. ASSUME executor.animation # None, NEW n \in 0..MaxTime, Plays(executor.animation, n)
        PROVE  executor'.animation.start + At(n) <= clock'
    <3>1. executor.animation.start \in Nat /\ At(n) \in Nat
      BY <2>1, AtType DEF IInv, Executor, Animation
    <3>2. QED
      BY <1>1, <1>2, <2>1, <3>1 DEF Plays
  <2>2. QED
    BY <1>1, <2>1 DEF IInv, Sound, OnTime, Plays
<1>4. Sound(executor, panel)'
  BY <1>1, <1>3 DEF IInv, Sound, Shown, Live, PlaysItsClip, device
<1>5. WorldType'
  BY <1>1, <1>2 DEF IInv, WorldType, device, sample
<1>6. OnGrid'
  BY <1>1, <1>2, DisplayAssumption DEF IInv, OnGrid
<1>7. QED
  BY <1>1, <1>4, <1>5, <1>6 DEF IInv

\* The collector, and the device coming and going.
LEMMA WorldHolds ==
    ASSUME IInv, Collect \/ Unplug \/ Plug
    PROVE  IInv'
<1>1. CASE Collect
  <2>1. Sound(executor, panel)'
    BY <1>1, SoundStays DEF IInv, Collect
  <2>2. WorldType' /\ OnGrid'
    BY <1>1 DEF IInv, WorldType, OnGrid, Collect, device
  <2>3. QED
    BY <1>1, <2>1, <2>2 DEF IInv, Collect
<1>2. CASE Unplug
  <2>1. /\ plugged' = FALSE /\ tried' = FALSE
        /\ UNCHANGED <<executor, link, plugs, panel, sample, clock, next, refused>>
    BY <1>2 DEF Unplug
  <2>2. Sound(executor, panel)'
    BY <2>1 DEF IInv, Sound, Shown, Live, PlaysItsClip, OnTime, Plays
  <2>3. WorldType' /\ OnGrid'
    BY <2>1 DEF IInv, WorldType, OnGrid, sample
  <2>4. QED
    BY <2>1, <2>2, <2>3 DEF IInv
<1>3. CASE Plug
  <2>1. /\ plugs < MaxPlugs /\ plugged' = TRUE /\ plugs' = plugs + 1
        /\ panel' \in [picture : {Firmware}, brightness : Brightness]
        /\ tried' = FALSE /\ refused' = FALSE
        /\ UNCHANGED <<executor, link, sample, clock, next>>
    BY <1>3 DEF Plug
  <2>2. panel' \in Panel
    BY <2>1 DEF Panel
  <2>3. plugs' \in 1..MaxPlugs /\ link' \in 0..plugs' /\ link' # plugs'
    BY <2>1, DisplayAssumption DEF IInv, WorldType
  <2>4. Sound(executor, panel)'
    BY <2>1, <2>3 DEF IInv, Sound, Shown, Live, PlaysItsClip, OnTime, Plays
  <2>5. WorldType' /\ OnGrid'
    BY <2>1, <2>3 DEF IInv, WorldType, OnGrid, sample
  <2>6. QED
    BY <2>1, <2>2, <2>4, <2>5 DEF IInv
<1>4. QED
  BY <1>1, <1>2, <1>3

LEMMA NextHolds == IInv /\ [Next]_vars => IInv'
<1> SUFFICES ASSUME IInv, [Next]_vars PROVE IInv'
  OBVIOUS
<1>1. CASE UNCHANGED vars
  BY <1>1 DEF IInv, Sound, Shown, Live, PlaysItsClip, OnTime, Plays, WorldType, OnGrid,
              vars, device, sample
<1>2. CASE Next
  BY <1>2, WakeHolds, ApplyHolds, ApplyBrokenHolds, ElapseHolds, WorldHolds DEF Next
<1>3. QED
  BY <1>1, <1>2

-----------------------------------------------------------------------------
(* The theorems.                                                           *)

\* The invariant of the executor, its panel and the ticker's clock.
THEOREM Inductive == Spec => []IInv
  BY InitHolds, NextHolds, PTL DEF Spec

\* The picture the executor deduplicates against is on the glass for as long as its
\* connection lives, whatever transfers failed and wherever the device was unplugged
\* (send_bytes, uncertain); the types hold with it.
THEOREM PanelStaysKnown == Spec => []PanelIsKnown
<1>1. IInv => PanelIsKnown
  <2> SUFFICES ASSUME IInv PROVE PanelIsKnown
    OBVIOUS
  <2>1. CommittedIsShown
    BY DEF IInv, Sound, Shown, CommittedIsShown
  <2>2. /\ executor.active \in Preset \cup {None}
        /\ executor.committed # None => /\ executor.committed.preset \in Preset
                                        /\ executor.committed.picture \in Picture
        /\ executor.brightness \in Brightness \cup {None}
        /\ executor.faulted \in BOOLEAN
    BY DEF IInv, Executor
  <2>3. panel.picture \in Picture \cup {Firmware, Torn} /\ panel.brightness \in Brightness
    BY DEF IInv, Panel
  <2>4. /\ link \in 0..plugs /\ plugs \in 1..MaxPlugs /\ clock \in 0..MaxTime
        /\ next \in 0..(MaxTime + Interval)
    BY DisplayAssumption DEF IInv, WorldType, OnGrid
  <2>5. ASSUME executor.animation # None
        PROVE  /\ executor.animation.cursor \in 1..Frames
               /\ executor.animation.due > executor.animation.start
    <3>1. executor.animation \in Animation
      BY <2>5 DEF IInv, Executor
    <3>2. PICK n \in 0..MaxTime : Plays(executor.animation, n)
      BY <2>5 DEF IInv, Sound, OnTime
    <3>3. n + 1 \in Nat /\ n + 1 > 0 /\ At(n + 1) \in Nat /\ At(n + 1) >= n + 1
      BY <3>2, AtType
    <3>4. QED
      BY <3>1, <3>2, <3>3 DEF Plays, Animation
  <2>6. QED
    BY <2>1, <2>2, <2>3, <2>4, <2>5 DEF PanelIsKnown, TypeOK
<1>2. QED
  BY <1>1, Inductive, PTL

\* Once a wake's transfer was refused, no wake hands the link anything until a preset
\* is applied, the device comes back or a pass misses it (is_streaming, faulted).
THEOREM RefusalsEndStreams == Spec => RefusalEndsStream
<1>1. IInv /\ [Next]_vars => [refused /\ Wake => ~tried']_vars
  BY WakeHolds
<1>2. QED
  BY <1>1, Inductive, PTL DEF Spec, RefusalEndsStream

\* After a wake that finds a stream running, its animation is on the picture that the
\* time since its start calls for, however late the wake; and the next pass lies
\* ahead, within an interval, on the grid of the intervals (advance_animation, the
\* ticker's loop in server.rs).
THEOREM TimeIsKept == Spec => KeepsTime
<1> DEFINE Due == Wake /\ Streaming(executor) /\ Streaming(executor') /\ executor'.animation # None =>
                    \E k \in 0..MaxTime :
                      LET a == executor'.animation
                      IN  /\ a.start + At(k) <= clock /\ clock < a.start + At(k + 1)
                          /\ a.cursor = FrameAfter(1, k)
           Ahead == Wake => next' > clock /\ next' <= clock + Interval /\ next' % Interval = 0
<1>1. IInv /\ [Next]_vars => [Due]_vars
  <2> SUFFICES ASSUME IInv, Wake, Streaming(executor), executor'.animation # None
               PROVE  \E k \in 0..MaxTime :
                        /\ executor'.animation.start + At(k) <= clock
                        /\ clock < executor'.animation.start + At(k + 1)
                        /\ executor'.animation.cursor = FrameAfter(1, k)
    OBVIOUS
  <2>1. IInv' /\ clock < executor'.animation.due /\ clock' = clock
    BY WakeHolds DEF Wake
  <2>2. PICK k \in 0..MaxTime : Plays(executor.animation, k)'
    BY <2>1 DEF IInv, Sound, OnTime
  <2>3. QED
    BY <2>1, <2>2 DEF Plays
<1>2. IInv /\ [Next]_vars => [Ahead]_vars
  <2> SUFFICES ASSUME IInv, Wake
               PROVE  next' > clock /\ next' <= clock + Interval /\ next' % Interval = 0
    OBVIOUS
  <2>1. clock \in Nat /\ next \in Nat /\ next' = IF clock >= next THEN NextPass ELSE next
    BY DEF IInv, WorldType, OnGrid, Wake
  <2>2. CASE clock >= next
    BY <2>1, <2>2, NextPassIsAhead DEF IInv
  <2>3. CASE ~(clock >= next)
    BY <2>1, <2>3 DEF IInv, OnGrid
  <2>4. QED
    BY <2>2, <2>3
<1>3. Spec => [][Due]_vars
  <2> HIDE DEF Due
  <2>1. QED
    BY <1>1, Inductive, PTL DEF Spec
<1>4. Spec => [][Ahead]_vars
  <2> HIDE DEF Ahead
  <2>1. QED
    BY <1>2, Inductive, PTL DEF Spec
<1>5. OnSchedule <=> [][Due]_vars
  BY DEF OnSchedule
<1>6. NoBacklog <=> [][Ahead]_vars
  BY DEF NoBacklog
<1>7. QED
  BY <1>3, <1>4, <1>5, <1>6 DEF KeepsTime

\* However late the pass, a clip has one frame to go on with: the catch-up of
\* advance_animation ends, and what it ends on is settled.
THEOREM ClipsGoOn == Spec => [](executor.animation # None => \E b : Advanced(executor.animation) = {b})
<1>1. IInv => (executor.animation # None => \E b : Advanced(executor.animation) = {b})
  <2> SUFFICES ASSUME IInv, executor.animation # None
               PROVE  \E b : Advanced(executor.animation) = {b}
    OBVIOUS
  <2>1. executor.animation \in Animation /\ clock \in 0..MaxTime
    BY DEF IInv, Executor, WorldType
  <2>2. PICK n \in 0..MaxTime : Plays(executor.animation, n)
    BY DEF IInv, Sound, OnTime
  <2>3. n \in Nat
    BY DisplayAssumption
  <2> QED BY <2>1, <2>2, <2>3, CatchesUp DEF Plays
<1> QED BY <1>1, Inductive, PTL

-----------------------------------------------------------------------------
(* The lighting executor, with every fault of its model: reports that      *)
(* fail, a controller that leaves and comes back, a daemon that restarts.  *)

\* The executor's last_sent of a channel tells exactly how long ago its last
\* report left.
StampIsExact == quiet = sent

RecordInv ==
    /\ LightingTypeOK
    /\ StampIsExact
    /\ FloorHolds
    /\ RecordIsTrue

-----------------------------------------------------------------------------

\* Nothing was sent and nothing is recorded.
LEMMA InitInv == LightingInit => RecordInv
<1>1. ASSUME LightingInit PROVE LightingTypeOK
  BY <1>1, LightingAssumption DEF LightingInit, LightingTypeOK, AllDark, NoRecord, LongAgo, NoAnswer
<1>2. QED
  BY <1>1 DEF LightingInit, RecordInv, StampIsExact, FloorHolds, RecordIsTrue, NoRecord

\* A request that sends nothing.
LEMMA AnswerInv ==
    ASSUME RecordInv, NEW c \in Channel, NEW p \in Program, Deduplicate(c, p) \/ Refuse(c, p)
    PROVE  RecordInv'
<1>1. UNCHANGED <<controller, transport, committed, sent, quiet, gap>>
  BY DEF Deduplicate, Refuse
<1>2. answer'.hardware \in {"confirmed", "not_applied"}
  BY DEF Deduplicate, Refuse, Answer
<1>3. QED
  BY <1>1, <1>2 DEF RecordInv, LightingTypeOK, StampIsExact, FloorHolds, RecordIsTrue, controller

\* A report that leaves was not too soon: the floor had passed since the last one.
LEMMA SendingInv ==
    ASSUME RecordInv, NEW c \in Channel, NEW p \in Program, Sending(c, p),
           sent' = [sent EXCEPT ![c] = 0]
    PROVE  StampIsExact' /\ FloorHolds'
<1>1. StampIsExact'
  BY DEF RecordInv, StampIsExact, Sending
<1>2. quiet[c] = MinInterval
  BY LightingAssumption DEF RecordInv, LightingTypeOK, StampIsExact, Sending, TooSoon
<1>3. gap' = MinInterval
  BY <1>2, LightingAssumption DEF RecordInv, FloorHolds, Sending
<1>4. QED
  BY <1>1, <1>3 DEF FloorHolds

\* A frame goes out, no sooner than the interval after the last one.
LEMMA SendInv ==
    ASSUME RecordInv, NEW c \in Channel, NEW p \in Program, Send(c, p)
    PROVE  RecordInv'
<1>1. StampIsExact' /\ FloorHolds'
  BY SendingInv DEF Send
<1>2. LightingTypeOK'
  BY <1>1, LightingAssumption
  DEF RecordInv, LightingTypeOK, StampIsExact, FloorHolds, Send, Sending, Answer
<1>3. RecordIsTrue'
  BY DEF RecordInv, LightingTypeOK, RecordIsTrue, Send, Sending
<1>4. QED
  BY <1>1, <1>2, <1>3 DEF RecordInv

\* Nothing stays on record after a report that failed.
LEMMA SendFailsInv ==
    ASSUME RecordInv, NEW c \in Channel, NEW p \in Program, SendFails(c, p)
    PROVE  RecordInv'
<1>1. StampIsExact' /\ FloorHolds'
  BY SendingInv DEF SendFails
<1>2. shown' \in [Channel -> Program \cup {Dark}]
  BY DEF RecordInv, LightingTypeOK, SendFails, AfterFailure, AllDark
<1>3. committed' \in [Channel -> Program \cup {NoProgram}] /\ answer'.hardware = "uncertain"
  BY DEF SendFails, AfterUncertain, NoRecord, Answer
<1>4. sent' \in [Channel -> 0..MinInterval] /\ quiet' = sent' /\ gap' = MinInterval
  BY <1>1, LightingAssumption DEF RecordInv, LightingTypeOK, StampIsExact, FloorHolds, SendFails
<1>5. LightingTypeOK'
  BY <1>2, <1>3, <1>4, LightingAssumption DEF RecordInv, LightingTypeOK, SendFails, Sending
<1>6. RecordIsTrue'
  BY DEF RecordIsTrue, SendFails, AfterUncertain, NoRecord
<1>7. QED
  BY <1>1, <1>5, <1>6 DEF RecordInv

\* Time passes for every channel at once.
LEMMA ClockInv == ASSUME RecordInv, TimePasses PROVE RecordInv'
<1>1. \A t \in 0..MinInterval : Later(t) \in 0..MinInterval
  BY LightingAssumption DEF Later
<1>2. sent' \in [Channel -> 0..MinInterval] /\ quiet' = sent'
  BY <1>1 DEF RecordInv, LightingTypeOK, StampIsExact, TimePasses
<1>3. QED
  BY <1>2
  DEF RecordInv, LightingTypeOK, StampIsExact, FloorHolds, RecordIsTrue, TimePasses, NoAnswer, controller

\* A dead descriptor never comes alive: the record of it is about nothing.
LEMMA HotplugInv == ASSUME RecordInv, ControllerLeaves \/ ControllerReturns PROVE RecordInv'
<1>1. CASE ControllerLeaves
  BY <1>1
  DEF RecordInv, LightingTypeOK, StampIsExact, FloorHolds, RecordIsTrue, ControllerLeaves, NoAnswer, AllDark
<1>2. CASE ControllerReturns
  BY <1>2, LightingAssumption
  DEF RecordInv, LightingTypeOK, StampIsExact, FloorHolds, RecordIsTrue, ControllerReturns, NoAnswer
<1>3. QED
  BY <1>1, <1>2

\* A restart forgets the records and the stamps; the controller keeps its colors.
LEMMA RestartInv == ASSUME RecordInv, Restart PROVE RecordInv'
  BY LightingAssumption
  DEF RecordInv, LightingTypeOK, StampIsExact, FloorHolds, RecordIsTrue, Restart, NoRecord, LongAgo,
      NoAnswer, controller

\* Every step keeps the stamps and the records true.
LEMMA NextInv == RecordInv /\ [LightingNext]_lightingVars => RecordInv'
<1> SUFFICES ASSUME RecordInv, [LightingNext]_lightingVars PROVE RecordInv'
  OBVIOUS
<1>1. ASSUME NEW c \in Channel, NEW p \in Program, ApplyProgram(c, p) PROVE RecordInv'
  BY <1>1, AnswerInv, SendInv, SendFailsInv DEF ApplyProgram
<1>2. CASE TimePasses \/ ControllerLeaves \/ ControllerReturns \/ Restart
  BY <1>2, ClockInv, HotplugInv, RestartInv
<1>3. CASE UNCHANGED lightingVars
  BY <1>3 DEF RecordInv, LightingTypeOK, StampIsExact, FloorHolds, RecordIsTrue, lightingVars, controller
<1>4. QED
  BY <1>1, <1>2, <1>3 DEF LightingNext

-----------------------------------------------------------------------------
\* The inductive invariant of apply, of hotplug and of restarts holds throughout.
THEOREM RecordInductive == LightingSpec => []RecordInv
  BY InitInv, NextInv, PTL DEF LightingSpec

\* The record never lies (apply in lighting.rs): while the connection lives, what
\* a later request is deduplicated against is what the channel shows.
THEOREM RecordNeverLies == LightingSpec => []RecordIsTrue
<1>1. RecordInv => RecordIsTrue
  BY DEF RecordInv
<1>2. QED
  BY <1>1, RecordInductive, PTL

\* The floor of refuse_for_cadence holds between any two reports to a channel,
\* failed ones included.
THEOREM FloorAlwaysHolds == LightingSpec => []FloorHolds
<1>1. RecordInv => FloorHolds
  BY DEF RecordInv
<1>2. QED
  BY <1>1, RecordInductive, PTL

\* The executor's variables and the controller keep their types.
THEOREM TypesHold == LightingSpec => []LightingTypeOK
<1>1. RecordInv => LightingTypeOK
  BY DEF RecordInv
<1>2. QED
  BY <1>1, RecordInductive, PTL

-----------------------------------------------------------------------------
(* The write probes: Probes.                                               *)

\* What a channel can be told to show, and a report that says it.
Light == {"white", "off", "red", "green", "blue", "prior", "chosen", "default_view", "breathing",
          "spectrum_wave"}
Sendable == [light : Light, speed : Speed \cup {"none", "normal"}, direction : {"forward", "backward"}]
Report == [channel : Nat, program : Sendable]

\* The stages of a probe, and those before the operator agreed.
Stages == {"idle", "authorizing", "describing", "sending", "cadence", "restoring", "done"}
Before == {"idle", "authorizing", "describing"}

\* Types.
ProbeTypes ==
    /\ probeStage \in Stages
    /\ probeOf \in [device : {"rgb", "lcd"}, scope : Scope, channels : Nat]
    /\ probeOf.device = "lcd" => probeOf.channels = 1
    /\ probeQueue \in Seq(Report)
    /\ probeShows \in [1..2 -> SUBSET Sendable]
    /\ probeCadence \in [step : Nat, landed : Nat, stable : Nat, failure : Nat]
    /\ probeFailed \in BOOLEAN

\* Nothing was sent before the phrase, and a refusal comes before it.
NothingYet ==
    /\ probeStage \in Before => probeSent = {} /\ \A c \in 1..2 : probeShows[c] = {Prior}
    /\ probeStage # "done" => probeEnd = "none"
    /\ probeEnd = "refused" => probeSent = {}

\* A report is for a channel the controller reported, so the others show what they did.
InReach ==
    /\ probeStage = "sending" => \A i \in 1..Len(probeQueue) : probeQueue[i].channel <= probeOf.channels
    /\ probeOf.channels > 0 => \A c \in 1..2 : c > probeOf.channels => probeShows[c] = {Prior}

\* The restoration goes from the first channel to the last, and unless one failed each it
\* has passed shows what it was restored to.
RestoredSoFar ==
    LET n == probeOf.channels
        left == Len(probeQueue)
    IN  /\ probeStage = "restoring" =>
            /\ left <= n
            /\ \A i \in 1..left :
                 probeQueue[i] = [channel |-> n - left + i, program |-> RestoreTo(probeOf.device)]
            /\ ~probeFailed =>
                 \A c \in 1..2 : c <= n - left => probeShows[c] = {RestoreTo(probeOf.device)}
        /\ probeEnd = "confirmed" =>
             \A c \in 1..2 : c <= n => probeShows[c] = {RestoreTo(probeOf.device)}

\* The stable interval is the one before the step, where the failure is if there is one;
\* a controller is restored after the last interval or a failure.
MeasuredSoFar ==
    /\ probeCadence.step \in 1..(CadenceSteps + 1)
    /\ probeCadence.stable = probeCadence.step - 1
    /\ probeCadence.failure # Never => probeCadence.failure = probeCadence.step
    /\ probeOf.device = "rgb" /\ (probeStage = "restoring" \/ probeEnd \in {"confirmed", "unconfirmed"}) =>
         probeCadence.failure # Never \/ probeCadence.step = CadenceSteps + 1

\* The inductive invariant of Probes.
ProbesIInv == ProbeTypes /\ NothingYet /\ InReach /\ RestoredSoFar /\ MeasuredSoFar

\* Where a position of a sweep is, program by program.
LEMMA Multiples ==
    ASSUME NEW a \in Nat, NEW L \in Nat \ {0}, NEW n \in Nat, a < n * L
    PROVE  a \div L \in 0..(n - 1) /\ a % L \in 0..(L - 1)
<1> DEFINE q == a \div L
<1>1. q \in Int /\ a % L \in 0..(L - 1) /\ a = L * q + (a % L)
  OBVIOUS
<1> HIDE DEF q
<1>2. L * q <= a /\ a < L * q + L
  BY <1>1
<1>3. q >= 0
  <2>1. CASE q <= -1
    <3>1. L * q <= -L /\ L * q \in Int
      BY <1>1, <2>1
    <3> QED BY <1>2, <3>1
  <2> QED BY <1>1, <2>1
<1>4. q < n
  <2>1. CASE q >= n
    <3>1. L * q >= n * L /\ L * q \in Int /\ n * L \in Int
      BY <1>1, <2>1
    <3> QED BY <1>2, <3>1
  <2> QED BY <1>1, <2>1
<1> QED BY <1>1, <1>3, <1>4 DEF q

\* Every program goes to a channel of the order's.
LEMMA OrderIsInReach ==
    ASSUME NEW n \in Nat, NEW programs \in Seq(Sendable), programs # <<>>
    PROVE  /\ Order(n, programs) \in Seq(Report)
           /\ \A i \in 1..Len(Order(n, programs)) : Order(n, programs)[i].channel <= n
<1> DEFINE L == Len(programs)
           order == Order(n, programs)
           size == n * L
<1>1. L \in Nat \ {0}
  OBVIOUS
<1>2. size \in Nat
  BY <1>1
<1>3. ASSUME NEW i \in 1..size
      PROVE  order[i] \in Report /\ order[i].channel <= n
  <2>1. i - 1 \in Nat /\ i - 1 < n * L
    BY <1>1, <1>2
  <2>2. (i - 1) \div L \in 0..(n - 1) /\ (i - 1) % L \in 0..(L - 1)
    BY <1>1, <2>1, Multiples
  <2>3. programs[((i - 1) % L) + 1] \in Sendable
    BY <1>1, <2>2
  <2>4. order[i] = [channel |-> ((i - 1) \div L) + 1, program |-> programs[((i - 1) % L) + 1]]
    BY DEF Order
  <2>5. ((i - 1) \div L) + 1 \in Nat /\ ((i - 1) \div L) + 1 <= n
    BY <2>2
  <2> QED BY <2>3, <2>4, <2>5 DEF Report
<1>4. order = [i \in 1..size |-> order[i]]
  BY DEF Order
<1> HIDE DEF order, size, L
<1>5. order \in Seq(Report) /\ Len(order) = size
  BY <1>2, <1>3, <1>4
<1> QED BY <1>3, <1>5 DEF order

\* The restoration addresses each channel once.
LEMMA EveryChannelOnce ==
    ASSUME ProbeTypes
    PROVE  /\ EveryChannel \in Seq(Report) /\ Len(EveryChannel) = probeOf.channels
           /\ \A i \in 1..Len(EveryChannel) :
                EveryChannel[i] = [channel |-> i, program |-> RestoreTo(probeOf.device)]
<1> DEFINE to == RestoreTo(probeOf.device)
           n == probeOf.channels
<1>1. to \in Sendable /\ n \in Nat
  BY DEF RestoreTo, Plain, Sendable, Light, ProbeTypes
<1>2. <<to>> \in Seq(Sendable) /\ Len(<<to>>) = 1 /\ <<to>>[1] = to
  BY <1>1
<1>3. \A i \in 1..n : ((i - 1) \div 1) + 1 = i /\ ((i - 1) % 1) + 1 = 1
  BY <1>1
<1>4. EveryChannel = [i \in 1..n |-> [channel |-> i, program |-> to]]
  <2>1. EveryChannel = [i \in 1..(n * Len(<<to>>)) |->
            [channel |-> ((i - 1) \div Len(<<to>>)) + 1, program |-> <<to>>[((i - 1) % Len(<<to>>)) + 1]]]
    BY DEF EveryChannel, Order
  <2>2. n * Len(<<to>>) = n
    BY <1>1, <1>2
  <2> QED BY <1>2, <1>3, <2>1, <2>2
<1> HIDE DEF to, n
<1>5. \A i \in 1..n : [channel |-> i, program |-> to] \in Report
  BY <1>1 DEF Report
<1> QED BY <1>1, <1>4, <1>5 DEF to, n

\* The sweep is a sequence: the values the screen can select are finitely many.
LEMMA SweepIsSendable == Sweep \in Seq(Sendable) /\ Sweep # <<>>
<1> USE ProbesAssumption
<1>1. ASSUME NEW light \in {"breathing", "spectrum_wave"}, NEW d \in {"forward", "backward"}
      PROVE  IsFiniteSet({Effect(light, s, d) : s \in Speed})
  <2> DEFINE T == {Effect(light, s, d) : s \in Speed}
             f == [s \in Speed |-> Effect(light, s, d)]
  <2>1. f \in Surjection(Speed, T)
    BY DEF Surjection
  <2> HIDE DEF f, T
  <2>2. IsFiniteSet(T)
    BY <2>1, FS_Surjection
  <2> QED BY <2>2 DEF T
<1> DEFINE B == {Effect("breathing", s, "forward") : s \in Speed}
           W(d) == {Effect("spectrum_wave", s, d) : s \in Speed}
<1>2. Selectable = B \cup (W("forward") \cup W("backward"))
  BY DEF Selectable
<1>3. IsFiniteSet(B) /\ IsFiniteSet(W("forward")) /\ IsFiniteSet(W("backward"))
  BY <1>1
<1>4. B \subseteq Sendable /\ W("forward") \subseteq Sendable /\ W("backward") \subseteq Sendable
  BY DEF Effect, Sendable, Light
<1> HIDE DEF B, W
<1>5. IsFiniteSet(Selectable) /\ Selectable \subseteq Sendable
  <2>1. IsFiniteSet(W("forward") \cup W("backward"))
    BY <1>3, FS_Union
  <2>2. IsFiniteSet(B \cup (W("forward") \cup W("backward")))
    BY <1>3, <2>1, FS_Union
  <2> QED BY <1>2, <1>4, <2>2
<1> DEFINE N == Cardinality(Selectable)
<1>6. N \in Nat /\ ExistsBijection(1..N, Selectable)
  BY <1>5, FS_CardinalityType
<1>7. PICK f \in Bijection(1..N, Selectable) : TRUE
  BY <1>6 DEF ExistsBijection
<1>8. f \in [1..N -> Selectable] /\ Seqs!IsInjective(f)
  BY <1>7 DEF Bijection, Injection, IsInjective, Seqs!IsInjective
<1>9. Seqs!SetToSeq(Selectable) \in [1..N -> Selectable]
  <2>1. Seqs!Cardinality(Selectable) = N
    BY DEF Seqs!Cardinality, Cardinality
  <2>2. Seqs!SetToSeq(Selectable) = CHOOSE g \in [1..N -> Selectable] : Seqs!IsInjective(g)
    BY <2>1 DEF Seqs!SetToSeq
  <2> HIDE DEF N
  <2> QED BY <1>8, <2>2
<1>10. Seqs!SetToSeq(Selectable) \in Seq(Sendable)
  BY <1>5, <1>6, <1>9
<1>11. <<Off>> \in Seq(Sendable) /\ Len(<<Off>>) = 1
  BY DEF Off, Plain, Sendable, Light
<1> QED BY <1>10, <1>11 DEF Sweep

\* Every program of a sweep can be sent.
LEMMA ProgramsAreSendable ==
    ASSUME ProbeTypes
    PROVE  ProbePrograms(probeOf) \in Seq(Sendable) /\ ProbePrograms(probeOf) # <<>>
<1>1. /\ Plain("red") \in Sendable /\ Plain("green") \in Sendable /\ Plain("blue") \in Sendable
      /\ Plain("white") \in Sendable /\ White \in Sendable /\ Off \in Sendable
      /\ Effect("breathing", "normal", "forward") \in Sendable
      /\ Effect("spectrum_wave", "normal", "forward") \in Sendable
  BY DEF Plain, White, Off, Effect, Sendable, Light
<1>2. Colors \in Seq(Sendable) /\ Colors # <<>>
  BY <1>1 DEF Colors
<1>3. <<White, Off>> \in Seq(Sendable) /\ <<White, Off>> # <<>>
  BY <1>1
<1>4. ASSUME NEW a \in Sendable, NEW b \in Sendable
      PROVE  <<White, Off, a, b, Off>> \in Seq(Sendable) /\ <<White, Off, a, b, Off>> # <<>>
  BY <1>1
<1> QED BY <1>1, <1>2, <1>3, <1>4, SweepIsSendable DEF ProbePrograms, ProbeTypes, Scope

\* No probe ran yet.
LEMMA ProbesInitHolds == ProbesInit => ProbesIInv
<1> SUFFICES ASSUME ProbesInit PROVE ProbesIInv
  OBVIOUS
<1> USE ProbesAssumption DEF ProbesInit
<1>1. ProbeTypes
  <2>1. Prior \in Sendable
    BY DEF Prior, Plain, Sendable, Light
  <2>2. probeShows \in [1..2 -> SUBSET Sendable]
    BY <2>1
  <2>3. probeQueue \in Seq(Report)
    OBVIOUS
  <2>4. probeFailed \in BOOLEAN
    BY Zenon
  <2> QED BY <2>2, <2>3, <2>4 DEF ProbeTypes, Stages, Scope, Never
<1>2. NothingYet /\ InReach
  BY DEF NothingYet, Before, InReach
<1>3. RestoredSoFar /\ MeasuredSoFar
  BY DEF RestoredSoFar, MeasuredSoFar, Never
<1> QED BY <1>1, <1>2, <1>3 DEF ProbesIInv

\* A report changes what its channel shows, and only that.
LEMMA ReportReaches ==
    ASSUME ProbeTypes, NEW channel \in Nat, NEW program \in Sendable,
           NEW fails \in BOOLEAN, NEW lands \in BOOLEAN, SendReport(channel, program, fails, lands)
    PROVE  /\ probeShows' \in [1..2 -> SUBSET Sendable]
           /\ \A c \in 1..2 : c # channel => probeShows'[c] = probeShows[c]
           /\ ~fails /\ channel \in 1..2 => probeShows'[channel] = {program}
BY DEF SendReport, ProbeTypes

\* What is left of a queue without its head.
LEMMA QueueShrinks ==
    ASSUME NEW S, NEW queue \in Seq(S), queue # <<>>
    PROVE  /\ Head(queue) \in S /\ Head(queue) = queue[1] /\ 1 \in 1..Len(queue)
           /\ Tail(queue) \in Seq(S) /\ Len(Tail(queue)) = Len(queue) - 1 /\ Len(queue) \in Nat
           /\ \A i \in 1..Len(Tail(queue)) : i + 1 \in 1..Len(queue) /\ Tail(queue)[i] = queue[i + 1]
OBVIOUS

\* One report of the sweep.
LEMMA SendStepHolds ==
    ASSUME ProbesIInv, NEW fails \in BOOLEAN, NEW lands \in BOOLEAN, SendStep(fails, lands)
    PROVE  ProbesIInv'
<1> DEFINE it == Head(probeQueue)
<1> USE DEF ProbesIInv
<1>1. /\ probeStage = "sending" /\ probeQueue # <<>> /\ probeQueue' = Tail(probeQueue)
      /\ SendReport(it.channel, it.program, fails, lands)
      /\ UNCHANGED <<probeStage, probeOf, probeCadence, probeFailed, probeEnd>>
  BY DEF SendStep
<1>2. probeQueue \in Seq(Report)
  BY DEF ProbeTypes
<1>3. it \in Report /\ it = probeQueue[1] /\ 1 \in 1..Len(probeQueue)
  BY <1>1, <1>2, QueueShrinks
<1> HIDE DEF it
<1>4. it.channel \in Nat /\ it.program \in Sendable /\ it.channel <= probeOf.channels
  BY <1>1, <1>3 DEF Report, InReach
<1>5. /\ probeShows' \in [1..2 -> SUBSET Sendable]
      /\ \A c \in 1..2 : c # it.channel => probeShows'[c] = probeShows[c]
  BY <1>1, <1>4, ReportReaches
<1>6. ProbeTypes'
  BY <1>1, <1>2, <1>5, QueueShrinks DEF ProbeTypes
<1>7. NothingYet'
  BY <1>1 DEF NothingYet, Before
<1>8. InReach'
  <2>1. \A i \in 1..Len(probeQueue') : probeQueue'[i].channel <= probeOf.channels
    BY <1>1, <1>2, QueueShrinks DEF InReach
  <2>2. \A c \in 1..2 : probeOf.channels > 0 /\ c > probeOf.channels => probeShows'[c] = {Prior}
    <3>1. probeOf.channels \in Nat
      BY DEF ProbeTypes
    <3> QED BY <1>4, <1>5, <3>1 DEF InReach
  <2> QED BY <1>1, <2>1, <2>2 DEF InReach
<1>9. RestoredSoFar' /\ MeasuredSoFar'
  BY <1>1 DEF RestoredSoFar, MeasuredSoFar, NothingYet
<1> QED BY <1>6, <1>7, <1>8, <1>9

\* One interval of the cadence.
LEMMA MeasureHolds ==
    ASSUME ProbesIInv, NEW fails \in BOOLEAN, NEW lands \in BOOLEAN, MeasureCadence(fails, lands)
    PROVE  ProbesIInv'
<1> USE DEF ProbesIInv
<1> DEFINE program == IF probeCadence.landed % 2 = 0 THEN White ELSE Off
<1>1. /\ probeStage = "cadence" /\ probeCadence.failure = Never /\ probeCadence.step <= CadenceSteps
      /\ SendReport(1, program, fails, lands) /\ probeCadence' = Measured(fails)
      /\ UNCHANGED <<probeStage, probeOf, probeQueue, probeFailed, probeEnd>>
  BY DEF MeasureCadence
<1>2. program \in Sendable
  BY DEF White, Off, Plain, Sendable, Light
<1> HIDE DEF program
<1>3. /\ probeShows' \in [1..2 -> SUBSET Sendable]
      /\ \A c \in 1..2 : c # 1 => probeShows'[c] = probeShows[c]
  BY <1>1, <1>2, ReportReaches
<1>4. /\ probeCadence' \in [step : Nat, landed : Nat, stable : Nat, failure : Nat]
      /\ probeCadence'.step \in 1..(CadenceSteps + 1)
      /\ probeCadence'.stable = probeCadence'.step - 1
      /\ probeCadence'.failure # Never => probeCadence'.failure = probeCadence'.step
  <2>1. probeCadence \in [step : Nat, landed : Nat, stable : Nat, failure : Nat] /\ CadenceSteps \in Nat
    BY ProbesAssumption DEF ProbeTypes
  <2>2. probeCadence.step >= 1 /\ probeCadence.stable = probeCadence.step - 1
    BY DEF MeasuredSoFar
  <2>3. CASE fails
    <3>1. probeCadence' = [probeCadence EXCEPT !.failure = @ + probeCadence.step]
      BY <1>1, <2>3 DEF Measured
    <3>2. probeCadence'.failure = probeCadence.step
      BY <1>1, <2>1, <3>1 DEF Never
    <3> QED BY <1>1, <2>1, <2>2, <3>1, <3>2
  <2>4. CASE ~fails /\ probeCadence.landed + 1 < CadenceCommands
    <3>1. probeCadence' = [probeCadence EXCEPT !.landed = @ + 1]
      BY <1>1, <2>4 DEF Measured
    <3> QED BY <1>1, <2>1, <2>2, <3>1
  <2>5. CASE ~fails /\ ~(probeCadence.landed + 1 < CadenceCommands)
    <3>1. probeCadence' = [probeCadence EXCEPT !.landed = 0, !.stable = probeCadence.step, !.step = @ + 1]
      BY <1>1, <2>5 DEF Measured
    <3>2. /\ probeCadence'.step = probeCadence.step + 1 /\ probeCadence'.stable = probeCadence.step
          /\ probeCadence'.landed = 0 /\ probeCadence'.failure = probeCadence.failure
      BY <2>1, <3>1
    <3>3. probeCadence' = [step |-> probeCadence.step + 1, landed |-> 0, stable |-> probeCadence.step,
                           failure |-> probeCadence.failure]
      BY <2>1, <3>1
    <3> QED BY <1>1, <2>1, <2>2, <3>2, <3>3
  <2> QED BY <2>3, <2>4, <2>5
<1>5. ProbeTypes'
  BY <1>1, <1>3, <1>4 DEF ProbeTypes
<1>6. NothingYet' /\ RestoredSoFar'
  BY <1>1 DEF NothingYet, Before, RestoredSoFar
<1>7. InReach'
  <2>1. probeOf.channels \in Nat
    BY DEF ProbeTypes
  <2> QED BY <1>1, <1>3, <2>1 DEF InReach
<1>8. MeasuredSoFar'
  BY <1>1, <1>4 DEF MeasuredSoFar, NothingYet
<1> QED BY <1>5, <1>6, <1>7, <1>8

\* One channel of the restoration.
LEMMA RestoreHolds ==
    ASSUME ProbesIInv, NEW fails \in BOOLEAN, NEW lands \in BOOLEAN, RestoreChannel(fails, lands)
    PROVE  ProbesIInv'
<1> USE DEF ProbesIInv
<1> DEFINE it == Head(probeQueue)
           n == probeOf.channels
           left == Len(probeQueue)
           to == RestoreTo(probeOf.device)
<1>1. /\ probeStage = "restoring" /\ probeQueue # <<>> /\ probeQueue' = Tail(probeQueue)
      /\ SendReport(it.channel, it.program, fails, lands) /\ probeFailed' = (probeFailed \/ fails)
      /\ UNCHANGED <<probeStage, probeOf, probeCadence, probeEnd>>
  BY DEF RestoreChannel
<1>2. probeQueue \in Seq(Report) /\ n \in Nat /\ probeFailed \in BOOLEAN
  BY DEF ProbeTypes
<1>3. it \in Report /\ it = probeQueue[1] /\ left \in Nat /\ left >= 1
  BY <1>1, <1>2, QueueShrinks
<1>4. /\ left <= n
      /\ \A i \in 1..left : probeQueue[i] = [channel |-> n - left + i, program |-> to]
      /\ ~probeFailed => \A c \in 1..2 : c <= n - left => probeShows[c] = {to}
  BY <1>1 DEF RestoredSoFar
<1>5. it.channel = n - left + 1 /\ it.program = to /\ it.channel \in Nat /\ it.program \in Sendable
  <2>1. 1 \in 1..left /\ it = probeQueue[1]
    BY <1>3
  <2>2. it = [channel |-> n - left + 1, program |-> to]
    <3> HIDE DEF n, left, to, it
    <3> QED BY <1>4, <2>1
  <2> QED BY <1>3, <2>2 DEF Report
<1>6. /\ Len(probeQueue') = left - 1 /\ probeQueue' \in Seq(Report)
      /\ \A i \in 1..Len(probeQueue') : i + 1 \in 1..left /\ probeQueue'[i] = probeQueue[i + 1]
  BY <1>1, <1>2, QueueShrinks
<1> HIDE DEF it
<1>7. /\ probeShows' \in [1..2 -> SUBSET Sendable]
      /\ \A c \in 1..2 : c # it.channel => probeShows'[c] = probeShows[c]
      /\ ~fails /\ it.channel \in 1..2 => probeShows'[it.channel] = {to}
  BY <1>1, <1>5, ReportReaches
<1>8. ProbeTypes'
  <2>1. probeFailed' \in BOOLEAN
    BY <1>1, <1>2, Zenon
  <2> QED BY <1>1, <1>6, <1>7, <2>1 DEF ProbeTypes
<1>9. NothingYet' /\ MeasuredSoFar'
  BY <1>1 DEF NothingYet, Before, MeasuredSoFar
<1>10. InReach'
  <2>1. it.channel <= n /\ it.channel \in Nat
    <3> HIDE DEF n, left
    <3> QED BY <1>2, <1>3, <1>4, <1>5
  <2> QED BY <1>1, <1>2, <1>7, <2>1 DEF InReach
<1>11. RestoredSoFar'
  <2> DEFINE rest == Len(probeQueue')
  <2>1. \A i \in 1..rest : probeQueue'[i] = [channel |-> n - rest + i, program |-> to]
    <3> TAKE i \in 1..rest
    <3>1. probeQueue'[i] = [channel |-> n - left + (i + 1), program |-> to]
      BY <1>4, <1>6
    <3>2. n - left + (i + 1) = n - rest + i
      <4>1. rest = left - 1 /\ i \in Int
        BY <1>6
      <4> HIDE DEF rest, left, n
      <4> QED BY <1>2, <1>3, <4>1
    <3> QED BY <3>1, <3>2
  <2>2. ~probeFailed' => \A c \in 1..2 : c <= n - rest => probeShows'[c] = {to}
    <3> SUFFICES ASSUME ~probeFailed', NEW c \in 1..2, c <= n - rest
                 PROVE  probeShows'[c] = {to}
      OBVIOUS
    <3>1. ~probeFailed /\ ~fails
      BY <1>1
    <3>2. c <= n - left \/ c = it.channel
      BY <1>2, <1>3, <1>5, <1>6
    <3>3. c <= n - left => c # it.channel
      BY <1>2, <1>3, <1>5
    <3> QED BY <1>4, <1>7, <3>1, <3>2, <3>3
  <2>3. rest <= n
    BY <1>2, <1>3, <1>4, <1>6
  <2>4. probeEnd' = "none"
    BY <1>1 DEF NothingYet
  <2> HIDE DEF rest, to
  <2> QED BY <1>1, <2>1, <2>2, <2>3, <2>4 DEF RestoredSoFar, rest, to
<1> QED BY <1>8, <1>9, <1>10, <1>11

\* The steps that send nothing: what the process does next, or how it ends.
LEMMA GoesOnHolds ==
    ASSUME ProbesIInv, Authorize \/ Describe \/ StepsEnd \/ CadenceEnds
    PROVE  ProbesIInv'
<1> USE DEF ProbesIInv
<1>1. UNCHANGED <<probeOf, probeShows, probeSent, probeCadence, probeFailed, probeEnd>>
  BY DEF Authorize, Describe, StepsEnd, CadenceEnds, Goes
<1>2. /\ ProbePrograms(probeOf) \in Seq(Sendable) /\ ProbePrograms(probeOf) # <<>>
      /\ EveryChannel \in Seq(Report) /\ Len(EveryChannel) = probeOf.channels
      /\ \A i \in 1..Len(EveryChannel) :
           EveryChannel[i] = [channel |-> i, program |-> RestoreTo(probeOf.device)]
  BY ProgramsAreSendable, EveryChannelOnce
<1>3. /\ probeOf.channels \in Nat /\ probeOf.device \in {"rgb", "lcd"}
      /\ probeOf.device = "lcd" => probeOf.channels = 1
      /\ Addressed(probeOf) \in Nat /\ Addressed(probeOf) <= probeOf.channels
  BY DEF ProbeTypes, Addressed
<1>4. ASSUME NEW n \in Nat, n <= probeOf.channels
      PROVE  LET order == Order(n, ProbePrograms(probeOf)) IN
             /\ order \in Seq(Report)
             /\ \A i \in 1..Len(order) : order[i].channel <= probeOf.channels
  <2> DEFINE order == Order(n, ProbePrograms(probeOf))
  <2>1. order \in Seq(Report) /\ \A i \in 1..Len(order) : order[i].channel <= n
    BY <1>2, OrderIsInReach
  <2>2. \A i \in 1..Len(order) : order[i].channel \in Nat
    <3> HIDE DEF order
    <3>1. \A i \in 1..Len(order) : order[i] \in Report
      BY <2>1
    <3> QED BY <3>1 DEF Report
  <2> QED BY <1>3, <1>4, <2>1, <2>2
<1>5. ASSUME probeStage' \in Before \cup {"cadence"}, UNCHANGED probeQueue,
             probeStage' \in Before => probeStage \in Before
      PROVE  ProbesIInv'
  <2>1. ProbeTypes'
    BY <1>1, <1>5 DEF ProbeTypes, Before, Stages
  <2>4. probeStage # "done"
    BY DEF Authorize, Describe, StepsEnd, CadenceEnds
  <2>3. probeEnd = "none"
    BY <2>4 DEF NothingYet
  <2>2. NothingYet' /\ InReach'
    BY <1>1, <1>5, <2>3 DEF NothingYet, InReach, Before
  <2>5. RestoredSoFar' /\ MeasuredSoFar'
    BY <1>1, <1>5, <2>3, <2>4 DEF RestoredSoFar, MeasuredSoFar, Before
  <2> QED BY <2>1, <2>2, <2>5
<1>6. ASSUME probeStage \in Before, probeStage' = "sending", NEW n \in Nat, n <= probeOf.channels,
             probeQueue' = Order(n, ProbePrograms(probeOf))
      PROVE  ProbesIInv'
  <2>1. ProbeTypes'
    BY <1>1, <1>4, <1>6 DEF ProbeTypes, Stages
  <2>2. NothingYet' /\ InReach'
    BY <1>1, <1>4, <1>6 DEF NothingYet, InReach, Before
  <2>3. probeEnd = "none"
    BY <1>6 DEF NothingYet, Before
  <2>4. RestoredSoFar' /\ MeasuredSoFar'
    BY <1>1, <1>6, <2>3 DEF RestoredSoFar, MeasuredSoFar
  <2> QED BY <2>1, <2>2, <2>4
<1>7. ASSUME probeStage \in {"sending", "cadence"}, probeStage' = "restoring", probeQueue' = EveryChannel,
             probeOf.device = "rgb" => probeCadence.failure # Never \/ probeCadence.step = CadenceSteps + 1,
             ~probeFailed => \A c \in 1..2 : ~(c <= 0)
      PROVE  ProbesIInv'
  <2>1. ProbeTypes'
    BY <1>1, <1>2, <1>7 DEF ProbeTypes, Stages
  <2>2. NothingYet' /\ InReach'
    BY <1>1, <1>7 DEF NothingYet, InReach, Before
  <2>3. probeEnd = "none"
    BY <1>7 DEF NothingYet
  <2>4. RestoredSoFar'
    <3> DEFINE n == probeOf.channels
               left == Len(probeQueue')
               to == RestoreTo(probeOf.device)
    <3>1. left = n /\ n \in Nat
      BY <1>2, <1>3, <1>7
    <3>2. \A i \in 1..left : probeQueue'[i] = [channel |-> n - left + i, program |-> to]
      BY <1>2, <1>7, <3>1
    <3>3. \A c \in 1..2 : ~(c <= n - left)
      BY <3>1
    <3> HIDE DEF n, left, to
    <3> QED BY <1>1, <1>7, <2>3, <3>1, <3>2, <3>3 DEF RestoredSoFar, n, left, to
  <2>5. MeasuredSoFar'
    BY <1>1, <1>7, <2>3 DEF MeasuredSoFar
  <2> QED BY <2>1, <2>2, <2>4, <2>5
<1>8. CASE Authorize
  BY <1>3, <1>5, <1>6, <1>8 DEF Authorize, Goes, Before
<1>9. CASE Describe
  BY <1>3, <1>5, <1>6, <1>9 DEF Describe, Goes, Before
<1>10. CASE StepsEnd
  BY <1>3, <1>5, <1>7, <1>10 DEF StepsEnd, Goes, Before
<1>11. CASE CadenceEnds
  <2>1. probeCadence.failure # Never \/ probeCadence.step = CadenceSteps + 1
    BY <1>11, ProbesAssumption DEF CadenceEnds, MeasuredSoFar
  <2> QED BY <1>7, <1>11, <2>1 DEF CadenceEnds, Goes
<1> QED BY <1>8, <1>9, <1>10, <1>11

\* A probe ends, one way or another.
LEMMA EndsHolds ==
    ASSUME ProbesIInv, NEW how, Ends(how), probeStage # "done",
           how = "refused" => probeStage \in Before,
           how \in {"confirmed", "unconfirmed"} => probeStage = "restoring",
           how = "confirmed" => probeQueue = <<>> /\ ~probeFailed
    PROVE  ProbesIInv'
<1> USE DEF ProbesIInv
<1>1. /\ probeStage' = "done" /\ probeEnd' = how
      /\ UNCHANGED <<probeOf, probeQueue, probeShows, probeSent, probeCadence, probeFailed>>
  BY DEF Ends
<1>2. ProbeTypes'
  BY <1>1 DEF ProbeTypes, Stages
<1>3. NothingYet' /\ InReach'
  BY <1>1 DEF NothingYet, InReach, Before
<1>4. MeasuredSoFar'
  BY <1>1 DEF MeasuredSoFar
<1>5. RestoredSoFar'
  <2>1. how = "confirmed" =>
          \A c \in 1..2 : c <= probeOf.channels => probeShows[c] = {RestoreTo(probeOf.device)}
    <3> SUFFICES ASSUME how = "confirmed"
                 PROVE  \A c \in 1..2 : c <= probeOf.channels => probeShows[c] = {RestoreTo(probeOf.device)}
      OBVIOUS
    <3>1. Len(probeQueue) = 0 /\ probeOf.channels \in Nat
      BY DEF ProbeTypes
    <3>2. probeOf.channels - Len(probeQueue) = probeOf.channels
      BY <3>1
    <3> QED BY <3>2 DEF RestoredSoFar
  <2> QED BY <1>1, <2>1 DEF RestoredSoFar
<1> QED BY <1>2, <1>3, <1>4, <1>5

\* Every step of a probe keeps it.
LEMMA ProbesStepHolds ==
    ASSUME ProbesIInv, [ProbesNext]_probesVars
    PROVE  ProbesIInv'
<1>1. ASSUME NEW of \in Requests, StartProbe(of)
      PROVE  ProbesIInv'
  <2> USE DEF ProbesIInv
  <2>1. /\ of \in [device : {"rgb", "lcd"}, scope : Scope, channels : Nat]
        /\ of.device = "lcd" => of.channels = 1
    <3>1. CASE of \in [device : {"rgb"}, scope : Scope, channels : ProbeChannels]
      BY <3>1, ProbesAssumption
    <3>2. CASE of \in [device : {"lcd"}, scope : {"fixed_and_off"}, channels : {1}]
      BY <3>2 DEF Scope
    <3> QED BY <3>1, <3>2 DEF Requests
  <2>2. /\ probeStage = "idle" /\ probeOf' = of /\ probeStage' \in {"authorizing", "describing"}
        /\ UNCHANGED <<probeQueue, probeShows, probeSent, probeCadence, probeFailed, probeEnd>>
    BY <1>1 DEF StartProbe
  <2>3. ProbeTypes'
    BY <2>1, <2>2 DEF ProbeTypes, Stages
  <2>4. NothingYet' /\ InReach' /\ MeasuredSoFar' /\ RestoredSoFar'
    BY <2>2 DEF NothingYet, InReach, MeasuredSoFar, RestoredSoFar, Before
  <2> QED BY <2>3, <2>4
<1>2. CASE ProbeIsRefused \/ Decline \/ Interrupted
  BY <1>2, EndsHolds DEF ProbeIsRefused, Decline, Interrupted, Before
<1>3. CASE RestoreFailed \/ \E answers \in BOOLEAN : Look(answers)
  BY <1>3, EndsHolds DEF RestoreFailed, Look, Before
<1>4. CASE Authorize \/ Describe \/ StepsEnd \/ CadenceEnds
  BY <1>4, GoesOnHolds
<1>5. ASSUME NEW fails \in BOOLEAN, NEW lands \in BOOLEAN,
             SendStep(fails, lands) \/ MeasureCadence(fails, lands) \/ RestoreChannel(fails, lands)
      PROVE  ProbesIInv'
  BY <1>5, SendStepHolds, MeasureHolds, RestoreHolds
<1>6. CASE UNCHANGED probesVars
  BY <1>6 DEF probesVars, ProbesIInv, ProbeTypes, NothingYet, InReach, RestoredSoFar, MeasuredSoFar
<1> QED BY <1>1, <1>2, <1>3, <1>4, <1>5, <1>6 DEF ProbesNext

\* What a probe relies on holds of every behaviour of it.
THEOREM ProbesInductive == ProbesSpec => []ProbesIInv
BY ProbesInitHolds, ProbesStepHolds, PTL DEF ProbesSpec

\* Nothing is sent before the phrase or after a refusal, a probe that was confirmed restored
\* every channel reported and touched no other, and the stable interval is the one before
\* the failure, for any speeds, channels and intervals and whatever fails or interrupts.
THEOREM ProbesStayHonest == ProbesSpec => []ProbesAreHonest
<1>1. ASSUME ProbesIInv PROVE ProbesAreHonest
  <2> USE <1>1 DEF ProbesIInv
  <2>1. probeSent # {} => probeStage \notin {"authorizing", "describing"} /\ probeEnd # "refused"
    BY DEF NothingYet, Before
  <2>2. probeEnd = "confirmed" /\ probeOf.channels > 0 =>
        \A c \in DOMAIN probeShows :
            probeShows[c] = IF c <= probeOf.channels THEN {RestoreTo(probeOf.device)} ELSE {Prior}
    BY DEF RestoredSoFar, InReach, ProbeTypes
  <2>3. probeCadence.failure # Never => probeCadence.stable = probeCadence.failure - 1
    BY DEF MeasuredSoFar
  <2>4. probeEnd \in {"confirmed", "unconfirmed"} /\ probeOf.device = "rgb" =>
        probeCadence.stable = CadenceSteps \/ probeCadence.failure # Never
    BY ProbesAssumption DEF MeasuredSoFar
  <2> QED BY <2>1, <2>2, <2>3, <2>4 DEF ProbesAreHonest
<1> QED BY <1>1, ProbesInductive, PTL
=============================================================================
