------------------------ MODULE ConfigurationProofs ------------------------
(***************************************************************************)
(* What the configuration promises of its file, proved for any documents,  *)
(* any combination of failing reads, writes and renames, and any number of *)
(* crashes and power losses between any two system calls, as long as the   *)
(* directory sync does not fail on a machine that also loses power.        *)
(***************************************************************************)
EXTENDS Configuration, TLAPS

\* The sync's failure is ignored by write_atomically, and then a power loss may
\* bring the old file back: of that combination the code promises nothing.
SyncsWherePowerFails == \A f \in FaultSets : ~({"sync", "power"} \subseteq f)

-----------------------------------------------------------------------------
(* The documents themselves.                                               *)

\* What a fresh installation starts from is a document.
LEMMA DefaultDocumentType == DefaultDocument \in Document
  BY DEF DefaultDocument, Document, EmptySession, Session

\* What a fresh installation starts from loads.
LEMMA DefaultDocumentLoads == Valid(DefaultDocument)
  BY DEF Valid, DefaultDocument

\* Every change that config.rs makes turns a document that loads into one that
\* loads: the active name keeps naming a profile (validated by read_document), so
\* what Change asks of a document never holds a change back.
THEOREM ChangesKeepDocuments ==
    ASSUME NEW d \in Document, Valid(d)
    PROVE  /\ \A n \in Name, p \in Profile :
                WithProfile(d, n, p) \in Document /\ Valid(WithProfile(d, n, p))
           /\ \A n \in Name \cup {Safe} : Known(d, n) =>
                WithActive(d, n) \in Document /\ Valid(WithActive(d, n))
           /\ \A n \in Name :
                WithoutProfile(d, n) \in Document /\ Valid(WithoutProfile(d, n))
           /\ \A s \in Slot, v \in Value :
                WithSession(d, s, v) \in Document /\ Valid(WithSession(d, s, v))
<1>1. ASSUME NEW n \in Name, NEW p \in Profile
      PROVE  WithProfile(d, n, p) \in Document /\ Valid(WithProfile(d, n, p))
  <2>1. p # None
    BY AbsenceAssumption
  <2>2. QED
    BY <2>1 DEF Document, Valid, WithProfile
<1>2. ASSUME NEW n \in Name \cup {Safe}, Known(d, n)
      PROVE  WithActive(d, n) \in Document /\ Valid(WithActive(d, n))
  BY <1>2 DEF Document, Valid, WithActive, Known
<1>3. ASSUME NEW n \in Name
      PROVE  WithoutProfile(d, n) \in Document /\ Valid(WithoutProfile(d, n))
  BY ProfilesAssumption DEF Document, Valid, WithoutProfile
<1>4. ASSUME NEW s \in Slot, NEW v \in Value
      PROVE  WithSession(d, s, v) \in Document /\ Valid(WithSession(d, s, v))
  BY DEF Document, Session, Valid, WithSession
<1>5. QED
  BY <1>1, <1>2, <1>3, <1>4

-----------------------------------------------------------------------------
(* The inductive invariant.                                                *)

File == Document \cup {Missing, Unusable, Partial}

Kinds ==
    /\ TypeOK
    /\ durable[1] \in File
    /\ faults \in FaultSets
    /\ owed \subseteq Document

\* Nothing but a complete document a start accepts is ever in memory or
\* under the path, now or after a power loss.
Loads(f) == f # Partial /\ (f \in Document => Valid(f))

EverythingLoads ==
    /\ Loads(file) /\ Loads(durable[1])
    /\ Valid(document) /\ Valid(previous)

\* What the rename will put in place is the document of this commit.
Ready == stage = "rename" => temp = document

\* The document of a rest is the one on the path, or the defaults.
Rests(d) == d = file \/ (state # "Loaded" /\ d = DefaultDocument)

MemoryRests ==
    /\ stage = "idle" => Rests(document)
    /\ stage \in {"create", "write", "rename"} => Rests(previous)
    /\ stage = "sync" => file = document

\* What a start would make of a file is owed.
Owed(f) ==
    /\ f \in Document => f \in owed
    /\ f = Missing => DefaultDocument \in owed

StartIsOwed ==
    SyncsWherePowerFails =>
        /\ stage # "sync" => Owed(file)
        /\ "power" \in faults => Owed(durable[1])
        /\ stage = "idle" => document \in owed
        /\ stage \in {"create", "write", "rename"} => previous \in owed

\* An unusable file that can be renamed is, before anything is written.
Kept(f, files) == f = Unusable \/ Unusable \in files

UnusableStays ==
    (found = Unusable /\ "preserve" \notin faults) =>
        Kept(file, aside) /\ Kept(durable[1], durable[2])

RunsOnTrusted == (stage # "down" /\ "preserve" \notin faults) => file # Unusable

IInv ==
    /\ Kinds /\ EverythingLoads /\ Ready /\ MemoryRests
    /\ StartIsOwed /\ UnusableStays /\ RunsOnTrusted

USE ConfigurationAssumption

-----------------------------------------------------------------------------

\* Before the first start nothing is on the disk and nothing is in memory.
LEMMA InitHolds == Init => IInv
  BY DefaultDocumentType, DefaultDocumentLoads
     DEF Init, IInv, Kinds, TypeOK, File, EverythingLoads, Loads, Ready, MemoryRests, StartIsOwed,
         Owed, UnusableStays, Kept, RunsOnTrusted

\* Configuration::load: whatever is found, what runs afterwards is owed.
LEMMA LoadHolds ==
  ASSUME IInv, LoadDocument \/ LoadMissing \/ LoadRecovered, UNCHANGED faults
  PROVE  IInv'
  <1> USE DefaultDocumentType, DefaultDocumentLoads DEF Start, IInv
  <1>1. CASE LoadDocument
    <2> USE <1>1 DEF LoadDocument
    <2>1. Kinds'
      BY DEF Kinds, TypeOK
    <2>2. EverythingLoads'
      BY DEF EverythingLoads
    <2>3. Ready' /\ MemoryRests'
      BY DEF Ready, MemoryRests, Rests
    <2>4. StartIsOwed'
      BY DEF StartIsOwed, Owed
    <2>5. UnusableStays' /\ RunsOnTrusted'
      BY DEF UnusableStays, RunsOnTrusted
    <2> QED
      BY <2>1, <2>2, <2>3, <2>4, <2>5
  <1>2. CASE LoadMissing
    <2> USE <1>2 DEF LoadMissing
    <2>1. Kinds'
      BY DEF Kinds, TypeOK
    <2>2. EverythingLoads'
      BY DEF EverythingLoads
    <2>3. Ready' /\ MemoryRests'
      BY DEF Ready, MemoryRests, Rests
    <2>4. StartIsOwed'
      BY DEF StartIsOwed, Owed
    <2>5. UnusableStays' /\ RunsOnTrusted'
      BY DEF UnusableStays, RunsOnTrusted
    <2> QED
      BY <2>1, <2>2, <2>3, <2>4, <2>5
  <1>3. CASE LoadRecovered
    <2> USE <1>3 DEF LoadRecovered, Preserve
    <2>1. Kinds'
      BY DEF Kinds, TypeOK, File
    <2>2. EverythingLoads'
      BY DEF EverythingLoads, Loads
    <2>3. Ready' /\ MemoryRests'
      BY DEF Ready, MemoryRests, Rests
    <2>4. StartIsOwed'
      BY DEF StartIsOwed, Owed
    <2>5. UnusableStays' /\ RunsOnTrusted'
      BY DEF UnusableStays, RunsOnTrusted, Kept
    <2> QED
      BY <2>1, <2>2, <2>3, <2>4, <2>5
  <1> QED
    BY <1>1, <1>2, <1>3

\* A change in memory, before anything is written.
LEMMA ChangeHolds ==
  ASSUME IInv, NEW d \in Document, Valid(d), CommitChange(d), UNCHANGED faults
  PROVE  IInv'
  <1> USE DEF CommitChange, disk, ghosts, IInv
  <1>1. Kinds'
    BY DEF Kinds, TypeOK
  <1>2. EverythingLoads'
    BY DEF EverythingLoads
  <1>3. Ready' /\ MemoryRests'
    BY DEF Ready, MemoryRests, Rests
  <1>4. StartIsOwed'
    BY DEF StartIsOwed, Owed
  <1>5. UnusableStays' /\ RunsOnTrusted'
    BY DEF UnusableStays, RunsOnTrusted
  <1> QED
    BY <1>1, <1>2, <1>3, <1>4, <1>5

\* An operation is answered; the disk is not touched.
LEMMA AnswerHolds ==
  ASSUME IInv, Answer("ok") \/ Answer("error"), UNCHANGED faults
  PROVE  IInv'
  BY DEF Answer, disk, ghosts, IInv, Kinds, TypeOK, EverythingLoads, Ready, MemoryRests, Rests,
         StartIsOwed, Owed, UnusableStays, RunsOnTrusted

\* Every operation is a refusal, nothing to do, or the change of a document that loads.
LEMMA OperationIsOne ==
  ASSUME IInv, Operation
  PROVE  \/ Answer("ok") \/ Answer("error")
         \/ \E d \in Document : Valid(d) /\ CommitChange(d)
  <1>1. document \in Document /\ Valid(document)
    BY DEF IInv, Kinds, TypeOK, EverythingLoads
  <1> QED
    BY <1>1, ChangesKeepDocuments DEF Operation, SaveProfile, Activate, DeleteProfile, Record

\* replace_file: the temporary file is created, filled, renamed and committed, or not.
LEMMA WriteHolds ==
  ASSUME IInv, CreateTemporary \/ WriteTemporary \/ Rename \/ Committed \/ CommitFails, UNCHANGED faults
  PROVE  IInv'
  <1> USE DEF IInv, ghosts
  <1>1. CASE CreateTemporary
    <2> USE <1>1 DEF CreateTemporary
    <2>1. Kinds'
      BY DEF Kinds, TypeOK
    <2>2. EverythingLoads'
      BY DEF EverythingLoads
    <2>3. Ready' /\ MemoryRests'
      BY DEF Ready, MemoryRests, Rests
    <2>4. StartIsOwed'
      BY DEF StartIsOwed, Owed
    <2>5. UnusableStays' /\ RunsOnTrusted'
      BY DEF UnusableStays, RunsOnTrusted
    <2> QED
      BY <2>1, <2>2, <2>3, <2>4, <2>5
  <1>2. CASE WriteTemporary
    <2> USE <1>2 DEF WriteTemporary
    <2>1. Kinds'
      BY DEF Kinds, TypeOK
    <2>2. EverythingLoads'
      BY DEF EverythingLoads
    <2>3. Ready' /\ MemoryRests'
      BY DEF Ready, MemoryRests, Rests
    <2>4. StartIsOwed'
      BY DEF StartIsOwed, Owed
    <2>5. UnusableStays' /\ RunsOnTrusted'
      BY DEF UnusableStays, RunsOnTrusted
    <2> QED
      BY <2>1, <2>2, <2>3, <2>4, <2>5
  <1>3. CASE Rename
    <2> USE <1>3 DEF Rename
    <2>1. file' = document /\ document \in Document
      BY DEF Ready, Kinds, TypeOK
    <2>2. Kinds'
      BY <2>1 DEF Kinds, TypeOK
    <2>3. EverythingLoads'
      BY <2>1 DEF EverythingLoads, Loads
    <2>4. Ready' /\ MemoryRests'
      BY <2>1 DEF Ready, MemoryRests
    <2>5. StartIsOwed'
      BY DEF StartIsOwed, Owed
    <2>6. UnusableStays' /\ RunsOnTrusted'
      BY <2>1 DEF UnusableStays, RunsOnTrusted, Kept
    <2> QED
      BY <2>2, <2>3, <2>4, <2>5, <2>6
  <1>4. CASE Committed
    <2> USE <1>4 DEF Committed
    <2>1. file = document /\ document \in Document /\ (durable' = <<file, aside>> \/ durable' = durable)
      BY DEF MemoryRests, Kinds, TypeOK
    <2>2. Kinds'
      BY <2>1 DEF Kinds, TypeOK, File
    <2>3. EverythingLoads'
      BY <2>1 DEF EverythingLoads, Loads
    <2>4. Ready' /\ MemoryRests'
      BY <2>1 DEF Ready, MemoryRests, Rests
    <2>5. StartIsOwed'
      <3>1. SyncsWherePowerFails /\ "power" \in faults => durable' = <<file, aside>>
        BY DEF SyncsWherePowerFails, Kinds
      <3> QED
        BY <2>1, <3>1 DEF StartIsOwed, Owed
    <2>6. UnusableStays' /\ RunsOnTrusted'
      BY <2>1 DEF UnusableStays, RunsOnTrusted, Kept
    <2> QED
      BY <2>2, <2>3, <2>4, <2>5, <2>6
  <1>5. CASE CommitFails
    <2> USE <1>5 DEF CommitFails
    <2>1. Kinds'
      BY DEF Kinds, TypeOK
    <2>2. EverythingLoads'
      BY DEF EverythingLoads
    <2>3. Ready' /\ MemoryRests'
      BY DEF Ready, MemoryRests, Rests
    <2>4. StartIsOwed'
      BY DEF StartIsOwed, Owed
    <2>5. UnusableStays' /\ RunsOnTrusted'
      BY DEF UnusableStays, RunsOnTrusted
    <2> QED
      BY <2>1, <2>2, <2>3, <2>4, <2>5
  <1> QED
    BY <1>1, <1>2, <1>3, <1>4, <1>5

\* The process dies: a file that a cut commit may or may not have left is owed too.
LEMMA StopHolds ==
  ASSUME IInv, Crash \/ PowerLoss, UNCHANGED faults
  PROVE  IInv'
  <1>1. /\ stage' = "down" /\ owed \subseteq owed' /\ owed' \subseteq Document
        /\ stage = "sync" => document \in owed'
        /\ UNCHANGED <<document, previous, state, reply, found>>
        /\ temp' \in {temp, Missing}
    BY DEF IInv, Kinds, TypeOK, Crash, PowerLoss, Down, disk
  <1>2. \/ UNCHANGED <<file, aside, durable>>
        \/ file' = file /\ aside' = aside /\ durable' = <<file, aside>>
        \/ "power" \in faults /\ file' = durable[1] /\ aside' = durable[2] /\ durable' = durable
    BY DEF Crash, PowerLoss, disk
  <1>3. Kinds'
    BY <1>1, <1>2 DEF IInv, Kinds, TypeOK, File
  <1>4. EverythingLoads'
    BY <1>1, <1>2 DEF IInv, EverythingLoads
  <1>5. Ready' /\ MemoryRests' /\ RunsOnTrusted'
    BY <1>1 DEF Ready, MemoryRests, RunsOnTrusted
  <1>6. StartIsOwed'
    <2>1. SyncsWherePowerFails => Owed(file)'
      BY <1>1, <1>2 DEF IInv, Kinds, TypeOK, StartIsOwed, MemoryRests, Owed
    <2>2. SyncsWherePowerFails => ("power" \in faults => Owed(durable[1]))'
      BY <1>1, <1>2, <2>1 DEF IInv, StartIsOwed, Owed
    <2> QED
      BY <1>1, <2>1, <2>2 DEF StartIsOwed
  <1>7. UnusableStays'
    BY <1>1, <1>2 DEF IInv, UnusableStays
  <1> QED
    BY <1>3, <1>4, <1>5, <1>6, <1>7 DEF IInv

\* Nothing happens.
LEMMA StutterHolds == IInv /\ UNCHANGED vars => IInv'
  BY DEF vars, disk, memory, ghosts, IInv, Kinds, TypeOK, EverythingLoads, Ready, MemoryRests, Rests,
         StartIsOwed, Owed, UnusableStays, RunsOnTrusted

\* Every step keeps the store and its memory together.
LEMMA StepHolds == IInv /\ [Next]_vars => IInv'
  <1> SUFFICES ASSUME IInv, Step, UNCHANGED faults PROVE IInv'
    BY StutterHolds DEF Next
  <1>1. CASE Operation
    BY <1>1, OperationIsOne, AnswerHolds, ChangeHolds
  <1>2. CASE LoadDocument \/ LoadMissing \/ LoadRecovered
    BY <1>2, LoadHolds
  <1>3. CASE CreateTemporary \/ WriteTemporary \/ Rename \/ Committed \/ CommitFails
    BY <1>3, WriteHolds
  <1>4. CASE Crash \/ PowerLoss
    BY <1>4, StopHolds
  <1> QED
    BY <1>1, <1>2, <1>3, <1>4 DEF Step

\* The invariant of the file, what a power loss would leave of it, and memory: each
\* loads, and what a start would make of it is owed to whoever was told a save is done.
THEOREM Inductive == Spec => []IInv
  BY InitHolds, StepHolds, PTL DEF Spec

-----------------------------------------------------------------------------
(* What the invariant is for.                                              *)

\* Whatever interrupts a commit, the next start loads what is left (write_atomically).
THEOREM CrashesLeaveLoadable == Spec => []LoadableAfterCrash
  <1>1. IInv => LoadableAfterCrash
    BY DEF IInv, EverythingLoads, Loads, LoadableAfterCrash
  <1> QED
    BY Inductive, <1>1, PTL

\* Memory at rest is the file, an acknowledged save outlives every crash, and an
\* unusable file that could be set aside is still there (commit_change, load).
THEOREM NothingGetsLost == ASSUME SyncsWherePowerFails PROVE Spec => []NothingIsLost
  <1>1. IInv => NothingIsLost
    BY DEF IInv, Kinds, MemoryRests, Rests, StartIsOwed, UnusableStays, Kept, NothingIsLost,
           MemoryIsDisk, NoSaveIsLost, UnusableIsKept
  <1> QED
    BY Inductive, <1>1, PTL

-----------------------------------------------------------------------------
(* The configuration is a DocumentStore.                                   *)

\* The instance's documents are the documents.
LEMMA SameDocuments ==
  /\ Store!DefaultDocument = DefaultDocument /\ Store!Document = Document
  /\ \A d : Store!Valid(d) <=> Valid(d)
  <1>1. Store!Slot = Slot
    BY DEF Store!Slot, Slot
  <1>2. Store!EmptySession = EmptySession /\ Store!Session = Session
    BY <1>1 DEF Store!EmptySession, EmptySession, Store!Session, Session
  <1>3. Store!Profile = Profile
    BY <1>1 DEF Store!Profile, Profile
  <1>4. Store!DefaultDocument = DefaultDocument
    BY <1>2 DEF Store!DefaultDocument, DefaultDocument
  <1>5. Store!Document = Document
    BY <1>2, <1>3 DEF Store!Document, Document
  <1>6. \A d : Store!Valid(d) <=> Valid(d)
    BY DEF Store!Valid, Valid
  <1> QED
    BY <1>4, <1>5, <1>6

\* The first state of the file is a first state of the store.
LEMMA StoreStarts == Init => Store!StoreInit
  BY SameDocuments, DefaultDocumentType, DefaultDocumentLoads DEF Init, Store!StoreInit

\* Starting opens the store, the rename changes it, dying closes it, and every other
\* step leaves it alone.
LEMMA StoreSteps == ASSUME IInv, Step, "power" \notin faults PROVE [Store!StoreNext]_(Store!store)
  <1> USE SameDocuments DEF Store!store, Store!StoreNext, IInv
  <1>1. CASE LoadDocument \/ LoadMissing \/ LoadRecovered
    <2>1. Store!Open
      BY <1>1 DEF Store!Open, LoadDocument, LoadMissing, LoadRecovered, Start, Preserve
    <2> QED
      BY <2>1
  <1>2. CASE Operation
    <2>1. UNCHANGED <<file, aside>>
      BY <1>2, OperationIsOne DEF Answer, CommitChange, disk
    <2> QED
      BY <1>2, <2>1, OperationIsOne DEF Answer, CommitChange
  <1>3. CASE CreateTemporary \/ WriteTemporary \/ Committed \/ CommitFails
    BY <1>3 DEF CreateTemporary, WriteTemporary, Committed, CommitFails
  <1>4. CASE Rename
    <2>1. file' = document /\ document \in Document /\ Valid(document)
      BY <1>4 DEF Rename, Ready, Kinds, TypeOK, EverythingLoads
    <2>2. Store!Change
      BY <1>4, <2>1 DEF Store!Change, Rename
    <2> QED
      BY <2>2
  <1>5. CASE Crash
    <2>1. Store!Die
      BY <1>5 DEF Store!Die, Crash, Down, disk
    <2> QED
      BY <2>1
  <1> QED
    BY <1>1, <1>2, <1>3, <1>4, <1>5 DEF Step, PowerLoss

\* On a machine that keeps its power the document is on disk and in memory as one,
\* although memory is changed first and the file in four system calls (commit_change).
THEOREM ConfigurationImplementsStore == Spec => ImplementsStore
  <1>1. Init => ("power" \notin faults => Store!StoreInit)
    BY StoreStarts
  <1>2. IInv /\ [Next]_vars => [("power" \notin faults) => [Store!StoreNext]_(Store!store)]_vars
    BY StoreSteps DEF Next
  <1> QED
    BY Inductive, <1>1, <1>2, PTL DEF Spec, ImplementsStore
=============================================================================
