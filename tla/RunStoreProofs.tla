--------------------------- MODULE RunStoreProofs ---------------------------
(***************************************************************************)
(* Proofs about RunStore and RunReaders, for any runs, any versions of     *)
(* them and any number of questions.                                       *)
(***************************************************************************)
EXTENDS RunReaders, TLAPS

\* The inductive invariant: how far saves, deletes and pins have come, with the types.
SInv == TypeOK /\ StoreInv

\* The windows inserted so far, with the next one.
LEMMA OneMoreWindow ==
    ASSUME NEW v, NEW n \in Nat \ {0}
    PROVE  ({v} \X (1..(n - 1))) \cup {<<v, n>>} = {v} \X (1..n)
<1>1. 1..n = (1..(n - 1)) \cup {n}
  OBVIOUS
<1>2. ASSUME NEW p \in {v} \X (1..n) PROVE p \in ({v} \X (1..(n - 1))) \cup {<<v, n>>}
  BY <1>1
<1>3. ASSUME NEW p \in ({v} \X (1..(n - 1))) \cup {<<v, n>>} PROVE p \in {v} \X (1..n)
  BY <1>1
<1>4. QED
  BY <1>2, <1>3

\* A save that goes on to another phase, version or position is a save.
LEMMA SaveGoesOn ==
    ASSUME NEW s \in Saves, NEW phase \in Phases
    PROVE  /\ \A v \in Versions : [s EXCEPT !.phase = phase, !.version = v] \in Saves
           /\ \A n \in 1..(NQuestions + 1) : [s EXCEPT !.phase = phase, !.next = n] \in Saves
  BY DEF Saves

\* An empty store.
LEMMA InitSInv == Init => SInv
<1> SUFFICES ASSUME Init PROVE SInv
  OBVIOUS
<1>1. TypeOK
  BY QuestionsAssumption DEF QuestionsAssumption, Init, TypeOK, IdleSaver, NoDelete, Saves, Phases
<1>2. StoreInv
  BY DEF Init, StoreInv, SaveIsOnCourse, CleanMeansWhole, FileSurvivesTheDatabase,
         DeletedRunStaysGone, DeleteIsOnCourse, PinIsOnCourse, BaselineDanglesOnlyByDelete,
         IdleSaver, NoDelete
<1> QED
  BY <1>1, <1>2 DEF SInv

\* Every call keeps the types; the loop over the windows stays within the questions.
LEMMA StoreTypeStep == SInv /\ [Next]_vars => TypeOK'
<1> SUFFICES ASSUME SInv, [Next]_vars PROVE TypeOK'
  OBVIOUS
<1> USE QuestionsAssumption DEF QuestionsAssumption, SInv, TypeOK, stores, clients, histories
<1>1. ASSUME NEW r \in Runs, NEW s \in Saves, saver' = [saver EXCEPT ![r] = s]
      PROVE  saver' \in [Runs -> Saves]
  BY <1>1
<1>2. ASSUME NEW r \in Runs, NEW v \in Versions, BeginSave(r, v) PROVE TypeOK'
  <2>1. saver' \in [Runs -> Saves]
    <3>1. [IdleSaver EXCEPT !.phase = "upsert", !.version = v] \in Saves
      <4>1. IdleSaver \in Saves /\ "upsert" \in Phases
        BY DEF IdleSaver, Saves, Phases
      <4>2. QED
        BY <4>1, SaveGoesOn
    <3>2. saver' = [saver EXCEPT ![r] = [IdleSaver EXCEPT !.phase = "upsert", !.version = v]]
      BY <1>2 DEF BeginSave
    <3>3. QED
      BY <1>1, <3>1, <3>2
  <2>2. /\ deleter' \in [phase : {"idle", "file"}, run : Runs \cup {None}, up : BOOLEAN,
                         quiet : BOOLEAN]
        /\ written' \in [Runs -> SUBSET Versions]
    BY <1>2 DEF BeginSave
  <2>3. QED
    BY <1>2, <2>1, <2>2 DEF BeginSave
<1>3. ASSUME NEW r \in Runs, Goes(r, "drop") \/ Goes(r, "insert") \/ Goes(r, "file") \/ Refused(r)
      PROVE  saver' \in [Runs -> Saves]
  <2>1. saver[r] \in Saves
    OBVIOUS
  <2>2. /\ \A phase \in Phases : [saver[r] EXCEPT !.phase = phase] \in Saves
        /\ [saver[r] EXCEPT !.phase = "file", !.sound = FALSE] \in Saves
    BY <2>1 DEF Saves, Phases
  <2>3. QED
    BY <1>3, <2>2 DEF Goes, Refused, Phases
<1>4. ASSUME NEW r \in Runs, Upsert(r) \/ DropWindows(r) PROVE TypeOK'
  <2>1. saver' \in [Runs -> Saves]
    BY <1>3, <1>4 DEF Upsert, DropWindows
  <2>2. doc' \in [Runs -> Versions \cup {None}]
    BY <1>4 DEF Upsert, DropWindows, Saves
  <2>3. windows' \in [Runs -> SUBSET (Versions \X Positions)]
    BY <1>4 DEF Upsert, DropWindows
  <2>4. QED
    BY <1>4, <2>1, <2>2, <2>3 DEF Upsert, DropWindows
<1>5. ASSUME NEW r \in Runs, InsertWindow(r) PROVE TypeOK'
  <2>1. saver[r].phase = "insert" /\ saver[r].version \in Versions
          /\ saver[r].next \in 1..NQuestions
    BY <1>5 DEF InsertWindow, StoreInv, SaveIsOnCourse, Saves
  <2>2. windows' \in [Runs -> SUBSET (Versions \X Positions)]
    <3>1. <<saver[r].version, saver[r].next>> \in Versions \X Positions
      BY <2>1 DEF Positions
    <3>2. windows[r] \cup {<<saver[r].version, saver[r].next>>} \in SUBSET (Versions \X Positions)
      BY <3>1
    <3>3. QED
      BY <1>5, <3>2 DEF InsertWindow
  <2>3. saver' \in [Runs -> Saves]
    <3>1. CASE Refused(r)
      BY <1>3, <3>1
    <3>2. CASE ~Refused(r)
      <4>1. PICK phase \in {"file", "insert"} :
               saver' = [saver EXCEPT ![r].phase = phase, ![r].next = saver[r].next + 1]
        BY <1>5, <3>2 DEF InsertWindow
      <4>2. [saver[r] EXCEPT !.phase = phase, !.next = saver[r].next + 1] \in Saves
        <5>1. saver[r] \in Saves /\ phase \in Phases
          BY DEF Phases
        <5>2. saver[r].next + 1 \in 1..(NQuestions + 1)
          BY <2>1
        <5>3. QED
          BY <5>1, <5>2, SaveGoesOn
      <4>3. QED
        BY <4>1, <4>2
    <3>3. QED
      BY <3>1, <3>2
  <2>4. QED
    BY <1>5, <2>2, <2>3 DEF InsertWindow
<1>6. ASSUME NEW r \in Runs, WriteFile(r) PROVE TypeOK'
  <2>1. saver[r].version \in Versions
    BY <1>6 DEF WriteFile, StoreInv, SaveIsOnCourse
  <2>2. IdleSaver \in Saves
    BY DEF IdleSaver, Saves, Phases
  <2>3. QED
    BY <1>6, <2>1, <2>2 DEF WriteFile
<1>7. ASSUME NEW r \in Runs, SaverDies(r) PROVE TypeOK'
  BY <1>7 DEF SaverDies, IdleSaver, Saves, Phases
<1>8. ASSUME NEW r \in Runs, DeleteDocument(r) PROVE TypeOK'
  BY <1>8 DEF DeleteDocument, Saving
<1>9. CASE DeleteFile
  BY <1>9 DEF DeleteFile, NoDelete, StoreInv, DeleteIsOnCourse
<1>10. CASE (\E r \in Runs : CheckPin(r)) \/ WritePin \/ Unpin
  BY <1>10 DEF CheckPin, WritePin, Unpin
<1>11. CASE UNCHANGED vars
  BY <1>11 DEF vars
<1>12. QED
  BY <1>2, <1>4, <1>5, <1>6, <1>7, <1>8, <1>9, <1>10, <1>11 DEF Next, SaveStep

\* What one call of a save does to the run it is for, and that it leaves the others alone.
LEMMA SaveStepInv == SInv /\ TypeOK' /\ (\E r \in Runs : SaveStep(r) \/ SaverDies(r)) => StoreInv'
<1> SUFFICES ASSUME SInv, TypeOK', NEW r \in Runs, SaveStep(r) \/ SaverDies(r) PROVE StoreInv'
  OBVIOUS
<1> USE QuestionsAssumption, MarksAssumption DEF QuestionsAssumption, MarksAssumption
<1>1. /\ UNCHANGED <<clients, written, gone, touched>>
      /\ saver' = [saver EXCEPT ![r] = saver'[r]]
      /\ Saving(r)
      /\ \A q \in Runs : q # r =>
            /\ doc'[q] = doc[q] /\ windows'[q] = windows[q] /\ file'[q] = file[q]
            /\ saver'[q] = saver[q] /\ kept'[q] = kept[q] /\ (q \in clean' <=> q \in clean)
  BY DEF SaveStep, Upsert, DropWindows, InsertWindow, WriteFile, SaverDies, Refused, Goes, Saving,
         SInv, TypeOK, stores, clients, histories
<1>2. saver[r].version \in Versions /\ r \notin clean \cup gone
  BY <1>1 DEF SInv, StoreInv, SaveIsOnCourse, Saving
<1>3. SaveIsOnCourse(r)' /\ CleanMeansWhole(r)'
  <2>1. CASE Upsert(r)
    <3> USE <2>1, <1>2 DEF Upsert, SInv, TypeOK, StoreInv, Saves, clients, histories
    <3>1. CASE Refused(r)
      BY <3>1 DEF Refused, SaveIsOnCourse, CleanMeansWhole
    <3>2. CASE Goes(r, "drop") /\ doc' = [doc EXCEPT ![r] = saver[r].version]
      BY <3>2 DEF Goes, SaveIsOnCourse, CleanMeansWhole, HoldsDoc
    <3>3. QED
      BY <3>1, <3>2
  <2>2. CASE DropWindows(r)
    <3> USE <2>2, <1>2 DEF DropWindows, SInv, TypeOK, StoreInv, Saves, clients, histories
    <3>1. saver[r].phase = "drop" /\ saver[r].next = 1 /\ (saver[r].sound => HoldsDoc(r))
      BY DEF SaveIsOnCourse
    <3>2. CASE Refused(r)
      BY <3>1, <3>2 DEF Refused, SaveIsOnCourse, CleanMeansWhole
    <3>3. CASE Goes(r, "file") /\ NQuestions = 0 /\ windows' = [windows EXCEPT ![r] = {}]
      BY <3>1, <3>3 DEF Goes, SaveIsOnCourse, CleanMeansWhole, HoldsDoc, WindowsOf, Positions
    <3>4. CASE Goes(r, "insert") /\ NQuestions # 0 /\ windows' = [windows EXCEPT ![r] = {}]
      BY <3>1, <3>4 DEF Goes, SaveIsOnCourse, CleanMeansWhole, HoldsDoc
    <3>5. QED
      BY <3>2, <3>3, <3>4
  <2>3. CASE InsertWindow(r)
    <3> USE <2>3, <1>2 DEF InsertWindow, SInv, TypeOK, StoreInv, Saves, clients, histories
    <3> DEFINE n == saver[r].next
    <3>1. /\ saver[r].phase = "insert" /\ n \in 1..NQuestions
          /\ saver[r].sound => HoldsDoc(r) /\ windows[r] = {saver[r].version} \X (1..(n - 1))
      BY DEF SaveIsOnCourse
    <3>2. CASE Refused(r)
      BY <3>1, <3>2 DEF Refused, SaveIsOnCourse, CleanMeansWhole
    <3>3. CASE ~Refused(r)
      <4>1. saver[r].sound => windows'[r] = {saver[r].version} \X (1..n)
        <5>1. windows'[r] = windows[r] \cup {<<saver[r].version, n>>}
          BY <3>3
        <5>2. n \in Nat \ {0}
          BY <3>1
        <5>3. saver[r].sound => windows[r] = {saver[r].version} \X (1..(n - 1))
          BY <3>1
        <5>4. ({saver[r].version} \X (1..(n - 1))) \cup {<<saver[r].version, n>>}
                = {saver[r].version} \X (1..n)
          BY <5>2, OneMoreWindow, SMTT(30)
        <5>5. QED
          BY <5>1, <5>3, <5>4, Zenon
      <4>2. /\ saver'[r].phase = (IF n = NQuestions THEN "file" ELSE "insert")
            /\ saver'[r].next = n + 1
            /\ saver'[r].version = saver[r].version
            /\ saver'[r].sound = saver[r].sound
        BY <3>3
      <4>3. saver'[r].sound => HoldsDoc(r)'
        BY <3>1, <4>2 DEF HoldsDoc
      <4>4. n = NQuestions /\ saver[r].sound => windows'[r] = WindowsOf(saver[r].version)
        BY <4>1 DEF WindowsOf, Positions
      <4>5. n # NQuestions => n + 1 <= NQuestions /\ (n + 1) - 1 = n
        BY <3>1
      <4>6. r \notin clean' \cup gone'
        OBVIOUS
      <4>7. CleanMeansWhole(r)'
        BY <4>6 DEF CleanMeansWhole
      <4>8. SaveIsOnCourse(r)'
        BY <4>1, <4>2, <4>3, <4>4, <4>5, <4>6 DEF SaveIsOnCourse
      <4>9. QED
        BY <4>7, <4>8
    <3>4. QED
      BY <3>2, <3>3
  <2>4. CASE WriteFile(r)
    BY <2>4, <1>2 DEF WriteFile, IdleSaver, SaveIsOnCourse, CleanMeansWhole, HoldsDoc, SInv,
                     TypeOK, StoreInv, clients, histories
  <2>5. CASE SaverDies(r)
    BY <2>5, <1>2 DEF SaverDies, IdleSaver, SaveIsOnCourse, CleanMeansWhole, HoldsDoc, SInv,
                     TypeOK, StoreInv, clients, histories
  <2>6. QED
    BY <2>1, <2>2, <2>3, <2>4, <2>5 DEF SaveStep
<1>4. \A q \in Runs : SaveIsOnCourse(q)' /\ CleanMeansWhole(q)'
  BY <1>1, <1>3 DEF SInv, StoreInv, SaveIsOnCourse, CleanMeansWhole, HoldsDoc
<1>5. FileSurvivesTheDatabase'
  BY <1>1, <1>2 DEF SInv, TypeOK, StoreInv, FileSurvivesTheDatabase, SaveStep, Upsert, DropWindows,
     InsertWindow, WriteFile, SaverDies, clients, histories
<1>6. DeletedRunStaysGone'
  BY <1>1, <1>2 DEF SInv, StoreInv, DeletedRunStaysGone, TypeOK
<1>7. DeleteIsOnCourse'
  BY <1>1 DEF SInv, StoreInv, DeleteIsOnCourse, clients, Saving
<1>8. doc'[r] \in {doc[r], saver[r].version} /\ file'[r] \in {file[r], saver[r].version, Torn}
  BY DEF SInv, TypeOK, SaveStep, Upsert, DropWindows, InsertWindow, WriteFile, SaverDies
<1>9. PinIsOnCourse' /\ BaselineDanglesOnlyByDelete'
  BY <1>1, <1>2, <1>8 DEF SInv, TypeOK, StoreInv, PinIsOnCourse, BaselineDanglesOnlyByDelete,
     RunExists, clients
<1>10. QED
  BY <1>4, <1>5, <1>6, <1>7, <1>9 DEF StoreInv

\* A save that begins takes the run out of what earlier saves and deletes had established.
LEMMA BeginSaveInv ==
    ASSUME SInv, NEW r \in Runs, NEW v \in Versions, BeginSave(r, v)
    PROVE  StoreInv'
<1> USE DEF SInv, TypeOK, BeginSave, IdleSaver, stores
<1>1. \A q \in Runs : SaveIsOnCourse(q)' /\ CleanMeansWhole(q)'
  BY DEF StoreInv, SaveIsOnCourse, CleanMeansWhole, HoldsDoc
<1>2. FileSurvivesTheDatabase' /\ DeletedRunStaysGone'
  BY DEF StoreInv, FileSurvivesTheDatabase, DeletedRunStaysGone
<1>3. DeleteIsOnCourse'
  BY DEF StoreInv, DeleteIsOnCourse, Saving
<1>4. PinIsOnCourse' /\ BaselineDanglesOnlyByDelete'
  BY DEF StoreInv, PinIsOnCourse, BaselineDanglesOnlyByDelete, RunExists
<1>5. QED
  BY <1>1, <1>2, <1>3, <1>4 DEF StoreInv

\* The two halves of a delete, in whatever moment of a save they come.
LEMMA DeleteInv ==
    ASSUME SInv, (\E r \in Runs : DeleteDocument(r)) \/ DeleteFile
    PROVE  StoreInv'
<1> USE MarksAssumption DEF MarksAssumption, SInv, TypeOK
<1>1. ASSUME NEW r \in Runs, DeleteDocument(r) PROVE StoreInv'
  <2>1. \A q \in Runs : doc'[q] \in {doc[q], None}
    BY <1>1 DEF DeleteDocument
  <2>2. \A q \in Runs : SaveIsOnCourse(q)' /\ CleanMeansWhole(q)'
    BY <1>1, <2>1 DEF DeleteDocument, StoreInv, SaveIsOnCourse, CleanMeansWhole, HoldsDoc
  <2>3. FileSurvivesTheDatabase' /\ DeletedRunStaysGone'
    BY <1>1, <2>1 DEF DeleteDocument, StoreInv, FileSurvivesTheDatabase, DeletedRunStaysGone
  <2>4. DeleteIsOnCourse'
    <3>1. PICK up \in BOOLEAN :
            /\ deleter' = [phase |-> "file", run |-> r, up |-> up, quiet |-> ~Saving(r)]
            /\ doc' = IF up THEN [doc EXCEPT ![r] = None] ELSE doc
      BY <1>1 DEF DeleteDocument
    <3>2. /\ deleter'.run = r /\ r \in touched'
          /\ deleter'.up => doc'[r] = None
          /\ deleter'.quiet => ~Saving(r)
      BY <1>1, <3>1 DEF DeleteDocument
    <3>3. saver' = saver
      BY <1>1 DEF DeleteDocument
    <3>4. QED
      BY <3>2, <3>3 DEF DeleteIsOnCourse, Saving
  <2>5. PinIsOnCourse' /\ BaselineDanglesOnlyByDelete'
    BY <1>1 DEF DeleteDocument, StoreInv, PinIsOnCourse, BaselineDanglesOnlyByDelete, RunExists
  <2>6. QED
    BY <2>2, <2>3, <2>4, <2>5 DEF StoreInv
<1>2. ASSUME DeleteFile PROVE StoreInv'
  <2>1. deleter.run \in Runs \cap touched
    BY <1>2 DEF DeleteFile, StoreInv, DeleteIsOnCourse
  <2>2. \A q \in Runs : SaveIsOnCourse(q)' /\ CleanMeansWhole(q)'
    BY <1>2 DEF DeleteFile, StoreInv, SaveIsOnCourse, CleanMeansWhole, HoldsDoc,
                DeleteIsOnCourse, Saving
  <2>3. FileSurvivesTheDatabase' /\ DeletedRunStaysGone'
    BY <1>2, <2>1 DEF DeleteFile, StoreInv, FileSurvivesTheDatabase, DeletedRunStaysGone,
                      DeleteIsOnCourse
  <2>4. DeleteIsOnCourse'
    BY <1>2 DEF DeleteFile, NoDelete, DeleteIsOnCourse
  <2>5. PinIsOnCourse' /\ BaselineDanglesOnlyByDelete'
    BY <1>2, <2>1 DEF DeleteFile, StoreInv, PinIsOnCourse, BaselineDanglesOnlyByDelete,
                      RunExists
  <2>6. QED
    BY <2>2, <2>3, <2>4, <2>5 DEF StoreInv
<1>3. QED
  BY <1>1, <1>2

\* Pinning only ever names what was found.
LEMMA PinInv ==
    ASSUME SInv, (\E r \in Runs : CheckPin(r)) \/ WritePin \/ Unpin
    PROVE  StoreInv'
<1>1. UNCHANGED <<stores, saver, deleter, histories>>
  BY DEF CheckPin, WritePin, Unpin
<1>2. PinIsOnCourse' /\ BaselineDanglesOnlyByDelete'
  BY <1>1 DEF SInv, TypeOK, StoreInv, CheckPin, WritePin, Unpin, PinIsOnCourse,
     BaselineDanglesOnlyByDelete, RunExists, stores, histories
<1>3. QED
  BY <1>1, <1>2 DEF SInv, StoreInv, SaveIsOnCourse, CleanMeansWhole, HoldsDoc,
     FileSurvivesTheDatabase, DeletedRunStaysGone, DeleteIsOnCourse, Saving, stores, histories

LEMMA StoreStepInv == SInv /\ [Next]_vars => SInv'
<1> SUFFICES ASSUME SInv, [Next]_vars PROVE SInv'
  OBVIOUS
<1>1. TypeOK'
  BY StoreTypeStep
<1>2. CASE UNCHANGED vars
  BY <1>2 DEF vars, stores, clients, histories, SInv, TypeOK, StoreInv, SaveIsOnCourse, HoldsDoc,
     CleanMeansWhole, FileSurvivesTheDatabase, DeletedRunStaysGone, DeleteIsOnCourse, Saving,
     PinIsOnCourse, BaselineDanglesOnlyByDelete, RunExists
<1>3. CASE Next
  BY <1>1, <1>3, SaveStepInv, BeginSaveInv, DeleteInv, PinInv DEF Next, SInv
<1>4. QED
  BY <1>1, <1>2, <1>3 DEF SInv

\* The invariant holds whatever the database refuses and wherever a save dies.
THEOREM StoreInvariant == Spec => []SInv
  BY InitSInv, StoreStepInv, PTL DEF Spec

---------------------------------------------------------------------------
(* What the invariant is for *)

\* Types, and no window beyond the questions of a run.
THEOREM StoreTypeCorrect == Spec => []TypeOK
  BY StoreInvariant, PTL DEF SInv

LEMMA CleanIsWhole == SInv => CleanRunIsServedWhole
BY DEF SInv, TypeOK, StoreInv, CleanMeansWhole, CleanRunIsServedWhole

\* A cleanly written run that is still there is served with its own windows.
THEOREM CleanRunsAreWhole == Spec => []CleanRunIsServedWhole
  BY StoreInvariant, CleanIsWhole, PTL

\* The file holds what the last completed save was given.
THEOREM FilesSurvive == Spec => []FileSurvivesTheDatabase
  BY StoreInvariant, PTL DEF SInv, StoreInv

\* A run that was deleted with nobody saving it does not come back by itself.
THEOREM DeletesLast == Spec => []DeletedRunStaysGone
  BY StoreInvariant, PTL DEF SInv, StoreInv

\* Only a delete leaves the baseline naming a run that is not stored.
THEOREM BaselineIsStored == Spec => []BaselineDanglesOnlyByDelete
  BY StoreInvariant, PTL DEF SInv, StoreInv
---------------------------------------------------------------------------
(* The compaction and the readers beside it (RunReaders) *)

LEMMA CastIsTyped == cast \in Casts => cast.runs \subseteq Runs /\ cast.versions \subseteq Versions
BY CastsAssumption

LEMMA ReadersStartInStore == ReadersInit => SInv
<1> SUFFICES ASSUME ReadersInit PROVE SInv
  OBVIOUS
<1>1. PICK old \in SUBSET cast.runs :
        /\ doc = [r \in Runs |-> IF r \in old THEN Old ELSE None]
        /\ file = doc /\ kept = doc
        /\ written = [r \in Runs |-> IF r \in old THEN {Old} ELSE {}]
  BY DEF ReadersInit
<1>2. TypeOK
  BY <1>1, CastIsTyped, QuestionsAssumption, ReadersAssumption DEF ReadersInit, TypeOK, IdleSaver, NoDelete,
     Saves, Phases
<1>3. StoreInv
  BY <1>1 DEF ReadersInit, StoreInv, SaveIsOnCourse, CleanMeansWhole, FileSurvivesTheDatabase,
     DeletedRunStaysGone, DeleteIsOnCourse, PinIsOnCourse, BaselineDanglesOnlyByDelete,
     IdleSaver, NoDelete
<1>4. QED
  BY <1>2, <1>3 DEF SInv

\* The store moves as it does without readers.
LEMMA StoreStepIsAStep == cast \in Casts /\ StoreStep => Next
BY CastIsTyped DEF StoreStep, Next

\* A write of the compaction keeps what the store is to keep: it takes the run out of what
\* is known of its last save.
LEMMA AnotherWriteInv ==
    ASSUME SInv, NEW r \in Runs, AnotherWrites(r),
           \/ doc' = doc /\ UNCHANGED <<deleter, gone>>
           \/ /\ doc' = [doc EXCEPT ![r] = Old] /\ gone' = gone \ {r}
              /\ deleter' = IF deleter.run = r THEN [deleter EXCEPT !.quiet = FALSE] ELSE deleter,
           windows' \in [Runs -> SUBSET (Versions \X Positions)],
           \A q \in Runs \ {r} : windows'[q] = windows[q]
    PROVE  SInv'
<1> USE MarksAssumption, ReadersAssumption DEF MarksAssumption, SInv
<1>1. /\ UNCHANGED <<file, pinner, baseline, written, kept, touched>>
      /\ clean' = clean \ {r} /\ gone' \subseteq gone
  BY DEF AnotherWrites
<1>2. /\ saver' \in [Runs -> Saves]
      /\ \A q \in Runs : /\ saver'[q].phase = saver[q].phase /\ saver'[q].next = saver[q].next
                         /\ saver'[q].version = saver[q].version
                         /\ saver'[q].sound => saver[q].sound
                         /\ q # r => saver'[q] = saver[q]
      /\ Saving(r) => ~saver'[r].sound
  <2>1. saver \in [Runs -> Saves]
    BY DEF TypeOK
  <2>2. CASE Saving(r)
    <3>1. saver' = [saver EXCEPT ![r].sound = FALSE]
      BY <2>2 DEF AnotherWrites
    <3>2. saver[r] \in Saves /\ [saver[r] EXCEPT !.sound = FALSE] \in Saves
      BY <2>1 DEF Saves
    <3>3. /\ saver' \in [Runs -> Saves]
          /\ saver'[r] = [saver[r] EXCEPT !.sound = FALSE]
          /\ \A q \in Runs \ {r} : saver'[q] = saver[q]
      BY <2>1, <3>1, <3>2
    <3>4. QED
      BY <3>2, <3>3 DEF Saves
  <2>3. CASE ~Saving(r)
    <3>1. saver' = saver
      BY <2>3 DEF AnotherWrites
    <3>2. QED
      BY <2>1, <2>3, <3>1
  <2>4. QED
    BY <2>2, <2>3
<1>3. TypeOK'
  <2>1. doc' \in [Runs -> Versions \cup {None}]
    BY DEF TypeOK
  <2>2. deleter' \in [phase : {"idle", "file"}, run : Runs \cup {None}, up : BOOLEAN, quiet : BOOLEAN]
    <3>1. deleter \in [phase : {"idle", "file"}, run : Runs \cup {None}, up : BOOLEAN, quiet : BOOLEAN]
      BY DEF TypeOK
    <3>2. deleter' = deleter \/ deleter' = [deleter EXCEPT !.quiet = FALSE]
      OBVIOUS
    <3>3. QED
      BY <3>1, <3>2
  <2>3. clean' \subseteq Runs /\ gone' \subseteq Runs
    BY <1>1 DEF TypeOK
  <2>4. QED
    BY <1>1, <1>2, <2>1, <2>2, <2>3 DEF TypeOK
<1>4. \A q \in Runs : SaveIsOnCourse(q)'
  BY <1>1, <1>2 DEF StoreInv, SaveIsOnCourse, HoldsDoc, Saving, TypeOK
<1>5. \A q \in Runs : CleanMeansWhole(q)'
  BY <1>1 DEF StoreInv, CleanMeansWhole, TypeOK
<1>6. FileSurvivesTheDatabase' /\ DeletedRunStaysGone'
  BY <1>1 DEF StoreInv, FileSurvivesTheDatabase, DeletedRunStaysGone, TypeOK
<1>7. DeleteIsOnCourse'
  BY <1>1, <1>2 DEF StoreInv, DeleteIsOnCourse, Saving, TypeOK
<1>8. PinIsOnCourse' /\ BaselineDanglesOnlyByDelete'
  BY <1>1 DEF StoreInv, PinIsOnCourse, BaselineDanglesOnlyByDelete, RunExists, TypeOK
<1>9. QED
  BY <1>3, <1>4, <1>5, <1>6, <1>7, <1>8 DEF StoreInv

\* Between two runs the compaction holds none, and a run it has behind it, that nobody else
\* has written since, is the version it wrote with all its windows.
CompactInv ==
    /\ cast \in Casts
    /\ inside \subseteq Runs
    /\ DOMAIN doc = Runs /\ DOMAIN windows = Runs
    /\ DOMAIN tool = DOMAIN NoTool /\ tool.calm \subseteq Runs /\ tool.next \in Nat \ {0}
    /\ tool.phase = "next" => tool.run = None
    /\ tool.phase \in {"drop", "insert"} => tool.run \in Runs
    /\ tool.phase \in {"next", "drop", "insert"} =>
          \A r \in tool.calm \ (tool.list \cup {tool.run}) :
              doc[r] = Old /\ Served(r) = WindowsOf(Old)

LEMMA CompactInit == ReadersInit => CompactInv
BY CastIsTyped DEF ReadersInit, CompactInv, NoTool

\* A run a save or a delete changes is no longer counted as calm.
LEMMA StoreBesideCompaction == ASSUME CompactInv, StoreStep PROVE CompactInv'
<1>1. DOMAIN doc' = Runs /\ DOMAIN windows' = Runs
  BY DEF CompactInv, StoreStep, BeginSave, SaveStep, Upsert, DropWindows, InsertWindow, WriteFile,
     SaverDies, DeleteDocument, DeleteFile, CheckPin, WritePin, Unpin, stores
<1>2. PICK calm : calm = {r \in tool.calm : ~Changed(r)}
  OBVIOUS
<1>3. tool' = [tool EXCEPT !.calm = calm]
  BY <1>2 DEF StoreStep, Noticed
<1>4. /\ DOMAIN tool' = DOMAIN NoTool /\ tool'.phase = tool.phase /\ tool'.run = tool.run
      /\ tool'.list = tool.list /\ tool'.calm = calm
  BY <1>3 DEF CompactInv, NoTool
<1>5. calm \subseteq tool.calm /\ \A r \in calm : doc'[r] = doc[r] /\ windows'[r] = windows[r]
  BY <1>2 DEF Changed
<1>6. inside' = {r \in inside : doc'[r] = Old}
  BY DEF StoreStep
<1>7. \A r \in calm : doc[r] = Old => Served(r)' = Served(r)
  BY <1>5, <1>6 DEF Served
<1>8. tool'.next = tool.next /\ cast' = cast
  BY <1>3 DEF CompactInv, NoTool, StoreStep
<1>9. QED
  BY <1>1, <1>4, <1>5, <1>6, <1>7, <1>8 DEF CompactInv

\* What the compaction replaces it has in hand until it has read it back.
LEMMA CompactionGoesOn ==
    ASSUME CompactInv, CompactDrop \/ CompactInsert \/ CompactVerify \/ CompactDies
    PROVE  CompactInv'
<1>1. CASE CompactDrop \/ CompactInsert
  <2>1. PICK ws : windows' = [windows EXCEPT ![tool.run] = ws]
    BY <1>1 DEF CompactDrop, CompactInsert
  <2>2. UNCHANGED <<doc, inside, cast>> /\ tool.phase \in {"drop", "insert"}
    BY <1>1 DEF CompactDrop, CompactInsert, AnotherWrites
  <2>3. /\ DOMAIN tool' = DOMAIN NoTool /\ tool'.phase = "insert" /\ tool'.run = tool.run
        /\ tool'.list = tool.list /\ tool'.calm = tool.calm
        /\ tool'.next \in {tool.next, tool.next + 1}
    BY <1>1 DEF CompactDrop, CompactInsert, CompactInv, NoTool
  <2>4. \A r \in Runs \ {tool.run} : Served(r)' = Served(r) /\ doc'[r] = doc[r]
    BY <2>1, <2>2 DEF CompactInv, Served
  <2>5. QED
    BY <2>1, <2>2, <2>3, <2>4 DEF CompactInv
<1>2. CASE CompactVerify
  <2>1. PICK same \in BOOLEAN :
          /\ same => doc[tool.run] = Old /\ windows[tool.run] = WindowsOf(Old)
          /\ tool' = [tool EXCEPT !.phase = IF ~same THEN "stopped" ELSE "next", !.run = None]
    BY <1>2 DEF CompactVerify
  <2>2. UNCHANGED <<doc, windows, inside, cast>> /\ tool.phase = "insert"
    BY <1>2 DEF CompactVerify, vars, stores
  <2>3. /\ DOMAIN tool' = DOMAIN NoTool /\ tool'.run = None
        /\ tool'.phase = IF ~same THEN "stopped" ELSE "next"
        /\ tool'.list = tool.list /\ tool'.calm = tool.calm /\ tool'.next = tool.next
    BY <2>1 DEF CompactInv, NoTool
  <2>4. \A r \in Runs : Served(r)' = Served(r) /\ doc'[r] = doc[r]
    BY <2>2 DEF Served
  <2>5. same => Served(tool.run) = WindowsOf(Old)
    BY <2>1 DEF Served, Merged
  <2>6. QED
    BY <2>1, <2>2, <2>3, <2>4, <2>5 DEF CompactInv
<1>3. CASE CompactDies
  <2>1. UNCHANGED <<doc, windows, inside, cast>>
    BY <1>3 DEF CompactDies, vars, stores
  <2>2. DOMAIN tool' = DOMAIN NoTool /\ tool'.phase = "dead" /\ tool'.calm = tool.calm
        /\ tool'.next = tool.next
    BY <1>3 DEF CompactDies, CompactInv, NoTool
  <2>3. QED
    BY <2>1, <2>2 DEF CompactInv
<1>4. QED
  BY <1>1, <1>2, <1>3

LEMMA CompactionBegins ==
    ASSUME CompactInv, CompactList \/ \E r \in Runs : CompactUpsert(r)
    PROVE  CompactInv'
<1>1. CASE CompactList
  <2>1. UNCHANGED <<doc, windows, inside, cast>>
    BY <1>1 DEF CompactList, vars, stores
  <2>2. /\ DOMAIN tool' = DOMAIN NoTool /\ tool'.phase = "next" /\ tool'.run = None
        /\ tool'.list = inside /\ tool'.calm = inside /\ tool'.next = 1
    BY <1>1 DEF CompactList, NoTool
  <2>3. QED
    BY <2>1, <2>2 DEF CompactInv
<1>2. ASSUME NEW r \in Runs, CompactUpsert(r) PROVE CompactInv'
  <2>1. /\ tool.phase = "next" /\ doc' = [doc EXCEPT ![r] = Old]
        /\ inside' = inside \ {r} /\ windows' = windows /\ cast' = cast
    BY <1>2 DEF CompactUpsert, AnotherWrites
  <2>2. /\ DOMAIN tool' = DOMAIN NoTool /\ tool'.phase = "drop" /\ tool'.run = r
        /\ tool'.list = tool.list \ {r} /\ tool'.calm = tool.calm /\ tool'.next = 1
    BY <1>2 DEF CompactUpsert, CompactInv, NoTool
  <2>3. \A s \in Runs \ {r} : Served(s)' = Served(s) /\ doc'[s] = doc[s]
    BY <2>1 DEF CompactInv, Served
  <2>4. \A s \in tool.calm \ tool.list : doc[s] = Old /\ Served(s) = WindowsOf(Old)
    BY <2>1, MarksAssumption DEF CompactInv
  <2>5. QED
    BY <1>2, <2>1, <2>2, <2>3, <2>4 DEF CompactInv
<1>3. QED
  BY <1>1, <1>2

LEMMA OthersBesideCompaction ==
    ASSUME CompactInv, UNCHANGED <<doc, windows, cast, inside, tool>> PROVE CompactInv'
BY DEF CompactInv, Served

LEMMA CompactAlways == ReadersSpec => []CompactInv
<1>1. CompactInv /\ [ReadersNext]_allVars => CompactInv'
  <2> SUFFICES ASSUME CompactInv, [ReadersNext]_allVars PROVE CompactInv'
    OBVIOUS
  <2>1. CASE (\E r \in Runs : ReadDocument(r)) \/ ReadWindows \/ ListDocuments \/ ListCounts
             \/ ListFiles \/ ListRows \/ UNCHANGED allVars
    <3>1. UNCHANGED <<doc, windows, cast, inside, tool>>
      BY <2>1 DEF ReadDocument, ReadWindows, ListDocuments, ListCounts, ListFiles, ListRows,
         allVars, vars, stores
    <3>2. QED
      BY <3>1, OthersBesideCompaction
  <2>2. QED
    BY <2>1, StoreBesideCompaction, CompactionBegins, CompactionGoesOn DEF ReadersNext
<1>2. QED
  BY CompactInit, <1>1, PTL DEF ReadersSpec

\* A run the compaction has read back, and nobody else has written since, is served as it
\* was, while saves and deletes of other runs and of this one go on beside it
\* (tools/compact_run_storage.py, _compact).
THEOREM CompactedRunsAreWhole == ReadersSpec => []CompactedIsServedWhole
<1>1. CompactInv => CompactedIsServedWhole
  BY MarksAssumption DEF CompactInv, CompactedIsServedWhole
<1>2. QED
  BY CompactAlways, <1>1, PTL

Reads == [phase : {"idle", "windows"}, run : Runs \cup {None}, version : Versions \cup {None},
          own : BOOLEAN, calm : BOOLEAN, clean : BOOLEAN]

\* A read under way that nothing has disturbed holds a run whose windows are there.
ReadIsSound ==
    /\ reader \in Reads
    /\ reader.phase = "windows" => reader.run \in Runs /\ reader.version \in Versions
    /\ reader.phase = "windows" /\ reader.calm =>
          reader.own \/ windows[reader.run] = WindowsOf(reader.version)

ListIsTyped == DOMAIN listing = DOMAIN NoList /\ listing.docs \subseteq Runs \X Versions
               /\ listing.files \subseteq Runs

ReadInv == SInv /\ ReadIsSound /\ ListIsTyped /\ AnswersAreTyped /\ QuietReadIsWhole

LEMMA ReadInit == ReadersInit => ReadInv
<1> SUFFICES ASSUME ReadersInit PROVE ReadInv
  OBVIOUS
<1>1. reader = NoRead /\ answer = NoAnswer /\ listing = NoList /\ rows = {}
  BY DEF ReadersInit
<1>2. ReadIsSound /\ ListIsTyped /\ AnswersAreTyped /\ QuietReadIsWhole
  BY <1>1 DEF ReadIsSound, ListIsTyped, AnswersAreTyped, QuietReadIsWhole, NoRead, NoAnswer,
     NoList, Reads
<1>3. QED
  BY <1>2, ReadersStartInStore DEF ReadInv

\* A read hears of every write of its run.
LEMMA NoticedIsSound == ASSUME ReadIsSound, ReaderNotices PROVE ReadIsSound'
<1>1. reader \in Reads
  BY DEF ReadIsSound
<1>2. CASE reader.phase # "idle" /\ Changed(reader.run)
  <2>1. reader' = [reader EXCEPT !.calm = FALSE]
    BY <1>2 DEF ReaderNotices
  <2>2. /\ reader' \in Reads /\ ~reader'.calm /\ reader'.phase = reader.phase
        /\ reader'.run = reader.run /\ reader'.version = reader.version
    BY <1>1, <2>1 DEF Reads
  <2>3. QED
    BY <1>1, <2>2 DEF ReadIsSound
<1>3. CASE ~(reader.phase # "idle" /\ Changed(reader.run))
  <2>1. reader' = reader
    BY <1>3 DEF ReaderNotices
  <2>2. reader.phase = "windows" => windows'[reader.run] = windows[reader.run]
    BY <1>3 DEF Changed
  <2>3. QED
    BY <1>1, <2>1, <2>2 DEF ReadIsSound
<1>4. QED
  BY <1>2, <1>3

\* A save or a delete beside the readers.
LEMMA StoreBesideRead == ASSUME ReadInv, cast \in Casts, StoreStep PROVE ReadInv'
<1>1. SInv'
  BY StoreStepIsAStep, StoreStepInv DEF ReadInv
<1>2. ReadIsSound'
  BY NoticedIsSound DEF ReadInv, StoreStep, Noticed
<1>3. ListIsTyped'
  <2>1. PICK still : listing' = [listing EXCEPT !.steady = still]
    BY DEF StoreStep, Noticed
  <2>2. QED
    BY <2>1 DEF ReadInv, ListIsTyped, NoList
<1>4. answer' = answer /\ rows' = rows
  BY DEF StoreStep
<1>5. QED
  BY <1>1, <1>2, <1>3, <1>4 DEF ReadInv, AnswersAreTyped, QuietReadIsWhole

LEMMA DocumentIsRead == ASSUME ReadInv, NEW r \in Runs, ReadDocument(r) PROVE ReadInv'
<1> USE DEF ReadInv
<1>1. UNCHANGED <<vars, listing, rows>>
  BY DEF ReadDocument
<1>2. SInv' /\ ListIsTyped'
  BY <1>1, StoreStepInv DEF ListIsTyped
<1>3. CASE /\ doc[r] # None /\ answer' = answer
           /\ reader' = [phase |-> "windows", run |-> r, version |-> doc[r], own |-> r \in inside,
                         calm |-> r \in clean \cup inside, clean |-> r \in clean]
  <2>1. doc[r] \in Versions
    BY <1>3 DEF SInv, TypeOK
  <2>2. r \in clean => windows[r] = WindowsOf(doc[r])
    BY <1>3 DEF SInv, StoreInv, CleanMeansWhole
  <2>3. windows' = windows
    BY <1>1 DEF vars, stores
  <2>4. ReadIsSound'
    BY <1>3, <2>1, <2>2, <2>3 DEF ReadIsSound, Reads
  <2>5. QED
    BY <1>1, <1>2, <1>3, <2>4 DEF AnswersAreTyped, QuietReadIsWhole
<1>4. CASE answer' = FromFile(r) /\ reader' = reader
  <2>1. file[r] \in Versions \cup {None, Torn}
    BY DEF SInv, TypeOK
  <2>2. ~answer'.calm /\ answer'.version \in Versions \cup {None}
        /\ answer'.windows \subseteq Versions \X Positions
    BY <1>4, <2>1 DEF FromFile, Readable, WindowsOf
  <2>3. windows' = windows
    BY <1>1 DEF vars, stores
  <2>4. QED
    BY <1>1, <1>2, <1>4, <2>2, <2>3 DEF ReadIsSound, AnswersAreTyped, QuietReadIsWhole
<1>5. QED
  BY <1>3, <1>4 DEF ReadDocument

LEMMA WindowsAreRead == ASSUME ReadInv, ReadWindows PROVE ReadInv'
<1> USE DEF ReadInv
<1>1. UNCHANGED <<vars, listing, rows>> /\ reader' = NoRead
  BY DEF ReadWindows
<1>2. SInv' /\ ListIsTyped'
  BY <1>1, StoreStepInv DEF ListIsTyped
<1>3. ReadIsSound'
  BY <1>1 DEF ReadIsSound, NoRead, Reads
<1>4. PICK up \in BOOLEAN :
        /\ answer'.version = reader.version
        /\ answer'.calm = (reader.calm /\ (up \/ reader.own))
        /\ answer'.windows = Merged(reader.version, reader.own,
                                    IF up THEN windows[reader.run] ELSE {})
  BY DEF ReadWindows
<1>5. /\ reader.run \in Runs /\ reader.version \in Versions
      /\ reader.calm => reader.own \/ windows[reader.run] = WindowsOf(reader.version)
      /\ windows[reader.run] \subseteq Versions \X Positions
      /\ WindowsOf(reader.version) \subseteq Versions \X Positions
  BY DEF ReadWindows, ReadIsSound, SInv, TypeOK, WindowsOf
<1>6. /\ answer'.version \in Versions /\ answer'.windows \subseteq Versions \X Positions
      /\ answer'.calm => answer'.windows = WindowsOf(answer'.version)
  BY <1>4, <1>5 DEF Merged
<1>7. AnswersAreTyped' /\ QuietReadIsWhole'
  BY <1>1, <1>6, MarksAssumption DEF AnswersAreTyped, QuietReadIsWhole
<1>8. QED
  BY <1>2, <1>3, <1>7

\* What a list begins with.
LEMMA ListIsBegun ==
    ASSUME ListDocuments
    PROVE  \E found, docs, steady :
             /\ found \subseteq {r \in Runs : doc[r] # None}
             /\ docs = {<<r, doc[r]>> : r \in found}
             /\ steady = {r \in Runs : kept[r] # None /\ file[r] = kept[r] /\ deleter.run # r}
             /\ \E phase \in {"counts", "files"} :
                  listing' = [phase |-> phase, docs |-> docs, answered |-> FALSE,
                              steady |-> steady, files |-> {}, was |-> {}]
<1>1. PICK up \in BOOLEAN, phase \in {"counts", "files"} :
        LET found == IF up THEN {r \in Runs : doc[r] # None} ELSE {} IN
        listing' = [phase |-> phase, docs |-> {<<r, doc[r]>> : r \in found},
                    answered |-> FALSE,
                    steady |-> {r \in Runs : kept[r] # None /\ file[r] = kept[r]
                                             /\ deleter.run # r},
                    files |-> {}, was |-> {}]
  BY DEF ListDocuments
<1>2. PICK found : found = IF up THEN {r \in Runs : doc[r] # None} ELSE {}
  OBVIOUS
<1>3. PICK docs : docs = {<<r, doc[r]>> : r \in found}
  OBVIOUS
<1>4. PICK steady : steady = {r \in Runs : kept[r] # None /\ file[r] = kept[r]
                                         /\ deleter.run # r}
  OBVIOUS
<1>5. listing' = [phase |-> phase, docs |-> docs, answered |-> FALSE, steady |-> steady,
                  files |-> {}, was |-> {}]
  BY <1>1, <1>2, <1>3, <1>4
<1>6. found \subseteq {r \in Runs : doc[r] # None}
  BY <1>2
<1>7. QED
  BY <1>3, <1>4, <1>5, <1>6

\* The list goes on.
LEMMA ListIsMade ==
    ASSUME ReadInv, ListDocuments \/ ListCounts \/ ListFiles \/ ListRows PROVE ReadInv'
<1> USE DEF ReadInv
<1>1. UNCHANGED <<vars, reader, answer>>
  BY DEF ListDocuments, ListCounts, ListFiles, ListRows
<1>2. SInv' /\ windows' = windows
  BY <1>1, StoreStepInv DEF vars, stores
<1>3. ReadIsSound' /\ QuietReadIsWhole'
  BY <1>1, <1>2 DEF ReadIsSound, QuietReadIsWhole
<1>4. CASE ListDocuments
  <2>1. PICK found : /\ found \subseteq {r \in Runs : doc[r] # None}
                     /\ listing'.docs = {<<r, doc[r]>> : r \in found} /\ listing'.files = {}
                     /\ DOMAIN listing' = DOMAIN NoList
    <3>1. PICK found, docs, steady :
            /\ found \subseteq {r \in Runs : doc[r] # None}
            /\ docs = {<<r, doc[r]>> : r \in found}
            /\ \E phase \in {"counts", "files"} :
                 listing' = [phase |-> phase, docs |-> docs, answered |-> FALSE,
                             steady |-> steady, files |-> {}, was |-> {}]
      BY <1>4, ListIsBegun
    <3>2. DOMAIN listing' = DOMAIN NoList /\ listing'.docs = docs /\ listing'.files = {}
      BY <3>1 DEF NoList
    <3>3. QED
      BY <3>1, <3>2
  <2>2. \A r \in found : doc[r] \in Versions
    BY <2>1 DEF SInv, TypeOK
  <2>3. ListIsTyped'
    BY <2>1, <2>2 DEF ListIsTyped
  <2>4. rows' = rows
    BY <1>4 DEF ListDocuments
  <2>5. QED
    BY <1>1, <1>2, <1>3, <2>3, <2>4 DEF AnswersAreTyped
<1>5. CASE ListCounts \/ ListFiles
  <2>1. rows' = rows
    BY <1>5 DEF ListCounts, ListFiles
  <2>2. ListIsTyped'
    BY <1>5 DEF ListCounts, ListFiles, ListIsTyped, NoList, FilesBeside
  <2>3. QED
    BY <1>1, <1>2, <1>3, <2>1, <2>2 DEF AnswersAreTyped
<1>6. CASE ListRows
  <2>1. ListIsTyped'
    BY <1>6 DEF ListRows, ListIsTyped, NoList
  <2>2. \A row \in rows' : row.run \in Runs
    BY <1>6 DEF ListRows, ListIsTyped, Row
  <2>3. QED
    BY <1>1, <1>2, <1>3, <2>1, <2>2 DEF AnswersAreTyped
<1>7. QED
  BY <1>4, <1>5, <1>6

\* The compaction beside the readers.
LEMMA CompactionBesideRead ==
    ASSUME ReadInv, CompactInv,
           CompactList \/ (\E r \in Runs : CompactUpsert(r)) \/ CompactDrop \/ CompactInsert
           \/ CompactVerify \/ CompactDies
    PROVE  ReadInv'
<1> USE DEF ReadInv
<1>1. CASE CompactList \/ CompactVerify \/ CompactDies
  <2>1. UNCHANGED <<vars, readers>>
    BY <1>1 DEF CompactList, CompactVerify, CompactDies
  <2>2. SInv' /\ windows' = windows
    BY <2>1, StoreStepInv DEF vars, stores
  <2>3. QED
    BY <2>1, <2>2 DEF readers, ReadIsSound, ListIsTyped, AnswersAreTyped, QuietReadIsWhole
<1>2. ASSUME NEW r \in Runs, AnotherWrites(r), SInv' PROVE ReadInv'
  <2>1. ReadIsSound' /\ UNCHANGED <<answer, listing, rows>>
    BY <1>2, NoticedIsSound DEF AnotherWrites
  <2>2. QED
    BY <1>2, <2>1 DEF ListIsTyped, AnswersAreTyped, QuietReadIsWhole
<1>3. ASSUME NEW r \in Runs, CompactUpsert(r) PROVE ReadInv'
  <2>1. SInv'
    BY <1>3, AnotherWriteInv DEF CompactUpsert, SInv, TypeOK
  <2>2. QED
    BY <1>2, <1>3, <2>1 DEF CompactUpsert
<1>4. CASE CompactDrop \/ CompactInsert
  <2>1. PICK ws \in SUBSET (Versions \X Positions) : windows' = [windows EXCEPT ![tool.run] = ws]
    <3>1. CASE CompactDrop
      BY <3>1 DEF CompactDrop
    <3>2. CASE CompactInsert
      <4>1. <<Old, tool.next>> \in Versions \X Positions
        BY <3>2, ReadersAssumption, QuestionsAssumption
           DEF CompactInsert, LastWindow, Positions, CompactInv, QuestionsAssumption
      <4>2. windows[tool.run] \in SUBSET (Versions \X Positions)
        BY <3>2 DEF CompactInsert, CompactInv, SInv, TypeOK
      <4>3. windows' = [windows EXCEPT ![tool.run] = windows[tool.run] \cup {<<Old, tool.next>>}]
        BY <3>2 DEF CompactInsert
      <4>4. QED
        BY <4>1, <4>2, <4>3
    <3>3. QED
      BY <1>4, <3>1, <3>2
  <2>2. tool.run \in Runs /\ AnotherWrites(tool.run) /\ UNCHANGED <<doc, deleter, gone>>
    BY <1>4 DEF CompactDrop, CompactInsert, CompactInv
  <2>3. windows' \in [Runs -> SUBSET (Versions \X Positions)]
        /\ \A q \in Runs \ {tool.run} : windows'[q] = windows[q]
    BY <2>1 DEF SInv, TypeOK
  <2>4. SInv'
    BY <2>2, <2>3, AnotherWriteInv
  <2>5. QED
    BY <1>2, <2>2, <2>4
<1>5. QED
  BY <1>1, <1>3, <1>4

LEMMA ReadAlways == ReadersSpec => []ReadInv
<1>1. ReadInv /\ CompactInv /\ [ReadersNext]_allVars => ReadInv'
  <2> SUFFICES ASSUME ReadInv, CompactInv, [ReadersNext]_allVars PROVE ReadInv'
    OBVIOUS
  <2>1. CASE UNCHANGED allVars
    <3>1. UNCHANGED <<vars, reader, answer, listing, rows>>
      BY <2>1 DEF allVars, readers
    <3>2. SInv' /\ windows' = windows
      BY <3>1, StoreStepInv DEF ReadInv, vars, stores
    <3>3. QED
      BY <3>1, <3>2 DEF ReadInv, ReadIsSound, ListIsTyped, AnswersAreTyped, QuietReadIsWhole
  <2>2. cast \in Casts
    BY DEF CompactInv
  <2>3. QED
    BY <2>1, <2>2, StoreBesideRead, DocumentIsRead, WindowsAreRead, ListIsMade,
       CompactionBesideRead DEF ReadersNext
<1>2. QED
  BY ReadInit, CompactAlways, <1>1, PTL DEF ReadersSpec

\* What the store promises it keeps with readers and the compaction about: types, the windows
\* of a clean run, its file, what was deleted and what is pinned (_save, delete_experiment,
\* set_baseline beside tools/compact_run_storage.py).
THEOREM StoreKeepsItsWord ==
    ReadersSpec => [](/\ TypeOK /\ CleanRunIsServedWhole /\ FileSurvivesTheDatabase
                      /\ DeletedRunStaysGone /\ BaselineDanglesOnlyByDelete)
<1>1. ReadInv => /\ TypeOK /\ CleanRunIsServedWhole /\ FileSurvivesTheDatabase
                 /\ DeletedRunStaysGone /\ BaselineDanglesOnlyByDelete
  BY CleanIsWhole DEF ReadInv, SInv, StoreInv
<1>2. QED
  BY ReadAlways, <1>1, PTL

\* What a reader of one run gets (_get_one_result) is a version of that run and windows of it.
THEOREM ReadersAreAnswered == ReadersSpec => []AnswersAreTyped
  BY ReadAlways, PTL DEF ReadInv

\* A read that no write of its run overlaps gives the run with all its windows, however many
\* saves were refused half way, died or were deleted before it (_get_one_result, _save).
THEOREM QuietReadsAreWhole == ReadersSpec => []QuietReadIsWhole
  BY ReadAlways, PTL DEF ReadInv

\* How far a list has come with the runs whose files are there all along.
ListInv ==
    /\ DOMAIN listing = DOMAIN NoList
    /\ listing.steady \subseteq Runs
    /\ listing.phase \in {"counts", "files"} => \A r \in listing.steady : Readable(r)
    /\ listing.phase = "rows" => listing.steady \subseteq Listed(listing.docs) \cup listing.files
    /\ ListMissesNoKeptRun

LEMMA ListInit == ReadersInit => ListInv
<1> SUFFICES ASSUME ReadersInit PROVE ListInv
  OBVIOUS
<1>1. listing = NoList /\ rows = {}
  BY DEF ReadersInit
<1>2. QED
  BY <1>1 DEF ListInv, NoList, ListMissesNoKeptRun

\* A run that stays steady keeps its file, and a save or a delete writes no row.
LEMMA StoreBesideList == ASSUME ListInv, StoreStep PROVE ListInv'
<1>1. PICK still : still = {r \in listing.steady : file'[r] = file[r] /\ r \notin touched'}
  OBVIOUS
<1>2. listing' = [listing EXCEPT !.steady = still] /\ rows' = rows
  BY <1>1 DEF StoreStep, Noticed
<1>3. /\ DOMAIN listing' = DOMAIN NoList /\ listing'.steady = still
      /\ listing'.phase = listing.phase /\ listing'.docs = listing.docs
      /\ listing'.files = listing.files /\ listing'.was = listing.was
  BY <1>2 DEF ListInv, NoList
<1>4. still \subseteq listing.steady /\ \A r \in still : Readable(r) => Readable(r)'
  BY <1>1 DEF Readable
<1>5. QED
  BY <1>2, <1>3, <1>4 DEF ListInv, ListMissesNoKeptRun

\* A file that is what was kept can be read.
LEMMA ListBegins == ASSUME SInv, ListInv, ListDocuments PROVE ListInv'
<1>1. PICK docs, steady :
        /\ steady = {r \in Runs : kept[r] # None /\ file[r] = kept[r] /\ deleter.run # r}
        /\ \E phase \in {"counts", "files"} :
             listing' = [phase |-> phase, docs |-> docs, answered |-> FALSE,
                         steady |-> steady, files |-> {}, was |-> {}]
  BY ListIsBegun
<1>2. steady \subseteq Runs
  BY <1>1
<1>3. UNCHANGED <<vars, rows>>
  BY DEF ListDocuments
<1>4. \A r \in steady : Readable(r)
  BY <1>1, MarksAssumption DEF SInv, TypeOK, Readable
<1>5. \A r \in steady : Readable(r)'
  BY <1>3, <1>4 DEF Readable, vars, stores
<1>6. DOMAIN listing' = DOMAIN NoList /\ listing'.steady = steady
      /\ listing'.phase \in {"counts", "files"}
  BY <1>1 DEF NoList
<1>7. QED
  BY <1>2, <1>5, <1>6 DEF ListInv, ListMissesNoKeptRun

LEMMA ListGoesOn == ASSUME ListInv, ListCounts \/ ListFiles \/ ListRows PROVE ListInv'
<1>1. UNCHANGED vars
  BY DEF ListCounts, ListFiles, ListRows
<1>2. \A r \in Runs : Readable(r)' = Readable(r)
  BY <1>1 DEF Readable, vars, stores
<1>3. CASE ListCounts
  <2>1. PICK up \in BOOLEAN : listing' = [listing EXCEPT !.phase = "files", !.answered = up]
    BY <1>3 DEF ListCounts
  <2>2. DOMAIN listing' = DOMAIN NoList /\ listing'.steady = listing.steady
        /\ listing'.phase = "files"
    BY <2>1 DEF ListInv, NoList
  <2>3. QED
    BY <1>2, <1>3, <2>2 DEF ListInv, ListCounts, ListMissesNoKeptRun
<1>4. CASE ListFiles
  <2>1. PICK files : files = FilesBeside(listing.docs)
    OBVIOUS
  <2>2. /\ DOMAIN listing' = DOMAIN NoList /\ listing'.steady = listing.steady
        /\ listing'.phase = "rows" /\ listing'.docs = listing.docs
        /\ listing'.files = files
    BY <1>4, <2>1 DEF ListInv, NoList, ListFiles
  <2>3. listing.steady \subseteq Listed(listing.docs) \cup files
    BY <1>4, <2>1 DEF ListInv, ListFiles, FilesBeside
  <2>4. listing'.steady \subseteq Listed(listing'.docs) \cup listing'.files
    BY <2>2, <2>3
  <2>5. QED
    BY <1>2, <2>2, <2>4 DEF ListInv, ListMissesNoKeptRun
<1>5. CASE ListRows
  <2>1. DOMAIN listing' = DOMAIN NoList /\ listing'.phase = "idle"
        /\ listing'.steady = {} /\ listing'.was = listing.steady
    BY <1>5 DEF ListRows, NoList
  <2>2. \A r \in listing.files : \E row \in rows' : row.run = r
    <3>1. \A r \in listing.files : Row(r, "answered") \in rows'
      BY <1>5 DEF ListRows
    <3>2. QED
      BY <3>1 DEF Row
  <2>3. \A r \in Listed(listing.docs) : \E row \in rows' : row.run = r
    <3>1. \A d \in listing.docs : Row(d[1], Count(d)) \in rows'
      BY <1>5 DEF ListRows
    <3>2. \A d \in listing.docs : Row(d[1], Count(d)).run = d[1]
      BY DEF Row
    <3>3. QED
      BY <3>1, <3>2 DEF Listed
  <2>4. ListMissesNoKeptRun'
    BY <1>5, <2>1, <2>2, <2>3 DEF ListRows, ListInv, ListMissesNoKeptRun
  <2>5. QED
    BY <1>2, <2>1, <2>4 DEF ListInv
<1>6. QED
  BY <1>3, <1>4, <1>5

\* Neither a read of one run nor the compaction touches the files.
LEMMA OthersBesideList ==
    ASSUME ListInv, UNCHANGED <<file, listing, rows>> PROVE ListInv'
BY DEF ListInv, ListMissesNoKeptRun, Readable

\* A run whose file is there all along is in the list, whatever the database refuses, holds
\* or loses meanwhile (_get_summaries, list_experiments).
THEOREM ListsMissNoKeptRun == ReadersSpec => []ListMissesNoKeptRun
<1>1. ReadInv /\ ListInv /\ [ReadersNext]_allVars => ListInv'
  <2> SUFFICES ASSUME SInv, ListInv, [ReadersNext]_allVars PROVE ListInv'
    BY DEF ReadInv
  <2>1. CASE (\E r \in Runs : ReadDocument(r)) \/ ReadWindows \/ CompactList
             \/ (\E r \in Runs : CompactUpsert(r)) \/ CompactDrop \/ CompactInsert
             \/ CompactVerify \/ CompactDies \/ UNCHANGED allVars
    <3>1. CASE (\E r \in Runs : CompactUpsert(r)) \/ CompactDrop \/ CompactInsert
      BY <3>1, OthersBesideList DEF CompactUpsert, CompactDrop, CompactInsert, AnotherWrites
    <3>2. CASE (\E r \in Runs : ReadDocument(r)) \/ ReadWindows \/ CompactList
               \/ CompactVerify \/ CompactDies \/ UNCHANGED allVars
      <4>1. UNCHANGED <<file, listing, rows>>
        BY <3>2 DEF ReadDocument, ReadWindows, CompactList, CompactVerify, CompactDies, allVars,
           readers, vars, stores
      <4>2. QED
        BY <4>1, OthersBesideList
    <3>3. QED
      BY <2>1, <3>1, <3>2
  <2>2. QED
    BY <2>1, StoreBesideList, ListBegins, ListGoesOn DEF ReadersNext
<1>2. ListInv => ListMissesNoKeptRun
  BY DEF ListInv
<1>3. QED
  BY ListInit, ReadAlways, <1>1, <1>2, PTL DEF ReadersSpec

\* Whoever reads the store while saves are refused, die or are deleted, and while the compaction
\* rewrites it, gets runs, and gets whole what is left alone meanwhile (_get_one_result,
\* list_experiments, compact_run_storage.py).
THEOREM ReadsAreWhole == ReadersSpec => []RunsAreReadWhole
  BY ReadersAreAnswered, QuietReadsAreWhole, ListsMissNoKeptRun, CompactedRunsAreWhole, PTL
     DEF RunsAreReadWhole

============================================================================
