----------------------------- MODULE RunStore -----------------------------
(***************************************************************************)
(* How one run is kept: a light document in experiment_runs, one document  *)
(* per question in experiment_run_windows, and a whole copy in a file      *)
(* (services/api_gateway/routers/experiments.py, _save and the readers,    *)
(* delete_experiment, set_baseline).                                       *)
(*                                                                         *)
(* Each database call is an await of its own and can be refused; a refused *)
(* call may still have been applied.  A run may be written again under the *)
(* same id (eval/miracl/report.py derives the id from the configuration),  *)
(* so a run has versions; every question of a version holds windows.       *)
(***************************************************************************)
EXTENDS Naturals, FiniteSets

CONSTANTS
    Runs,       \* run ids
    Versions,   \* what can be written under one id; bounds the saves of a run
    NQuestions, \* questions of a run, each with windows
    None,       \* no document, no file, no run
    Torn        \* a file that was not written to its end

ASSUME QuestionsAssumption == NQuestions \in Nat
ASSUME MarksAssumption == None # Torn /\ None \notin Versions \cup Runs /\ Torn \notin Versions

VARIABLES
    doc,       \* doc[r]: the version in experiment_runs
    windows,   \* windows[r]: pairs of version and position in experiment_run_windows
    file,      \* file[r]: the version in _STORE_DIR
    saver,     \* saver[r]: a call of _save for r
    deleter,   \* a delete request between its database and its file half
    pinner,    \* a set_baseline request between its check and its write
    baseline,  \* settings.baseline_run_id
    written,   \* written[r]: versions some _save was called with
    kept,      \* kept[r]: the version of the last _save that returned, until the run
               \*   is deleted (a history)
    clean,     \* runs whose last _save had every database call accepted, with nobody else
               \*   writing the run meanwhile or since (a history)
    gone,      \* runs deleted with the database answering and no save of them
               \*   under way, and not written since (a history)
    touched    \* runs a delete request has begun to remove (a history)

stores    == <<doc, windows, file>>
clients   == <<deleter, pinner, baseline>>
histories == <<written, kept, clean, gone, touched>>
vars      == <<stores, saver, clients, histories>>

Positions == 1..NQuestions
WindowsOf(v) == {v} \X Positions

IdleSaver == [phase |-> "idle", version |-> None, next |-> 1, sound |-> TRUE]
NoDelete  == [phase |-> "idle", run |-> None, up |-> FALSE, quiet |-> FALSE]

Saving(r) == saver[r].phase # "idle"

\* _run_exists
RunExists(r, up) == (up /\ doc[r] # None) \/ file[r] # None

Init ==
    /\ doc = [r \in Runs |-> None]
    /\ windows = [r \in Runs |-> {}]
    /\ file = [r \in Runs |-> None]
    /\ saver = [r \in Runs |-> IdleSaver]
    /\ deleter = NoDelete
    /\ pinner = None
    /\ baseline = None
    /\ written = [r \in Runs |-> {}]
    /\ kept = [r \in Runs |-> None]
    /\ clean = {}
    /\ gone = {}
    /\ touched = {}

---------------------------------------------------------------------------
(* _save *)

BeginSave(r, v) ==
    /\ ~Saving(r)
    /\ v \notin written[r]
    /\ written' = [written EXCEPT ![r] = @ \cup {v}]
    /\ saver' = [saver EXCEPT ![r] = [IdleSaver EXCEPT !.phase = "upsert", !.version = v]]
    /\ deleter' = IF deleter.run = r THEN [deleter EXCEPT !.quiet = FALSE] ELSE deleter
    /\ clean' = clean \ {r}
    /\ gone' = gone \ {r}
    /\ UNCHANGED <<stores, pinner, baseline, kept, touched>>

\* A refused call ends the database half: the except clause only logs.
Refused(r) == saver' = [saver EXCEPT ![r].phase = "file", ![r].sound = FALSE]

Goes(r, phase) == saver' = [saver EXCEPT ![r].phase = phase]

\* The light document replaces the one under the same run_id.
Upsert(r) ==
    LET applied == doc' = [doc EXCEPT ![r] = saver[r].version] IN
    /\ saver[r].phase = "upsert"
    /\ \/ applied /\ Goes(r, "drop")
       \/ (applied \/ UNCHANGED doc) /\ Refused(r)
    /\ UNCHANGED <<windows, file, clients, histories>>

\* Variant with a bug: the new windows are added to the old ones.
KeepWindows(r) ==
    /\ saver[r].phase = "drop"
    /\ \/ Goes(r, IF NQuestions = 0 THEN "file" ELSE "insert")
       \/ Refused(r)
    /\ UNCHANGED <<doc, windows, file, clients, histories>>

\* "Replaced and never added to": the windows of an earlier write go first.
DropWindows(r) ==
    LET applied == windows' = [windows EXCEPT ![r] = {}] IN
    /\ saver[r].phase = "drop"
    /\ \/ applied /\ Goes(r, IF NQuestions = 0 THEN "file" ELSE "insert")
       \/ (applied \/ UNCHANGED windows) /\ Refused(r)
    /\ UNCHANGED <<doc, file, clients, histories>>

\* Variant with a bug: the loop runs once too often.
InsertWindowTooMany(r) ==
    LET n == saver[r].next
        applied == windows' = [windows EXCEPT ![r] = @ \cup {<<saver[r].version, n>>}] IN
    /\ saver[r].phase = "insert"
    /\ \/ /\ applied
          /\ saver' = [saver EXCEPT ![r].phase = IF n > NQuestions THEN "file" ELSE "insert",
                                    ![r].next = n + 1]
       \/ (applied \/ UNCHANGED windows) /\ Refused(r)
    /\ UNCHANGED <<doc, file, clients, histories>>

InsertWindow(r) ==
    LET n == saver[r].next
        applied == windows' = [windows EXCEPT ![r] = @ \cup {<<saver[r].version, n>>}] IN
    /\ saver[r].phase = "insert"
    /\ \/ /\ applied
          /\ saver' = [saver EXCEPT ![r].phase = IF n = NQuestions THEN "file" ELSE "insert",
                                    ![r].next = n + 1]
       \/ (applied \/ UNCHANGED windows) /\ Refused(r)
    /\ UNCHANGED <<doc, file, clients, histories>>

\* Variant with a bug: the file is only a fallback for a refused run.
WriteFileIfRefused(r) ==
    LET v == saver[r].version IN
    /\ saver[r].phase = "file"
    /\ saver' = [saver EXCEPT ![r] = IdleSaver]
    /\ file' = IF saver[r].sound THEN file ELSE [file EXCEPT ![r] = v]
    /\ kept' = [kept EXCEPT ![r] = v]
    /\ clean' = IF saver[r].sound THEN clean \cup {r} ELSE clean
    /\ UNCHANGED <<doc, windows, clients, written, gone, touched>>

\* The whole copy, written in place.  A write that raises may leave it torn, and
\* _save raises with it.
WriteFile(r) ==
    LET v == saver[r].version IN
    /\ saver[r].phase = "file"
    /\ saver' = [saver EXCEPT ![r] = IdleSaver]
    /\ \/ /\ file' = [file EXCEPT ![r] = v]
          /\ kept' = [kept EXCEPT ![r] = v]
          /\ clean' = IF saver[r].sound THEN clean \cup {r} ELSE clean
       \/ /\ \E left \in {file[r], Torn} : file' = [file EXCEPT ![r] = left]
          /\ UNCHANGED <<kept, clean>>
    /\ UNCHANGED <<doc, windows, clients, written, gone, touched>>

\* The process that saves is killed between two of its calls, or in the last one.
SaverDies(r) ==
    /\ Saving(r)
    /\ saver' = [saver EXCEPT ![r] = IdleSaver]
    /\ \/ UNCHANGED file
       \/ saver[r].phase = "file" /\ file' = [file EXCEPT ![r] = Torn]
    /\ UNCHANGED <<doc, windows, clients, histories>>

---------------------------------------------------------------------------
(* delete_experiment: the document, then the file; the windows stay. *)

DeleteDocument(r) ==
    /\ deleter.phase = "idle"
    /\ \E up \in BOOLEAN :
          /\ deleter' = [phase |-> "file", run |-> r, up |-> up, quiet |-> ~Saving(r)]
          /\ doc' = IF up THEN [doc EXCEPT ![r] = None] ELSE doc
    /\ touched' = touched \cup {r}
    /\ UNCHANGED <<windows, file, saver, pinner, baseline, written, kept, clean, gone>>

\* Variant with a bug: the file is removed only where the database had nothing to say.
DeleteFileIfDown ==
    LET r == deleter.run IN
    /\ deleter.phase = "file"
    /\ file' = IF deleter.up THEN file ELSE [file EXCEPT ![r] = None]
    /\ kept' = [kept EXCEPT ![r] = None]
    /\ gone' = IF deleter.up /\ deleter.quiet THEN gone \cup {r} ELSE gone
    /\ deleter' = NoDelete
    /\ UNCHANGED <<doc, windows, saver, pinner, baseline, written, clean, touched>>

DeleteFile ==
    LET r == deleter.run IN
    /\ deleter.phase = "file"
    /\ file' = [file EXCEPT ![r] = None]
    /\ kept' = [kept EXCEPT ![r] = None]
    /\ gone' = IF deleter.up /\ deleter.quiet THEN gone \cup {r} ELSE gone
    /\ deleter' = NoDelete
    /\ UNCHANGED <<doc, windows, saver, pinner, baseline, written, clean, touched>>

---------------------------------------------------------------------------
(* set_baseline and unset_baseline *)

\* Variant with a bug: any id can be pinned.
CheckNothing(r) ==
    /\ pinner = None
    /\ pinner' = r
    /\ UNCHANGED <<stores, saver, deleter, baseline, histories>>

\* The check is awaited; a run that is not found is a 404.
CheckPin(r) ==
    /\ pinner = None
    /\ \E up \in BOOLEAN : RunExists(r, up)
    /\ pinner' = r
    /\ UNCHANGED <<stores, saver, deleter, baseline, histories>>

\* The write is refused with a 503, or made.
WritePin ==
    /\ pinner # None
    /\ baseline' \in {baseline, pinner}
    /\ pinner' = None
    /\ UNCHANGED <<stores, saver, deleter, histories>>

Unpin ==
    /\ baseline' = None
    /\ UNCHANGED <<stores, saver, deleter, pinner, histories>>

---------------------------------------------------------------------------
SaveStep(r) ==
    \/ Upsert(r)
    \/ DropWindows(r)
    \/ InsertWindow(r)
    \/ WriteFile(r)

Next ==
    \/ \E r \in Runs :
          \/ \E v \in Versions : BeginSave(r, v)
          \/ SaveStep(r)
          \/ SaverDies(r)
          \/ DeleteDocument(r)
          \/ CheckPin(r)
    \/ DeleteFile
    \/ WritePin
    \/ Unpin

Spec == Init /\ [][Next]_vars

---------------------------------------------------------------------------
(* Properties *)

Phases == {"idle", "upsert", "drop", "insert", "file"}

Saves == [phase : Phases, version : Versions \cup {None}, next : 1..(NQuestions + 1),
          sound : BOOLEAN]

TypeOK ==
    /\ doc \in [Runs -> Versions \cup {None}]
    /\ windows \in [Runs -> SUBSET (Versions \X Positions)]
    /\ file \in [Runs -> Versions \cup {None, Torn}]
    /\ saver \in [Runs -> Saves]
    /\ deleter \in [phase : {"idle", "file"}, run : Runs \cup {None}, up : BOOLEAN,
                    quiet : BOOLEAN]
    /\ pinner \in Runs \cup {None}
    /\ baseline \in Runs \cup {None}
    /\ written \in [Runs -> SUBSET Versions]
    /\ kept \in [Runs -> Versions \cup {None}]
    /\ clean \subseteq Runs
    /\ gone \subseteq Runs
    /\ touched \subseteq Runs

\* A run whose last write met no refusal is served with the windows of that write, all of
\* them and no others, whatever earlier writes were refused half way or died and whatever
\* was deleted in between (_save: upsert, delete_many, insert_one in this order).
CleanRunIsServedWhole ==
    \A r \in clean : ~Saving(r) /\ doc[r] # None => windows[r] = WindowsOf(doc[r])

\* "The file copy is what survives it": once _save has returned, the file holds what it
\* was given, accepted by the database or not, until a delete or a torn rewrite.
FileSurvivesTheDatabase ==
    \A r \in Runs : kept[r] # None /\ file[r] # Torn => file[r] = kept[r]

\* A run deleted while the database answered and nobody was saving it stays gone from both
\* halves of the store until it is written again (delete_experiment).
DeletedRunStaysGone ==
    \A r \in gone : doc[r] = None /\ file[r] = None

\* The baseline names a run that is stored, or that a delete has begun to remove: a pin
\* made between the two halves of set_baseline is the only way to a dangling mark.
BaselineDanglesOnlyByDelete ==
    baseline # None => RunExists(baseline, TRUE) \/ baseline \in touched

---------------------------------------------------------------------------
(* The inductive invariant behind the safety properties *)

\* Since its save began, the run's document is this version or has been deleted.
HoldsDoc(r) == doc[r] \in {saver[r].version, None}

\* How far the database half of a save has come.
SaveIsOnCourse(r) ==
    LET s == saver[r] IN
    /\ s.phase # "idle" => s.version \in Versions /\ r \notin clean \cup gone
    /\ s.phase \in {"upsert", "drop"} => s.next = 1
    /\ s.phase = "insert" => s.next <= NQuestions
    /\ s.phase \in {"drop", "insert", "file"} /\ s.sound => HoldsDoc(r)
    /\ s.phase = "insert" /\ s.sound => windows[r] = {s.version} \X (1..(s.next - 1))
    /\ s.phase = "file" /\ s.sound => windows[r] = WindowsOf(s.version)

\* A document that was written cleanly keeps its windows until the next save.
CleanMeansWhole(r) ==
    r \in clean => doc[r] = None \/ windows[r] = WindowsOf(doc[r])

\* Between its two halves a delete has taken the document, if it could, and nobody has
\* begun to put it back.
DeleteIsOnCourse ==
    deleter.phase = "file" =>
        /\ deleter.run \in Runs \cap touched
        /\ deleter.up /\ deleter.quiet => doc[deleter.run] = None /\ ~Saving(deleter.run)

\* What was found to exist, exists or is being deleted.
PinIsOnCourse ==
    pinner # None => RunExists(pinner, TRUE) \/ pinner \in touched

StoreInv ==
    /\ \A r \in Runs : SaveIsOnCourse(r) /\ CleanMeansWhole(r)
    /\ FileSurvivesTheDatabase
    /\ DeletedRunStaysGone
    /\ DeleteIsOnCourse
    /\ PinIsOnCourse
    /\ BaselineDanglesOnlyByDelete

---------------------------------------------------------------------------
(* What the code says of itself, and does not do *)

\* _save logs a refused write with "the run is on disk and is still readable", and a
\* reader takes the document over the file: so a run that was kept, served from its
\* document, would have to come back with every window the file has.
KeptRunIsServedWhole ==
    \A r \in Runs :
        ~Saving(r) /\ kept[r] # None /\ doc[r] # None
            => doc[r] = kept[r] /\ windows[r] = WindowsOf(kept[r])
============================================================================
