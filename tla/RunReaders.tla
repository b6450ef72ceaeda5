------------------------------- MODULE RunReaders -------------------------------
(***************************************************************************)
(* Who reads the store of RunStore while it is written, and its second     *)
(* writer: the reader of one run (_get_one_result), the list of all        *)
(* (_get_summaries, list_experiments) and tools/compact_run_storage.py.    *)
(* Each database call is an await.  Runs that still answer questions have  *)
(* rows of their own in the list: ExperimentRun has those.                 *)
(***************************************************************************)
EXTENDS RunStore

CONSTANTS
    Old,        \* the version written before windows had documents of their own
    Stopped,    \* versions of runs that were stopped and answered fewer questions
    Casts       \* who is about in a behaviour, and the runs and versions that are written
                \*   or deleted in it; bounds the behaviours

Actors == {"reader", "list", "tool", "delete", "pin"}

ASSUME ReadersAssumption == Old \in Versions /\ Stopped \subseteq Versions
ASSUME CastsAssumption ==
    Casts \subseteq [actors : SUBSET Actors, runs : SUBSET Runs, versions : SUBSET Versions]

VARIABLES
    cast,       \* the one of Casts this behaviour has
    inside,     \* runs whose document carries its windows itself
    reader,     \* a read of one run between its two calls
    answer,     \* what the last such read gave
    listing,    \* a list between its calls
    rows,       \* what the last list gave
    tool        \* the compaction

readers == <<reader, answer, listing, rows>>
allVars == <<vars, cast, inside, readers, tool>>

NoRead == [phase |-> "idle", run |-> None, version |-> None, own |-> FALSE, calm |-> FALSE, clean |-> FALSE]
NoAnswer == [run |-> None, version |-> None, windows |-> {}, calm |-> FALSE, clean |-> FALSE]
NoList == [phase |-> "idle", docs |-> {}, answered |-> FALSE, steady |-> {}, files |-> {}, was |-> {}]
Row(r, counted) == [run |-> r, counted |-> counted]
NoTool == [phase |-> "idle", list |-> {}, run |-> None, next |-> 1, calm |-> {}]

ReadersInit ==
    /\ cast \in Casts
    /\ \E old \in SUBSET cast.runs :
        /\ doc = [r \in Runs |-> IF r \in old THEN Old ELSE None]
        /\ file = doc /\ kept = doc /\ inside = old
        /\ written = [r \in Runs |-> IF r \in old THEN {Old} ELSE {}]
    /\ windows = [r \in Runs |-> {}]
    /\ saver = [r \in Runs |-> IdleSaver]
    /\ deleter = NoDelete /\ pinner = None /\ baseline = None
    /\ clean = {} /\ gone = {} /\ touched = {}
    /\ reader = NoRead /\ answer = NoAnswer /\ listing = NoList /\ rows = {} /\ tool = NoTool

\* What a reader puts together: lists a question carries win over its window.
Merged(v, own, ws) == IF own THEN WindowsOf(v) ELSE ws
Served(r) == Merged(doc[r], r \in inside, windows[r])

Readable(r) == file[r] \notin {None, Torn}

---------------------------------------------------------------------------
(* The steps of RunStore, as those who read meanwhile meet them. *)

\* A run that changes is no longer calm for them.
Changed(r) == doc'[r] # doc[r] \/ windows'[r] # windows[r] \/ file'[r] # file[r]

ReaderNotices ==
    reader' = IF reader.phase # "idle" /\ Changed(reader.run) THEN [reader EXCEPT !.calm = FALSE] ELSE reader

Noticed ==
    /\ ReaderNotices
    /\ listing' = [listing EXCEPT !.steady = {r \in @ : file'[r] = file[r] /\ r \notin touched'}]
    /\ tool' = [tool EXCEPT !.calm = {r \in @ : ~Changed(r)}]

StoreStep ==
    /\ \/ \E r \in cast.runs, v \in cast.versions : BeginSave(r, v)
       \/ \E r \in Runs : SaveStep(r) \/ SaverDies(r)
       \/ "delete" \in cast.actors /\ ((\E r \in cast.runs : DeleteDocument(r)) \/ DeleteFile)
       \/ "pin" \in cast.actors /\ ((\E r \in cast.runs : CheckPin(r)) \/ WritePin \/ Unpin)
    /\ Noticed
    \* a light document has no windows in it
    /\ inside' = {r \in inside : doc'[r] = Old}
    /\ UNCHANGED <<cast, answer, rows>>

---------------------------------------------------------------------------
(* _get_one_result: the document, then its windows; else the file. *)

FromFile(r) == [run |-> r, version |-> IF Readable(r) THEN file[r] ELSE None,
                windows |-> IF Readable(r) THEN WindowsOf(file[r]) ELSE {}, calm |-> FALSE, clean |-> FALSE]

ReadDocument(r) ==
    /\ reader.phase = "idle"
    /\ \/ /\ doc[r] # None
          /\ reader' = [phase |-> "windows", run |-> r, version |-> doc[r], own |-> r \in inside,
                        calm |-> r \in clean \cup inside, clean |-> r \in clean]
          /\ UNCHANGED answer
       \/ answer' = FromFile(r) /\ UNCHANGED reader     \* no document, or no database
    /\ UNCHANGED <<vars, cast, inside, listing, rows, tool>>

\* A refused call is no windows at all.
ReadWindows ==
    LET r == reader.run IN
    /\ reader.phase = "windows"
    /\ \E up \in BOOLEAN :
        answer' = [run |-> r, version |-> reader.version, calm |-> reader.calm /\ (up \/ reader.own),
                   clean |-> up /\ reader.clean /\ r \in clean,
                   windows |-> Merged(reader.version, reader.own, IF up THEN windows[r] ELSE {})]
    /\ reader' = NoRead
    /\ UNCHANGED <<vars, cast, inside, listing, rows, tool>>

---------------------------------------------------------------------------
(* list_experiments *)

\* _get_summaries: the documents without their questions, or no database.
ListDocuments ==
    /\ listing.phase = "idle"
    /\ \E up \in BOOLEAN :
        LET found == IF up THEN {r \in Runs : doc[r] # None} ELSE {} IN
        listing' = [phase |-> IF \E r \in found : doc[r] \in Stopped THEN "counts" ELSE "files",
                    docs |-> {<<r, doc[r]>> : r \in found}, answered |-> FALSE,
                    steady |-> {r \in Runs : kept[r] # None /\ file[r] = kept[r] /\ deleter.run # r},
                    files |-> {}, was |-> {}]
    /\ UNCHANGED <<vars, cast, inside, reader, answer, rows, tool>>

\* _fill_answered_counts: a second read for the stopped runs; one that fails is
\* passed over.
ListCounts ==
    /\ listing.phase = "counts"
    /\ \E up \in BOOLEAN : listing' = [listing EXCEPT !.phase = "files", !.answered = up]
    /\ UNCHANGED <<vars, cast, inside, reader, answer, rows, tool>>

Listed(docs) == {d[1] : d \in docs}

\* Only the runs the database does not have.
FilesBeside(docs) == {r \in Runs : Readable(r)} \ Listed(docs)

ListFiles ==
    /\ listing.phase = "files"
    /\ listing' = [listing EXCEPT !.phase = "rows", !.files = FilesBeside(listing.docs)]
    /\ UNCHANGED <<vars, cast, inside, reader, answer, rows, tool>>

Count(d) ==
    IF d[2] \notin Stopped \/ listing.answered THEN "answered" ELSE "planned"

\* After one more await, for the baseline.
ListRows ==
    /\ listing.phase = "rows"
    /\ rows' = {Row(d[1], Count(d)) : d \in listing.docs}
               \cup {Row(r, "answered") : r \in listing.files}
    /\ listing' = [NoList EXCEPT !.was = listing.steady]
    /\ UNCHANGED <<vars, cast, inside, reader, answer, tool>>

---------------------------------------------------------------------------
(* tools/compact_run_storage.py --write, a process of its own. *)

\* One list of everything, read at the start.
CompactList ==
    /\ tool.phase = "idle"
    /\ inside # {}
    /\ tool' = [NoTool EXCEPT !.phase = "next", !.list = inside, !.calm = inside]
    /\ UNCHANGED <<vars, cast, inside, readers>>

\* A writer of its own: a save that it meets was not alone with its run, a clean one is
\* no longer the last to have written.
AnotherWrites(r) ==
    /\ saver' = IF Saving(r) THEN [saver EXCEPT ![r].sound = FALSE] ELSE saver
    /\ clean' = clean \ {r}
    /\ ReaderNotices
    /\ UNCHANGED <<file, pinner, baseline, written, kept, touched, cast, answer, listing, rows>>

\* Taken apart and put together again, each run that would shrink is compared
\* with itself and replaced.
CompactUpsert(r) ==
    /\ tool.phase = "next" /\ r \in tool.list
    /\ doc' = [doc EXCEPT ![r] = Old]
    /\ inside' = inside \ {r}
    /\ tool' = [tool EXCEPT !.phase = "drop", !.run = r, !.list = @ \ {r}, !.next = 1]
    /\ gone' = gone \ {r}
    /\ deleter' = IF deleter.run = r THEN [deleter EXCEPT !.quiet = FALSE] ELSE deleter
    /\ AnotherWrites(r)
    /\ UNCHANGED windows

CompactDrop ==
    /\ tool.phase = "drop"
    /\ windows' = [windows EXCEPT ![tool.run] = {}]
    /\ tool' = [tool EXCEPT !.phase = "insert"]
    /\ AnotherWrites(tool.run)
    /\ UNCHANGED <<doc, deleter, gone, inside>>

LastWindow == NQuestions

CompactInsert ==
    /\ tool.phase = "insert" /\ tool.next <= LastWindow
    /\ windows' = [windows EXCEPT ![tool.run] = @ \cup {<<Old, tool.next>>}]
    /\ tool' = [tool EXCEPT !.next = @ + 1]
    /\ AnotherWrites(tool.run)
    /\ UNCHANGED <<doc, deleter, gone, inside>>

\* Variant with a bug: the document is read back as soon as it was replaced.
CompactVerifyDocument ==
    LET same == doc[tool.run] = Old IN
    /\ tool.phase = "insert"
    /\ tool' = [tool EXCEPT !.phase = IF ~same THEN "stopped" ELSE "next", !.run = None]
    /\ UNCHANGED <<vars, cast, inside, readers>>

\* Read back: a run that is not what it was stops the tool.
CompactVerify ==
    LET same == doc[tool.run] = Old /\ windows[tool.run] = WindowsOf(Old) IN
    /\ tool.phase = "insert" /\ tool.next > LastWindow
    /\ tool' = [tool EXCEPT !.phase = IF ~same THEN "stopped" ELSE "next", !.run = None]
    /\ UNCHANGED <<vars, cast, inside, readers>>

\* A refused call or a kill ends it where it is.
CompactDies ==
    /\ tool.phase \in {"drop", "insert"}
    /\ tool' = [tool EXCEPT !.phase = "dead"]
    /\ UNCHANGED <<vars, cast, inside, readers>>

ReadersNext ==
    \/ StoreStep
    \/ "reader" \in cast.actors /\ ((\E r \in Runs : ReadDocument(r)) \/ ReadWindows)
    \/ "list" \in cast.actors /\ (ListDocuments \/ ListCounts \/ ListFiles \/ ListRows)
    \/ /\ "tool" \in cast.actors
       /\ CompactList \/ (\E r \in Runs : CompactUpsert(r)) \/ CompactDrop \/ CompactInsert \/ CompactVerify \/ CompactDies

ReadersSpec == ReadersInit /\ [][ReadersNext]_allVars

---------------------------------------------------------------------------
(* Properties *)

\* What has been read is a version of that run, and windows of it.
AnswersAreTyped ==
    /\ answer.version \in Versions \cup {None}
    /\ answer.windows \subseteq Versions \X Positions
    /\ \A row \in rows : row.run \in Runs

\* A read that no write of its run overlaps gives the run with all its windows
\* and no others, in the shape of today and in the one before it, however many
\* refused writes came first.
QuietReadIsWhole ==
    answer.calm => answer.version # None /\ answer.windows = WindowsOf(answer.version)

\* "A run present in one place and absent from the other is exactly the case
\* the store has to survive": a run whose file is there all along is listed,
\* whatever the database refuses and whatever else it holds.
ListMissesNoKeptRun ==
    listing.phase = "idle" => listing.was \subseteq {row.run : row \in rows}

\* A run the compaction has verified, and nobody else has written since, is
\* served as it was.
CompactedIsServedWhole ==
    tool.phase = "next" =>
        \A r \in tool.calm \ tool.list : doc[r] = Old /\ Served(r) = WindowsOf(Old)

\* Whoever reads while others write gets runs, and gets whole what is left alone meanwhile.
RunsAreReadWhole ==
    AnswersAreTyped /\ QuietReadIsWhole /\ ListMissesNoKeptRun /\ CompactedIsServedWhole

--------------------------------------------------------------------------------
(* What the code, its tests or its documents say and the code does not keep (README). *)

\* "A run written twice under one id would otherwise keep both sets of windows
\* and serve whichever": no reader gets one version with the windows of
\* another, when every write it met was accepted.
ReaderGetsOneVersion ==
    answer.clean => answer.windows \subseteq WindowsOf(answer.version)

\* Of a stopped run the list shows the questions it answered.
StoppedShowsItsAnswers == \A row \in rows : row.counted # "planned"

\* "What a reader gets today, which is what must not change": the compaction
\* replaces a run by the version a reader gets.
CompactionKeepsTheRun ==
    [][tool'.run # tool.run /\ tool'.run # None => doc'[tool'.run] = doc[tool'.run]]_allVars

\* The same of a compaction that ends in the middle of a run.
CompactedIsReadAsBefore ==
    tool.phase = "dead" /\ tool.run \in tool.calm => Served(tool.run) = WindowsOf(Old)
================================================================================
