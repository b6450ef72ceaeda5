--------------------------- MODULE CorpusIngestion ---------------------------
(***************************************************************************)
(* An upload and the ingestion it starts (routers/corpus.py, with the loop *)
(* of services/ingestion/cli.py): the request that writes the files into a *)
(* temporary directory, the command line that indexes them file by file,   *)
(* the task of the gateway that follows its output, the history record,    *)
(* and the socket that a page follows the job on.                          *)
(***************************************************************************)
EXTENDS Integers, Sequences, FiniteSets, Functions

CONSTANTS
    Jobs,           \* ids of ingestions
    Names,          \* names a file of an upload may have
    Skipped,        \* those that are excluded or have a suffix that is not supported
    MaxFiles,       \* most files of one upload
    Restarts        \* most restarts of the gateway

Assumptions == Skipped \subseteq Names /\ MaxFiles \in Nat /\ Restarts \in Nat

VARIABLES
    task,       \* task[j]: where the request and then _run_ingestion of j stand
    upload,     \* upload[j]: the names of the files, in the order they came
    tmp,        \* tmp[j]: the temporary directory, what a name holds; << >> when it is gone
    left,       \* left[j]: the names the command line has still to index
    exit,       \* exit[j]: "none", "alive", "zero" or "other"
    lines,      \* lines[j]: lines in the pipe that the task has not read
    indexed,    \* indexed[j]: the files of j whose fragments are in the dense index
    progress,   \* progress[j]: _progress, by the types of the events
    doc,        \* doc[j]: the status of the record the task carries
    history,    \* history[j]: the status in corpus_ingests; "none", or "deleted" by a user
    socket,     \* socket[j]: [open, sent]
    restarts

vars == <<task, upload, tmp, left, exit, lines, indexed, progress, doc, history, socket, restarts>>
process == <<left, exit, lines, indexed>>

Gone == << >>
Ending == {"done", "error"}

Init ==
    /\ task = [j \in Jobs |-> "none"]
    /\ upload = [j \in Jobs |-> << >>]
    /\ tmp = [j \in Jobs |-> Gone]
    /\ left = [j \in Jobs |-> {}]
    /\ exit = [j \in Jobs |-> "none"]
    /\ lines = [j \in Jobs |-> << >>]
    /\ indexed = [j \in Jobs |-> {}]
    /\ progress = [j \in Jobs |-> << >>]
    /\ doc = [j \in Jobs |-> "running"]
    /\ history = [j \in Jobs |-> "none"]
    /\ socket = [j \in Jobs |-> [open |-> FALSE, sent |-> 0]]
    /\ restarts = 0

Step(j, from, to) == task[j] = from /\ task' = [task EXCEPT ![j] = to]
Emit(j, type) == progress' = [progress EXCEPT ![j] = Append(@, type)]
Emitted(j) == Range(progress[j])

\* The last file of each name: the others were written over.
Written(files) ==
    [n \in Range(files) |-> CHOOSE i \in DOMAIN files :
        files[i] = n /\ \A k \in DOMAIN files : files[k] = n => k <= i]

Loadable(dir) == {n \in DOMAIN dir : n \notin Skipped}

---------------------------------------------------------------------------
(* The request *)

\* ingest_corpus up to the lookup of the realm: the files are in the directory.
Upload(j, files) ==
    /\ Step(j, "none", "uploaded")
    /\ upload' = [upload EXCEPT ![j] = files]
    /\ tmp' = [tmp EXCEPT ![j] = Written(files)]
    /\ UNCHANGED <<process, progress, doc, history, socket, restarts>>

\* The lookup, or a sealed password that cannot be opened, may raise: the request fails
\* and nothing tidies the directory up.
StartTask(j) ==
    /\ \/ Step(j, "uploaded", "created")
       \/ Step(j, "uploaded", "refused")
    /\ UNCHANGED <<upload, tmp, process, progress, doc, history, socket, restarts>>

---------------------------------------------------------------------------
(* The task *)

\* The command line is started, or cannot be.
StartProcess(j) ==
    /\ \/ /\ Step(j, "created", "following")
          /\ exit' = [exit EXCEPT ![j] = "alive"]
          /\ left' = [left EXCEPT ![j] = Loadable(tmp[j])]
          /\ doc' = doc
       \/ /\ Step(j, "created", "raised")
          /\ doc' = [doc EXCEPT ![j] = "error"]
          /\ UNCHANGED <<exit, left>>
    /\ Emit(j, "start")
    /\ UNCHANGED <<upload, tmp, lines, indexed, history, socket, restarts>>

\* async for line in proc.stdout: a file_done line becomes an event, other lines do not.
ReadLine(j) ==
    /\ task[j] = "following"
    /\ lines[j] # << >>
    /\ lines' = [lines EXCEPT ![j] = Tail(@)]
    /\ Emit(j, "progress")
    /\ UNCHANGED <<task, upload, tmp, left, exit, indexed, doc, history, socket, restarts>>

\* Variant with a bug: the exit code is not looked at.
ExitedAnyhow(j) == Step(j, "following", "registering") /\ doc' = [doc EXCEPT ![j] = "done"]

\* Variant with a bug: only a command line that succeeded is waited for.
WaitForSuccess(j) ==
    /\ exit[j] = "zero"
    /\ lines[j] = << >>
    /\ Step(j, "following", "registering") /\ doc' = [doc EXCEPT ![j] = "done"]
    /\ UNCHANGED <<upload, tmp, process, progress, history, socket, restarts>>

\* proc.wait() after the last line: the record takes its status from the exit code.
Exited(j) ==
    IF exit[j] = "zero"
    THEN Step(j, "following", "registering") /\ doc' = [doc EXCEPT ![j] = "done"]
    ELSE Step(j, "following", "ending") /\ doc' = [doc EXCEPT ![j] = "error"]

WaitForProcess(j) ==
    /\ exit[j] \in {"zero", "other"}
    /\ lines[j] = << >>
    /\ Exited(j)
    /\ UNCHANGED <<upload, tmp, process, progress, history, socket, restarts>>

\* _register_corpus: a database that refuses is caught below, and makes the job an error.
Register(j) ==
    /\ \/ Step(j, "registering", "ending") /\ UNCHANGED doc
       \/ Step(j, "registering", "raised") /\ doc' = [doc EXCEPT ![j] = "error"]
    /\ UNCHANGED <<upload, tmp, process, progress, history, socket, restarts>>

\* "done" whatever the exit code was, "error" only for what was raised; then rmtree.
EmitEnd(j) ==
    /\ \/ Step(j, "ending", "saving") /\ Emit(j, "done")
       \/ Step(j, "raised", "saving") /\ Emit(j, "error")
    /\ tmp' = [tmp EXCEPT ![j] = Gone]
    /\ UNCHANGED <<upload, process, doc, history, socket, restarts>>

\* _save_ingest, whose failure is swallowed.
SaveIngest(j) ==
    /\ Step(j, "saving", "settled")
    /\ \/ history' = [history EXCEPT ![j] = doc[j]]
       \/ UNCHANGED history
    /\ UNCHANGED <<upload, tmp, process, progress, doc, socket, restarts>>

---------------------------------------------------------------------------
(* The command line *)

\* One file: read, cut, embedded, upserted and indexed sparsely, and its line printed.  A
\* file without fragments is passed over without a line.
IndexFile(j) ==
    /\ exit[j] = "alive"
    /\ \E n \in left[j] :
          /\ left' = [left EXCEPT ![j] = @ \ {n}]
          /\ \/ /\ indexed' = [indexed EXCEPT ![j] = @ \cup {n}]
                /\ lines' = [lines EXCEPT ![j] = Append(@, n)]
             \/ UNCHANGED <<indexed, lines>>
    /\ UNCHANGED <<task, upload, tmp, exit, progress, doc, history, socket, restarts>>

\* A file that cannot be read, or a backend that refuses, ends it; the dense index may
\* have the file by then.
FailOnFile(j) ==
    /\ exit[j] = "alive"
    /\ \E n \in left[j] : \E more \in {{}, {n}} : indexed' = [indexed EXCEPT ![j] = @ \cup more]
    /\ exit' = [exit EXCEPT ![j] = "other"]
    /\ UNCHANGED <<task, upload, tmp, left, lines, progress, doc, history, socket, restarts>>

\* Nothing left: 0, or 1 when there was no file at all.
EndProcess(j) ==
    /\ exit[j] = "alive"
    /\ left[j] = {}
    /\ exit' = [exit EXCEPT ![j] = IF Loadable(Written(upload[j])) = {} THEN "other" ELSE "zero"]
    /\ UNCHANGED <<task, upload, tmp, left, lines, indexed, progress, doc, history, socket, restarts>>

---------------------------------------------------------------------------
(* The page and the user *)

\* A page opens the socket with the id the request answered.
OpenSocket(j) ==
    /\ task[j] \notin {"none", "uploaded", "refused"}
    /\ ~socket[j].open
    /\ socket[j].sent = 0
    /\ socket' = [socket EXCEPT ![j].open = TRUE]
    /\ UNCHANGED <<task, upload, tmp, process, progress, doc, history, restarts>>

\* One event of events[sent:], and the return after one that ends the job.
SendEvent(j) ==
    /\ socket[j].sent < Len(progress[j])
    /\ socket' = [socket EXCEPT ![j] = [open |-> progress[j][@.sent + 1] \notin Ending,
                                        sent |-> @.sent + 1]]

Poll(j) ==
    /\ socket[j].open
    /\ SendEvent(j)
    /\ UNCHANGED <<task, upload, tmp, process, progress, doc, history, restarts>>

\* delete_ingest: 404 when the history has no record.
DeleteIngest(j) ==
    /\ history[j] \in Ending
    /\ history' = [history EXCEPT ![j] = "deleted"]
    /\ UNCHANGED <<task, upload, tmp, process, progress, doc, socket, restarts>>

\* Variant with a bug: sockets are kept over a restart.
RestartUnnoticed ==
    /\ restarts < Restarts
    /\ restarts' = restarts + 1
    /\ task' = [j \in Jobs |-> IF task[j] \in {"none", "settled", "refused"} THEN task[j] ELSE "lost"]
    /\ progress' = [j \in Jobs |-> << >>]
    /\ UNCHANGED <<socket, lines, exit, upload, tmp, left, indexed, doc, history>>

\* The gateway restarts: tasks, sockets and _progress are gone, directories are not; the
\* command line is an orphan that runs on, or dies of its broken pipe.
Restart ==
    /\ restarts < Restarts
    /\ restarts' = restarts + 1
    /\ task' = [j \in Jobs |-> IF task[j] \in {"none", "settled", "refused"} THEN task[j] ELSE "lost"]
    /\ progress' = [j \in Jobs |-> << >>]
    /\ socket' = [j \in Jobs |-> [open |-> FALSE, sent |-> 1]]
    /\ lines' = [j \in Jobs |-> << >>]
    /\ \/ exit' = exit
       \/ exit' = [j \in Jobs |-> IF exit[j] = "alive" THEN "other" ELSE exit[j]]
    /\ UNCHANGED <<upload, tmp, left, indexed, doc, history>>

FileLists == UNION {[1..k -> Names] : k \in 1..MaxFiles}
TaskStep(j) ==
    \/ StartTask(j) \/ StartProcess(j) \/ ReadLine(j) \/ WaitForProcess(j)
    \/ Register(j) \/ EmitEnd(j) \/ SaveIngest(j)
ProcessStep(j) == IndexFile(j) \/ FailOnFile(j) \/ EndProcess(j)

Next ==
    \/ \E j \in Jobs, files \in FileLists : Upload(j, files)
    \/ \E j \in Jobs : TaskStep(j) \/ ProcessStep(j) \/ OpenSocket(j) \/ Poll(j) \/ DeleteIngest(j)
    \/ Restart

\* The event loop runs every task and every socket that can go on, and the command line
\* ends: it waits for nobody but its backends, whose calls return or raise.
Fairness == \A j \in Jobs : WF_vars(TaskStep(j)) /\ WF_vars(ProcessStep(j)) /\ WF_vars(Poll(j))

Spec == Init /\ [][Next]_vars /\ Fairness

---------------------------------------------------------------------------
(* Properties *)

\* Everything is what the code makes of it, and a restart leaves no socket and no event.
TypeOK ==
    /\ task \in [Jobs -> {"none", "uploaded", "refused", "created", "following", "registering",
                          "ending", "raised", "saving", "settled", "lost"}]
    /\ exit \in [Jobs -> {"none", "alive", "zero", "other"}]
    /\ history \in [Jobs -> {"none", "done", "error", "deleted"}]
    /\ \A j \in Jobs : /\ indexed[j] \subseteq Loadable(Written(upload[j]))
                       /\ socket[j].open => socket[j].sent <= Len(progress[j])
                       /\ Emitted(j) \subseteq {"start", "progress"} \cup Ending

\* A history that calls an ingestion done tells of one that put every loadable file it
\* was sent through the index, or found it empty, and had at least one.
DoneMeansIndexed ==
    \A j \in Jobs : history[j] = "done" =>
        exit[j] = "zero" /\ left[j] = {} /\ Loadable(Written(upload[j])) # {}

\* The events of a job end with exactly one event that says so, once its task is past the
\* emit, and a socket that closed by itself has sent every one of them.
EndsOnce ==
    \A j \in Jobs :
        /\ \A i \in DOMAIN progress[j] : progress[j][i] \in Ending => i = Len(progress[j])
        /\ task[j] \in {"saving", "settled"} /\ restarts = 0 => Emitted(j) \cap Ending # {}
        /\ ~socket[j].open /\ socket[j].sent > 0 /\ restarts = 0 => socket[j].sent = Len(progress[j])

\* The files of an upload do not outlive the task that was to index them, whatever raised.
NoFilesAreLeft == \A j \in Jobs : task[j] \in {"saving", "settled"} => tmp[j] = Gone

\* Once the user removed an ingestion from the history, nothing writes it back.
DeletedIngestStaysGone == [][\A j \in Jobs : history[j] = "deleted" => history'[j] = "deleted"]_vars

\* A task that started settles, or was lost in a restart of the gateway.
IngestionSettles == \A j \in Jobs : task[j] = "created" ~> task[j] \in {"settled", "lost"}

\* A socket that follows a job closes.
SocketCloses == \A j \in Jobs : socket[j].open ~> ~socket[j].open
=============================================================================
