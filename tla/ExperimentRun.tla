--------------------------- MODULE ExperimentRun ---------------------------
(***************************************************************************)
(* The life of an experiment run inside the API gateway                    *)
(* (services/api_gateway/routers/experiments.py and                        *)
(* core/experiment/runner.py).                                             *)
(*                                                                         *)
(* Three kinds of process meet here.  The event loop runs the HTTP         *)
(* handlers, one background coroutine per run and the progress sockets;    *)
(* it switches between them only at an await, so what the code does        *)
(* between two awaits is one action.  The worker threads of the default    *)
(* executor run ExperimentRunner.run, the deferred judging and the         *)
(* root-cause diagnosis, and interleave with the loop at any point.        *)
(* MongoDB and the disk outlive a restart of the gateway; everything else  *)
(* is lost.                                                                *)
(*                                                                         *)
(* The store is kept at the granularity of a whole run: RunStore refines   *)
(* it to run document, windows and file.                                   *)
(***************************************************************************)
EXTENDS Naturals, Sequences, FiniteSets

CONSTANTS
    Runs,          \* the run ids create_experiment draws
    Questions,     \* Questions[r]: length of the dataset run r was created on
    ExternalRuns,  \* runs whose config has pipeline_source = "http"
    Sockets,       \* progress sockets clients may hold open
    NoRun,         \* no run: a socket or a delete that serves none
    Workers,       \* threads of asyncio's default executor
    MaxRestarts    \* bound: restarts of the gateway

ASSUME RunsAssumption == IsFiniteSet(Runs)
ASSUME QuestionsAssumption == Questions \in [Runs -> Nat]
ASSUME ExternalAssumption == ExternalRuns \subseteq Runs
ASSUME NoRunAssumption == NoRun \notin Runs
ASSUME WorkersAssumption == Workers \in Nat \ {0}
ASSUME RestartsAssumption == MaxRestarts \in Nat

VARIABLES
    running,        \* _running
    errors,         \* the keys of _errors
    stopRequested,  \* _stop_requested
    progress,       \* progress[r]: the "processed" of each event in _progress[r]
    task,           \* task[r]: where the background coroutine of r stands
    worker,         \* worker[r]: what the pool does for the coroutine of r
    answered,       \* answered[r]: Len(result.question_results)
    stopped,        \* stopped[r]: result.stopped
    inDb,           \* runs with a document in experiment_runs
    file,           \* file[r]: the copy in _STORE_DIR
    reader,         \* a list or status request between its read of the store
                    \*   and its look at the gateway's memory
    deleter,        \* a delete request between its database and its file half
    socket,         \* socket[s]: a progress socket
    stopAt,         \* stopAt[r]: {}, or {k} when k questions of r had results as
                    \*   its first stop was answered "stopping" (a history)
    restarts        \* restarts so far

memory == <<running, errors, stopRequested, progress>>
work   == <<task, worker, answered, stopped>>
store  == <<inDb, file>>
asides == <<reader, deleter, socket>>
vars   == <<memory, work, store, asides, stopAt, restarts>>

(***************************************************************************)
(* Where the coroutine stands.  From "questions" to "save" it has entered  *)
(* the try of _run_experiment_background; the last four are final.         *)
(***************************************************************************)
PoolStages  == {"questions", "judge", "rebuild", "diagnose"}
LiveStages  == PoolStages \cup {"scheduled", "manifest", "save", "file"}
FinalStages == {"refused", "kept", "failed", "lost"}
TaskStages  == {"none"} \cup LiveStages \cup FinalStages

\* "build", "check" and "answer" are inside ExperimentRunner.run; "offline" is
\* any of the other jobs the coroutine hands to the pool.
LoopStages == {"build", "check", "answer"}
BusyStages == LoopStages \cup {"offline"}
WorkerStages == BusyStages \cup {"idle", "queued", "returned", "raised"}

Copies == {"absent", "torn", "whole"}

OpenPhases   == {"drain", "check", "exists"}
ClosedPhases == {"idle", "done", "error"}

\* A run some client was given the id of, and whose coroutine has not ended.
Active(r) == task[r] \in LiveStages

(***************************************************************************)
(* The readers of the store.  up says whether the database answered.       *)
(***************************************************************************)
\* _run_exists: a torn file counts, nothing is parsed.
RunExists(r, up) == (up /\ r \in inDb) \/ file[r] # "absent"

\* _get_one_result, _get_results, _get_summaries: a torn file does not parse.
Served(r, up) == (up /\ r \in inDb) \/ file[r] = "whole"

---------------------------------------------------------------------------
Init ==
    /\ running = {}
    /\ errors = {}
    /\ stopRequested = {}
    /\ progress = [r \in Runs |-> <<>>]
    /\ task = [r \in Runs |-> "none"]
    /\ worker = [r \in Runs |-> "idle"]
    /\ answered = [r \in Runs |-> 0]
    /\ stopped = [r \in Runs |-> FALSE]
    /\ inDb = {}
    /\ file = [r \in Runs |-> "absent"]
    /\ reader = [phase |-> "idle", rows |-> {}]
    /\ deleter = [phase |-> "idle", run |-> NoRun, hit |-> FALSE]
    /\ socket = [s \in Sockets |-> [phase |-> "idle", run |-> NoRun, sent |-> 0]]
    /\ stopAt = [r \in Runs |-> {}]
    /\ restarts = 0

---------------------------------------------------------------------------
(* POST /experiments *)

\* create_experiment: refused when the external RAG or its secret is missing or
\* an awaited lookup fails, before anything but _progress is touched.
CreateExperiment(r) ==
    /\ task[r] = "none"
    /\ progress' = [progress EXCEPT ![r] = <<>>]
    /\ \/ /\ task' = [task EXCEPT ![r] = "refused"]
          /\ UNCHANGED running
       \/ /\ task' = [task EXCEPT ![r] = "scheduled"]
          /\ running' = running \cup {r}
    /\ UNCHANGED <<errors, stopRequested, worker, answered, stopped, store, asides,
                   stopAt, restarts>>

---------------------------------------------------------------------------
(* The pool *)

\* asyncio.to_thread: the job waits for a thread of the default executor.
Submit(r, stage) ==
    /\ task' = [task EXCEPT ![r] = stage]
    /\ worker' = [worker EXCEPT ![r] = "queued"]

TakeWorker(r) ==
    /\ worker[r] = "queued"
    /\ Cardinality({q \in Runs : worker[q] \in BusyStages}) < Workers
    /\ worker' = [worker EXCEPT ![r] = IF task[r] = "questions" THEN "build" ELSE "offline"]
    /\ UNCHANGED <<memory, task, answered, stopped, store, asides, stopAt, restarts>>

\* The jobs after the questions: judge_pending, _build_pipeline again,
\* _diagnose_root_causes.  Each ends by returning or by raising.
OfflineWork(r) ==
    /\ worker[r] = "offline"
    /\ \E end \in {"returned", "raised"} : worker' = [worker EXCEPT ![r] = end]
    /\ UNCHANGED <<memory, task, answered, stopped, store, asides, stopAt, restarts>>

---------------------------------------------------------------------------
(* ExperimentRunner.run, on a worker thread *)

\* _build_pipeline before the loop; an unknown component makes it raise.
BuildPipeline(r) ==
    /\ worker[r] = "build"
    /\ \E next \in {"check", "raised"} : worker' = [worker EXCEPT ![r] = next]
    /\ UNCHANGED <<memory, task, answered, stopped, store, asides, stopAt, restarts>>

\* Variant with a bug: one question too many is asked for.
CheckStopLate(r) ==
    /\ worker[r] = "check"
    /\ IF answered[r] > Questions[r]
       THEN /\ worker' = [worker EXCEPT ![r] = "returned"]
            /\ UNCHANGED stopped
       ELSE IF r \in stopRequested
       THEN /\ worker' = [worker EXCEPT ![r] = "returned"]
            /\ stopped' = [stopped EXCEPT ![r] = TRUE]
       ELSE /\ worker' = [worker EXCEPT ![r] = "answer"]
            /\ UNCHANGED stopped
    /\ UNCHANGED <<memory, task, answered, store, asides, stopAt, restarts>>

\* Variant with a bug: should_stop is read before the first question only.
CheckStopOnce(r) ==
    /\ worker[r] = "check"
    /\ IF answered[r] = Questions[r]
       THEN /\ worker' = [worker EXCEPT ![r] = "returned"]
            /\ UNCHANGED stopped
       ELSE IF r \in stopRequested /\ answered[r] = 0
       THEN /\ worker' = [worker EXCEPT ![r] = "returned"]
            /\ stopped' = [stopped EXCEPT ![r] = TRUE]
       ELSE /\ worker' = [worker EXCEPT ![r] = "answer"]
            /\ UNCHANGED stopped
    /\ UNCHANGED <<memory, task, answered, store, asides, stopAt, restarts>>

\* The head of the loop: the dataset is exhausted, or should_stop() is read.
CheckStop(r) ==
    /\ worker[r] = "check"
    /\ IF answered[r] = Questions[r]
       THEN /\ worker' = [worker EXCEPT ![r] = "returned"]
            /\ UNCHANGED stopped
       ELSE IF r \in stopRequested
       THEN /\ worker' = [worker EXCEPT ![r] = "returned"]
            /\ stopped' = [stopped EXCEPT ![r] = TRUE]
       ELSE /\ worker' = [worker EXCEPT ![r] = "answer"]
            /\ UNCHANGED stopped
    /\ UNCHANGED <<memory, task, answered, store, asides, stopAt, restarts>>

\* One question: a failing pipeline leaves an error result and the loop goes
\* on, an answer is evaluated and kept; on_progress publishes either.
AnswerQuestion(r) ==
    /\ worker[r] = "answer"
    /\ answered' = [answered EXCEPT ![r] = @ + 1]
    /\ progress' = [progress EXCEPT ![r] = Append(@, answered[r] + 1)]
    /\ worker' = [worker EXCEPT ![r] = "check"]
    /\ UNCHANGED <<running, errors, stopRequested, task, stopped, store, asides, stopAt,
                   restarts>>

\* Variant with a bug: what was answered so far is returned as the result.
EvaluatorEndsTheLoop(r) ==
    /\ worker[r] = "answer"
    /\ worker' = [worker EXCEPT ![r] = "returned"]
    /\ UNCHANGED <<memory, task, answered, stopped, store, asides, stopAt, restarts>>

\* The evaluator is outside the per-question try: it ends the whole run.
EvaluatorRaises(r) ==
    /\ worker[r] = "answer"
    /\ worker' = [worker EXCEPT ![r] = "raised"]
    /\ UNCHANGED <<memory, task, answered, stopped, store, asides, stopAt, restarts>>

---------------------------------------------------------------------------
(* _run_experiment_background, on the event loop *)

StartTask(r) ==
    /\ task[r] = "scheduled"
    /\ Submit(r, "questions")
    /\ UNCHANGED <<memory, answered, stopped, store, asides, stopAt, restarts>>

\* Variant with a bug: the stop request outlives the run.
FinishStillStopping(r, how) ==
    /\ task' = [task EXCEPT ![r] = how]
    /\ worker' = [worker EXCEPT ![r] = "idle"]
    /\ running' = running \ {r}
    /\ errors' = IF how = "failed" THEN errors \cup {r} ELSE errors
    /\ UNCHANGED <<stopRequested, progress, answered, stopped, asides, stopAt, restarts>>

\* The finally clause: whatever happened, the run leaves the gateway's sets.
\* The except clause before it (how = "failed") also records the error.
Finish(r, how) ==
    /\ task' = [task EXCEPT ![r] = how]
    /\ worker' = [worker EXCEPT ![r] = "idle"]
    /\ running' = running \ {r}
    /\ stopRequested' = stopRequested \ {r}
    /\ errors' = IF how = "failed" THEN errors \cup {r} ELSE errors
    /\ UNCHANGED <<progress, answered, stopped, asides, stopAt, restarts>>

\* Variant with a bug: only the finally clause takes the run out of _running.
QuestionsReturnedStillRunning(r) ==
    /\ task[r] = "questions"
    /\ worker[r] = "returned"
    /\ task' = [task EXCEPT ![r] = "manifest"]
    /\ worker' = [worker EXCEPT ![r] = "idle"]
    /\ UNCHANGED <<memory, answered, stopped, store, asides, stopAt, restarts>>

\* runner.run returned: the run leaves _running here, before it is saved.
QuestionsReturned(r) ==
    /\ task[r] = "questions"
    /\ worker[r] = "returned"
    /\ task' = [task EXCEPT ![r] = "manifest"]
    /\ worker' = [worker EXCEPT ![r] = "idle"]
    /\ running' = running \ {r}
    /\ UNCHANGED <<errors, stopRequested, progress, answered, stopped, store, asides,
                   stopAt, restarts>>

\* _corpus_manifest: a database that cannot be reached yields {}.
ReadManifest(r) ==
    /\ task[r] = "manifest"
    /\ Submit(r, "judge")
    /\ UNCHANGED <<memory, answered, stopped, store, asides, stopAt, restarts>>

\* The statements deferred during the run are judged; the diagnosis is skipped
\* for an external RAG.
Judged(r) ==
    /\ task[r] = "judge"
    /\ worker[r] = "returned"
    /\ IF r \in ExternalRuns
       THEN /\ task' = [task EXCEPT ![r] = "save"]
            /\ worker' = [worker EXCEPT ![r] = "idle"]
       ELSE Submit(r, "rebuild")
    /\ UNCHANGED <<memory, answered, stopped, store, asides, stopAt, restarts>>

\* A pipeline that cannot be rebuilt only costs the diagnosis its re-queries.
Rebuilt(r) ==
    /\ task[r] = "rebuild"
    /\ worker[r] \in {"returned", "raised"}
    /\ Submit(r, "diagnose")
    /\ UNCHANGED <<memory, answered, stopped, store, asides, stopAt, restarts>>

Diagnosed(r) ==
    /\ task[r] = "diagnose"
    /\ worker[r] = "returned"
    /\ task' = [task EXCEPT ![r] = "save"]
    /\ worker' = [worker EXCEPT ![r] = "idle"]
    /\ UNCHANGED <<memory, answered, stopped, store, asides, stopAt, restarts>>

\* Variant with a bug: the try ends before the judging starts.
OnlyQuestionsRaised(r) ==
    /\ task[r] = "questions"
    /\ worker[r] = "raised"
    /\ Finish(r, "failed")
    /\ UNCHANGED store

\* runner.run, judge_pending or _diagnose_root_causes raised.
JobRaised(r) ==
    /\ task[r] \in {"questions", "judge", "diagnose"}
    /\ worker[r] = "raised"
    /\ Finish(r, "failed")
    /\ UNCHANGED store

\* _save, first half: the database takes the run or rejects it, logged only.
SaveDocument(r) ==
    /\ task[r] = "save"
    /\ task' = [task EXCEPT ![r] = "file"]
    /\ \/ inDb' = inDb \cup {r}
       \/ UNCHANGED inDb
    /\ UNCHANGED <<memory, worker, answered, stopped, file, asides, stopAt, restarts>>

\* _save, second half, with the end of the coroutine: nothing is awaited
\* between them.  A write that raises may leave a torn file behind.
WriteFile(r) ==
    /\ task[r] = "file"
    /\ \/ /\ file' = [file EXCEPT ![r] = "whole"]
          /\ Finish(r, "kept")
       \/ /\ \E left \in {file[r], "torn"} : file' = [file EXCEPT ![r] = left]
          /\ Finish(r, "failed")
    /\ UNCHANGED inDb

---------------------------------------------------------------------------
(* POST /experiments/{run_id}/stop *)

\* Accepted as long as the run is in _running; otherwise 404, no change.
StopExperiment(r) ==
    /\ r \in running
    /\ stopRequested' = stopRequested \cup {r}
    /\ stopAt' = [stopAt EXCEPT ![r] = IF @ = {} THEN {answered[r]} ELSE @]
    /\ UNCHANGED <<running, errors, progress, work, store, asides, restarts>>

---------------------------------------------------------------------------
(* DELETE /experiments/{run_id} *)

\* delete_one; a database that does not answer is passed over.
DeleteDocument(r) ==
    /\ deleter.phase = "idle"
    /\ task[r] \notin {"none", "refused"}
    /\ \E up \in BOOLEAN :
          /\ deleter' = [phase |-> "file", run |-> r, hit |-> up /\ r \in inDb]
          /\ inDb' = IF up THEN inDb \ {r} ELSE inDb
    /\ UNCHANGED <<memory, work, file, reader, socket, stopAt, restarts>>

\* unlink; hit is what the reply depends on, 204 or 404.
DeleteFile ==
    /\ deleter.phase = "file"
    /\ deleter' = [phase |-> "idle", run |-> NoRun, hit |-> FALSE]
    /\ file' = [file EXCEPT ![deleter.run] = "absent"]
    /\ UNCHANGED <<memory, work, inDb, reader, socket, stopAt, restarts>>

---------------------------------------------------------------------------
(* GET /experiments and GET /experiments/{run_id} *)

\* The awaited read of the store comes first ...
ReadStore ==
    /\ reader.phase = "idle"
    /\ \E up \in BOOLEAN :
          reader' = [phase |-> "read", rows |-> {r \in Runs : Served(r, up)}]
    /\ UNCHANGED <<memory, work, store, deleter, socket, stopAt, restarts>>

\* ... and the gateway's own sets are read after it, in one go with the reply.
Reply ==
    /\ reader.phase = "read"
    /\ reader' = [phase |-> "idle", rows |-> {}]
    /\ UNCHANGED <<memory, work, store, deleter, socket, stopAt, restarts>>

---------------------------------------------------------------------------
(* The progress socket: experiment_progress *)

SetSocket(s, phase, run, sent) ==
    socket' = [socket EXCEPT ![s] = [phase |-> phase, run |-> run, sent |-> sent]]

ConnectSocket(s, r) ==
    /\ socket[s].phase = "idle"
    /\ task[r] \notin {"none", "refused"}
    /\ SetSocket(s, "drain", r, 0)
    /\ UNCHANGED <<memory, work, store, reader, deleter, stopAt, restarts>>

\* events[sent:] is sliced here; sending it awaits, so events may be added.
DrainEvents(s) ==
    /\ socket[s].phase = "drain"
    /\ SetSocket(s, "check", socket[s].run, Len(progress[socket[s].run]))
    /\ UNCHANGED <<memory, work, store, reader, deleter, stopAt, restarts>>

\* Variant with a bug: a run that failed is waited for in the store.
CheckRunningOnly(s) ==
    LET run == socket[s].run IN
    /\ socket[s].phase = "check"
    /\ SetSocket(s, IF run \in running THEN "drain" ELSE "exists", run, socket[s].sent)
    /\ UNCHANGED <<memory, work, store, reader, deleter, stopAt, restarts>>

\* An error ends the stream, a run that still runs makes it sleep, otherwise
\* the store is asked.
CheckMemory(s) ==
    LET run == socket[s].run IN
    /\ socket[s].phase = "check"
    /\ SetSocket(s, IF run \in errors THEN "error"
                    ELSE IF run \in running THEN "drain" ELSE "exists",
                 run, socket[s].sent)
    /\ UNCHANGED <<memory, work, store, reader, deleter, stopAt, restarts>>

\* Variant with a bug: the run being in the store is enough.
CheckExistsOnly(s) ==
    LET run == socket[s].run IN
    /\ socket[s].phase = "exists"
    /\ \E up \in BOOLEAN :
          SetSocket(s, IF RunExists(run, up) THEN "done" ELSE "drain", run, socket[s].sent)
    /\ UNCHANGED <<memory, work, store, reader, deleter, stopAt, restarts>>

\* "done" needs the run in the store and every event sent.
CheckExists(s) ==
    LET run == socket[s].run IN
    /\ socket[s].phase = "exists"
    /\ \E up \in BOOLEAN :
          SetSocket(s, IF RunExists(run, up) /\ socket[s].sent >= Len(progress[run])
                       THEN "done" ELSE "drain",
                    run, socket[s].sent)
    /\ UNCHANGED <<memory, work, store, reader, deleter, stopAt, restarts>>

\* The client goes away (WebSocketDisconnect), or forgets a finished stream.
Disconnect(s) ==
    /\ socket[s].phase # "idle"
    /\ SetSocket(s, "idle", NoRun, 0)
    /\ UNCHANGED <<memory, work, store, reader, deleter, stopAt, restarts>>

---------------------------------------------------------------------------
(* A restart of the gateway: module state, coroutines, threads and         *)
(* connections are gone; a file being written may be torn.                 *)
Restart ==
    /\ restarts < MaxRestarts
    /\ restarts' = restarts + 1
    /\ running' = {}
    /\ errors' = {}
    /\ stopRequested' = {}
    /\ progress' = [r \in Runs |-> <<>>]
    /\ task' = [r \in Runs |-> IF Active(r) THEN "lost" ELSE task[r]]
    /\ worker' = [r \in Runs |-> "idle"]
    /\ \E torn \in SUBSET {r \in Runs : task[r] = "file"} :
          file' = [r \in Runs |-> IF r \in torn THEN "torn" ELSE file[r]]
    /\ reader' = [phase |-> "idle", rows |-> {}]
    /\ deleter' = [phase |-> "idle", run |-> NoRun, hit |-> FALSE]
    /\ socket' = [s \in Sockets |-> [phase |-> "idle", run |-> NoRun, sent |-> 0]]
    /\ UNCHANGED <<answered, stopped, inDb, stopAt>>

---------------------------------------------------------------------------
PoolStep(r) == TakeWorker(r) \/ OfflineWork(r)

RunnerStep(r) ==
    \/ BuildPipeline(r)
    \/ CheckStop(r)
    \/ AnswerQuestion(r)
    \/ EvaluatorRaises(r)

CoroutineStep(r) ==
    \/ StartTask(r)
    \/ QuestionsReturned(r)
    \/ ReadManifest(r)
    \/ Judged(r)
    \/ Rebuilt(r)
    \/ Diagnosed(r)
    \/ JobRaised(r)
    \/ SaveDocument(r)
    \/ WriteFile(r)

SocketStep(s) ==
    \/ DrainEvents(s)
    \/ CheckMemory(s)
    \/ CheckExists(s)

Next ==
    \/ \E r \in Runs :
          \/ CreateExperiment(r)
          \/ PoolStep(r)
          \/ RunnerStep(r)
          \/ CoroutineStep(r)
          \/ StopExperiment(r)
          \/ DeleteDocument(r)
    \/ DeleteFile
    \/ ReadStore
    \/ Reply
    \/ \E s \in Sockets :
          \/ \E r \in Runs : ConnectSocket(s, r)
          \/ SocketStep(s)
          \/ Disconnect(s)
    \/ Restart

Spec == Init /\ [][Next]_vars

(***************************************************************************)
(* The loop resumes what is ready, threads run and the executor serves its *)
(* queue in order; no client has to do anything and no restart has to come.*)
(* A queued job may see the pool full again and again, and the order of    *)
(* the executor's queue is what gets it a thread in the end: hence SF.     *)
(***************************************************************************)
Fairness ==
    /\ \A r \in Runs :
          /\ SF_vars(TakeWorker(r))
          /\ WF_vars(OfflineWork(r))
          /\ WF_vars(RunnerStep(r))
          /\ WF_vars(CoroutineStep(r))
    /\ WF_vars(DeleteFile)
    /\ WF_vars(Reply)
    /\ \A s \in Sockets : WF_vars(SocketStep(s))

FairSpec == Spec /\ Fairness

---------------------------------------------------------------------------
(* Properties *)

TypeOK ==
    /\ running \subseteq Runs
    /\ errors \subseteq Runs
    /\ stopRequested \subseteq Runs
    /\ progress \in [Runs -> Seq(Nat)]
    /\ task \in [Runs -> TaskStages]
    /\ worker \in [Runs -> WorkerStages]
    /\ answered \in [Runs -> Nat]
    /\ \A r \in Runs : answered[r] <= Questions[r]
    /\ stopped \in [Runs -> BOOLEAN]
    /\ inDb \subseteq Runs
    /\ file \in [Runs -> Copies]
    /\ reader \in [phase : {"idle", "read"}, rows : SUBSET Runs]
    /\ deleter \in [phase : {"idle", "file"}, run : Runs \cup {NoRun}, hit : BOOLEAN]
    /\ socket \in [Sockets -> [phase : OpenPhases \cup ClosedPhases,
                               run : Runs \cup {NoRun}, sent : Nat]]
    /\ stopAt \in [Runs -> SUBSET Nat]
    /\ restarts \in 0..MaxRestarts

(***************************************************************************)
(* The code implements the promise.                                        *)
(***************************************************************************)
lifeOf == [r \in Runs |->
    IF task[r] \in {"none", "refused"} THEN "unborn"
    ELSE IF Active(r) THEN "active"
    ELSE IF task[r] = "kept" THEN (IF stopped[r] THEN "cut" ELSE "complete")
    ELSE task[r]]

Promise == INSTANCE RunPromise WITH
    life <- lifeOf, answered <- answered, asked <- {r \in Runs : stopAt[r] # {}}

\* A result that is kept covers its dataset unless a stop was accepted for it, and the
\* questions of a run only advance while its coroutine lives (runner.run, _save, stop).
KeepsThePromise == Promise!PromiseSpec

\* "A single question already in flight still finishes", and no other: once a stop has
\* been answered "stopping", the run gains at most one more result, whatever the threads
\* and the loop do in between (stop_experiment, should_stop in runner.run).
StopCostsAtMostOneQuestion ==
    \A r \in Runs : \A k \in stopAt[r] : answered[r] <= k + 1

\* list_experiments puts the runs of the store and the runs of _running side by side
\* without comparing them, and get_experiment answers "running" after a read that missed
\* the run.  No run is in both, though the two are read on two sides of an await: this
\* rests on _running losing the run before _save gives it to the store.
NoRunIsSeenTwice ==
    reader.phase = "read" => reader.rows \cap running = {}

\* A progress socket that said "done" had sent every event of its run, though events were
\* added by a worker thread while it was sending (experiment_progress).
DoneMeansEverythingSent ==
    \A s \in Sockets :
        socket[s].phase = "done" =>
            /\ socket[s].run \notin running
            /\ socket[s].sent = Len(progress[socket[s].run])

\* Nothing of a run stays behind in the gateway's sets once its coroutine has ended: no
\* flag that would be read as running or stopping, and no run both running and failed.
NothingOutlivesItsRun ==
    /\ \A r \in running \cup stopRequested : Active(r)
    /\ \A r \in errors : task[r] = "failed"

\* Every run that was accepted comes to an end, unless the gateway restarts under it:
\* kept, or failed with its error recorded (_run_experiment_background).
RunSettles ==
    \A r \in Runs : (task[r] = "scheduled") ~> (task[r] \in FinalStages)

\* A progress socket ends by itself, unless its run left nothing to be told by: deleted,
\* or lost in a restart (experiment_progress).
SocketEventuallyCloses ==
    \A s \in Sockets :
        (socket[s].phase \in OpenPhases) ~>
            \/ socket[s].phase \notin OpenPhases
            \/ /\ task[socket[s].run] \in FinalStages
               /\ socket[s].run \notin errors
               /\ file[socket[s].run] = "absent"

---------------------------------------------------------------------------
(* The inductive invariant behind the safety properties *)

Asking(r) == task[r] \in {"scheduled", "questions"}
Stored(r) == task[r] \in {"file", "kept", "failed", "lost"}

\* runner.run has returned a result, and the coroutine has not failed with it.
HasResult(r) ==
    \/ task[r] = "questions" /\ worker[r] = "returned"
    \/ task[r] \in {"manifest", "judge", "rebuild", "diagnose", "save", "file", "kept"}

\* The gateway's sets follow the coroutine; the store follows _save.
SetsFollowTheTask(r) ==
    /\ r \in running <=> Asking(r)
    /\ r \in stopRequested => Active(r) /\ stopAt[r] # {}
    /\ r \in errors => task[r] = "failed"
    /\ task[r] = "none" => stopAt[r] = {}
    /\ stopAt[r] # {} /\ Asking(r) => r \in stopRequested
    /\ r \in inDb \/ file[r] # "absent" \/ r \in reader.rows => Stored(r)

\* The pool works for a coroutine that waits for it, on the job it submitted.
WorkerFollowsTheTask(r) ==
    /\ worker[r] # "idle" => task[r] \in PoolStages
    /\ worker[r] \in LoopStages => task[r] = "questions"
    /\ worker[r] = "offline" => task[r] # "questions"
    /\ worker[r] = "answer" => answered[r] < Questions[r]
    /\ worker[r] \in LoopStages \cup {"queued"} /\ task[r] = "questions" => ~stopped[r]
    /\ task[r] \in {"none", "scheduled"} => ~stopped[r]

\* A result is whole, or short because of a stop that had been accepted.
ResultIsAccountedFor(r) ==
    HasResult(r) =>
        IF stopped[r] THEN stopAt[r] # {} /\ answered[r] < Questions[r]
                      ELSE answered[r] = Questions[r]

\* The question in flight is the one a stop still waits for.
StopWaitsForOne(r) ==
    \A k \in stopAt[r] : answered[r] <= (IF worker[r] = "answer" THEN k ELSE k + 1)

Consistent(r) ==
    /\ SetsFollowTheTask(r)
    /\ WorkerFollowsTheTask(r)
    /\ ResultIsAccountedFor(r)
    /\ StopWaitsForOne(r)

RunInv == \A r \in Runs : Consistent(r)

\* A socket serves a run that was created and has sent no more than was published.
SocketConsistent(s) ==
    socket[s].phase # "idle" =>
        /\ socket[s].run \in Runs
        /\ task[socket[s].run] \notin {"none", "refused"}
        /\ socket[s].sent <= Len(progress[socket[s].run])
        /\ socket[s].phase \in {"exists", "done"} => socket[s].run \notin running
        /\ socket[s].phase = "done" => socket[s].sent = Len(progress[socket[s].run])

SocketInv == \A s \in Sockets : SocketConsistent(s)

---------------------------------------------------------------------------
(* What the comments of the code say, and the code does not do *)

\* "A run_id appears here the instant create_experiment returns and is removed once the
\* background task finishes successfully (the result is then findable) or fails (moved to
\* _errors)": a status request never finds an active run in none of the three.
ActiveRunIsKnown ==
    \A r \in Runs : Active(r) => r \in running \cup errors \/ Served(r, TRUE)

\* "POST /{run_id}/stop now correctly 404s once the loop has actually finished, instead
\* of accepting a stop it can never honor."
StopIsRefusedOnceTheLoopEnded ==
    \A r \in running : worker[r] # "returned"
============================================================================
