# A TLA+ model of causa-rag

causa-rag measures retrieval-augmented generation systems. Its API gateway keeps *realms* with
their corpora, question sets, prompts and registered systems, runs *experiments* (a configuration
against a dataset of questions), keeps the results in MongoDB and in files, and explains what went
wrong in them. This directory holds TLA+ modules of the parts where order and failure matter and of
the rules the explanations rest on, the TLC configurations that check them, and TLAPS proofs.

    tlc -config ExperimentRun.cfg MCExperimentRun      one of the runs listed below
    tlc -config MCJobs.cfg MCJobs                      a suite: several components, one by one
    tlapm ExperimentRunProofs.tla                      the proofs of a module

`PROJECT.json` lists the components, the runs, the definitions with the source lines they stand
for, the variants with a bug, the hazards with the properties that cover them, the findings and the
theorems.

## Inventory

Modules are in brackets. Components without one are under "Not modelled".

| Component | State it keeps | Operations | Hard behaviours | What makes it correct |
|---|---|---|---|---|
| Experiment runs [`ExperimentRun`, `RunPromise`] | `_progress`, `_running`, `_errors`, `_stop_requested`; a coroutine and a worker thread per run | create, stop, list, status, delete, progress socket | threads against the event loop, awaits between reading and using, restart, bounded pool | a kept result is complete or was asked to be cut; a stop is prompt; every run settles; a stream sends everything and ends |
| Run store [`RunStore`, `RunReaders`] | `experiment_runs`, `experiment_run_windows`, one file per run, the baseline mark | save, read, list, delete, pin, compact | several calls per save, each refusable; process death; two writers; readers of two calls | what is served is what was written; the file outlives the database; a list misses no run |
| Run document codec [`RunDocument`] | none | dedupe, split, merge, restore | identifiers that do not determine texts or questions, lost parts | round trip; the final context never depends on a lost part |
| Pipeline assembly, evaluator [`ExperimentRun`, `PipelineBinding`] | deferred verdicts | build a pipeline, evaluate, judge later | any call may raise; what a run is bound to changes between runs | a raising component ends the run and nothing else; a run reads its realm |
| Corpus registry [`CorpusRegistry`] | `corpora`, collections and indexes | ingest, command line, snapshot, dump, cypher, register, edit, soft and hard delete, restore | find then insert, backends replaced in steps, deletes beside loads | the record is that of the last load; a hard delete leaves nothing; deleted stays deleted |
| Ingestion jobs [`CorpusIngestion`] | progress, `corpus_ingests`, a temporary directory, a subprocess | upload, run, follow, delete, restart | a process against a socket, lines lost in a pipe, restart | done means indexed; every job ends; no files are left |
| Knowledge graph [`KnowledgeGraph`] | nodes, edges, communities per instance | import, ingest, detect, drill down | instances shared between realms, loads over earlier loads | a realm is answered its own communities |
| Neo4j provisioning [`Neo4jProvisioning`] | the overlay, ports, containers, job status | post, generate, start, poll | two requests over one file, containers that never become healthy | two realms never share a port in one run; a job ends and says what happened |
| Realms, MongoDB access [`RealmRegistry`] | `realms`, `external_rags`, `datasets`, export files | create, edit, export, import, soft and hard delete | checks before awaits, children before parent, several documents under one id | one realm per id; no RAG without its realm; a dry run writes nothing |
| Secrets [`RealmSecrets`] | sealed fields, the key | store, mask, open, export, import, seal, rotate | a tool that writes beside the gateway, a rotation stopped half way | no new secret in the clear; what nobody else wrote is sealed when the tool ends, under the new key after a rotation, and stays the secret it was wherever it is stopped |
| Datasets [`DatasetEdits`] | `datasets` | create, delete, list, edit questions | read-modify-write across awaits | what is shown is what is scored; edits are marked; lists are of the realm |
| Settings and packs [`GatewaySettings`] | `settings`, the registry, `PACK_COMPONENTS` | start, put settings, offer components | process-wide state for per-realm settings, packs that raise half way | what is activated is loaded; a realm is offered its own packs |
| Prompts [`PromptActivation`] | files and documents | create, activate, delete, seed, import | activation writes many files then many documents; pipelines read meanwhile | activation stays in its realm; texts are kept; own templates first |
| External RAG registry [`ExternalRag`] | `external_rags`, their question sets | post, patch, delete with cascade, test | two edits, a test that writes what it read | no edit is lost, deleted stays deleted |
| External RAG pipeline [`HttpPipeline`] | a built pipeline | build, run, retrieve | templates, mappings, an allow list, errors of a foreign system | only allowed addresses; the context arrives; an error is no answer |
| Question generation [`GenerationJob`] | jobs, presets, events | sample, start, ask, follow | a model that answers anything; a task that dies | drafts have grounds; a socket ends |
| Query pipeline, pins [`QueryPipeline`] | one question | retrieve, score, rerank, pin, generate, ground, cite | a generator shared between pipelines, several rankings in a row | a found fragment is in the context, repeats a text, was demoted or had no place |
| Hybrid retrieval [`Fusion`, `Retrieval`, `PipelineBinding`] | registered retrievers, bound copies | fuse by rank or weight, add the graph, bind to a corpus | scales, ties, lists of different lengths; start-up against what answers then | both halves decide; the index stems as its text was written |
| Questions in the chat [`ChatQuery`] | the trace cache | ask, trace | questions that overlap, ids that repeat, eviction | a RAG of the realm answers |
| Scores and diagnosis [`QuestionScore`] | one question of a run | score, funnel, stages, root cause | metrics without grounds; stages that disagree | a stage that is blamed failed |
| Run page detectors [`RunDetectors`] | none | detect over a run | a fault that shows in many numbers | a healthy run is quiet, a fault speaks once |
| Comparison [`RunComparison`] | a socket's events | pair, resample, prescribe, accept | flips that are noise; conditions that changed since | symmetric, reflexive, flips cleared by answers alone |
| Judgments and bundles [`JudgmentStore`, `FixBundle`] | a file of lines edited by hand | create, patch, delete, promote, publish, receive, calibrate | torn appends, texts that recur, another index | a rewrite touches one line; a text is found again |
| Feedback and production [`FeedbackTriage`, `QuestionPromotion`] | one document per answer or trace | save, triage, decide, collect, promote, review | read-modify-write around a model call | promoted once; a proposal rests on a class with a lever |
| Chunking, adapters, atlas, trace log, reference and faulty servers, client, UI, benchmarks | outside or none | | none of their own | not modelled |

Interaction: the HTTP handlers, the coroutines of runs and jobs and the sockets share module-level
state on one event loop; worker threads share `_stop_requested`, `_progress` and the generator
object with it; everything else goes through MongoDB, the disk and the retrieval backends, which
other programs (`services/ingestion/cli.py`, `eval/miracl`, `tools/*`, people with an editor) write
as well. A handler is cut into actions exactly at its awaits and its calls of another service.

## Modules

| Module | Models | Extends / instantiates |
|---|---|---|
| `RunPromise` | what POST /experiments promises of a run, as an abstract machine | - |
| `ExperimentRun` | the life of runs in the gateway | instance of `RunPromise` |
| `RunStore` | the three places a run is kept in, call by call | - |
| `RunReaders` | who reads that store meanwhile, and the compaction tool | `RunStore` |
| `RunDocument` | what is written of a result and what a reader makes of it | - |
| `Fusion`, `Retrieval` | ranked lists and their fusion; a retrieval through both halves and the graph | `Retrieval` extends `Fusion` |
| `QueryPipeline` | one question through the pipeline | `Fusion` |
| the other component modules | see the inventory; each is one component | - |
| `Selections` | what a list comprehension with a condition takes of a list | used by the modules that filter lists, and by `ListFacts` |
| `Lists` | the operators of `SequencesExt` that the modules use, without the bags it brings in (each `INSTANCE` would carry their theory into the proofs) | `FiniteSetsExt` |
| `MCExperimentRun` | instances of `ExperimentRun` | `ExperimentRun` |
| `MCRunStore` | who is about the store together (`FourCasts`) | `RunReaders` |
| `MCRegistries`, `MCJobs`, `MCAnswering`, `MCReview` | the four suites: components side by side | instances of the components |
| `ExperimentRunProofs`, `RunDocumentProofs` | theorems about these components | the module, TLAPS |
| `RunStoreProofs` | theorems about `RunStore` and `RunReaders` | `RunReaders`, TLAPS |
| `ListFacts` | lemmas on finite sets, selections and folds over lists | `Selections`, the library's theorem modules |
| `RegistriesProofs`, `JobsProofs`, `AnsweringProofs`, `ReviewProofs` | theorems about the four suites | the suite, `ListFacts` |

Each module of code also defines a few *variants with a bug* beside the operator they vary. No
specification uses them; putting one in the place of its operator makes TLC find the
property violated that it is paired with in `PROJECT.json`, which shows the property is not vacuous.

The suites. Components that keep their state in collections of their own and meet only through the
event loop are put side by side in one module, and a behaviour is about one of them: the variable
`part` is chosen at the start, and the variables of the others rest. TLC goes through the sum of
their states and not through the product. That loses nothing, as none of them reads a variable of
another; where two components do meet, the meeting is inside one module (a run and its store in
`ExperimentRun`, saves and readers in `RunReaders`, a realm with its RAGs and datasets in
`RealmRegistry`, an ingestion's task with its command line in `CorpusIngestion`). A part can be
checked alone by leaving only its name in `Parts` of the configuration. The theorems about a suite
hold for any `Parts`: a part's invariant is stated as `part = "..." => Inv`, and the other parts
leave its variables alone.

### ExperimentRun

The event loop switches only at an `await`, so what the code does between two awaits is one action.
`task[r]` is the await at which `_run_experiment_background` stands (`questions`, `manifest`,
`judge`, `rebuild`, `diagnose`, `save`, `file`); `worker[r]` is where the thread working for it is
inside `ExperimentRunner.run` (`build`, `check`, `answer`) or that it does another job (`offline`).
`running`, `errors`, `stopRequested`, `progress` are the four module variables. `stopAt` remembers
how many results a run had as its first stop was accepted; it is a history and guards nothing.

| Action | Code |
|---|---|
| `CreateExperiment` | `create_experiment`: refused at a lookup, or `_running.add` and `create_task` |
| `StartTask`, `TakeWorker` | `asyncio.to_thread` and the executor's queue |
| `BuildPipeline`, `CheckStop`, `AnswerQuestion`, `EvaluatorRaises` | `ExperimentRunner.run`: assembly, head of the loop, one question with its progress event, a raising evaluator |
| `QuestionsReturned`, `ReadManifest`, `Judged`, `Rebuilt`, `Diagnosed`, `JobRaised` | the coroutine resumed after each await, with the `except` and `finally` of the whole (`Finish`) |
| `OfflineWork` | `judge_pending`, `_build_pipeline` again, `_diagnose_root_causes` |
| `SaveDocument`, `WriteFile` | the two halves of `_save` |
| `StopExperiment`, `DeleteDocument`, `DeleteFile`, `ReadStore`, `Reply` | the handlers, cut at their awaits |
| `ConnectSocket`, `DrainEvents`, `CheckMemory`, `CheckExists`, `Disconnect` | `experiment_progress` |
| `Restart` | the process ends: its memory is gone, store and files stay, a file being written may be torn |

Abstracted: the store is kept by whole runs (`RunStore` has its parts); what a question answered is
not kept, only that it has a result; a failing question is an answered one, as in the code.

### RunStore

`doc`, `windows`, `file` are the two collections and the directory; a *version* is what one call of
`_save` was given. Each database call is a step that is accepted, refused, or refused after it took
effect; the first refusal skips to the file. `SaverDies` ends a save anywhere. `delete_experiment`
is two steps, and it leaves the windows behind, as the code does. `set_baseline` is a check and a
write. `written`, `kept`, `clean`, `gone`, `touched` are histories: only `written` guards a step,
to bound the saves.

### RunDocument

A question is its id and its lists in the order of `_REF_FIELDS` (list 1 is the final context). The
scan of `_dedupe_texts` and that of `_restore_texts` are stated through the first fragment with an
id in that order, which is what their dictionaries hold. `Save` composes dedupe and split as `_save`
does and lets the windows be refused from any question on; `Read` merges and restores, for every
window the index by id may end up with.

### The registries

Every one of them is a document store behind handlers that read, decide and write with awaits in
between. A request is a record in `client`, `page`, `edit` or `handler` that holds what it has read;
its actions are its database calls.

* `CorpusRegistry`: a request is a program of steps (`LoadStep` per backend call, `RegisterStep` for
  the find and the insert or update of `_register_corpus`, `EditStep` for the edits and deletes);
  an index is the set of loads whose fragments it holds. `listed` and `cleared` are histories.
* `RealmRegistry`: collections are ordered sets of documents, so that `find_one` on an id that
  occurs twice answers the oldest, as MongoDB does here. `ImportStep` inserts the RAGs and datasets
  and the realm last; `Crash` stops the gateway between any two calls.
* `RealmSecrets`: a slot is one secret field; a value is in the clear, or sealed under a key.
  `StartTool`, `WriteOne`, `ReadBack`, `EndTool`, `StopTool` are the command line, which plans all
  its writes before the first, and reads each of them back.
* `DatasetEdits`: `Read`, then `Add`, `Update` or `Delete` write the list that was read.
* `GatewaySettings`: `Start` reads the scopes' settings and registers what the platform has,
  `LoadPack` loads one of the packs they name, which may raise at any component, `Serve` ends the
  start and `Stop` the process; `Put` and `Answer` are the two halves of a change.
* `PromptActivation`: while `writing` is not `Idle` the event loop is busy writing files and only
  the pipeline's thread sees the store; documents follow one await at a time.
* `ExternalRag`: `PatchRead`/`PatchWrite`, `Delete`/`Cascade`, `TestRead`/`TestCall`/`TestWrite`;
  `Post` is what the route does, which is not to store. `meant` is a history of the edits' sum.

### The jobs

* `CorpusIngestion`: `Upload` writes the files, `TaskStep` is the coroutine, `ProcessStep` the
  command line file by file, `Poll` the socket's loop, `Restart` loses task and progress.
* `GenerationJob`: `Start` samples groups of fragments for each entry of the request by the rules of
  its question type, `Item` asks a model whose reply is one of six kinds, `End` emits the last
  event; `Send` is the socket.
* `Neo4jProvisioning`: `HandlerStep` is the generator call by call (realms, corpora, one update per
  realm, the file), `RunJob` the task that starts the container and polls its health.
* `RunComparison`: `Compare` pairs the questions of two runs, `Sample` asks one flip again,
  `Finish` answers; `Judge` is the acceptance of a task; `Change` and `Forget` are what happens to
  index, prompt and dataset between the run and its comparison. A recall is a share of `Unit`, which
  four references of a question divide; sums and squares are counted by how many questions have each.
  `Regressed` is the gate: what fell below the baseline, and what is below an absolute floor.

### Answering a question

* `Retrieval`: the two halves answer any ranked list the filter allows; `MergeRrf` and
  `MergeWeighted` are `core/retrieval/hybrid.py`, `MergeGraph` is `graph_hybrid.py`. A fused
  score is an integer share of `Unit`.
* `PipelineBinding`: `Start` registers what answers at start-up, `BindRun` is the chain of
  `for_corpus` copies. `StartIngest` makes or compares an index and `EndIngest` writes to it, with
  `LoadDump` (which compares nothing) and `Drop` in between; a mapping may be unreadable. `compared`
  is a history: the load went to an index whose analyser it had seen or asked for.
* `QueryPipeline`: the stages in their order; `Elsewhere` is another question of the same
  generator, which may come between any two.
* `ChatQuery`: `Ask` resolves the pipeline, `Finish` stores the trace and evicts, `Fail` raises.
* `HttpPipeline`: `Build` checks the address, `Run` and `Retrieve` render, call and map.
* `KnowledgeGraph`: an instance per realm or the shared one; `ImportChunks`, `IngestFiles`,
  `Detect`, `Detail`.

### After a run

* `QuestionScore`: `Start`, `Retrieve` or `Receive` (external), `Reply`, `Score`, `Diagnose`
  (by the references that `ExpectedRefs` finds in the data set, never for an external RAG); shares are
  in sixtieths, and so are cosines, which can be below zero.
* `RunDetectors`: a *world* (what the corpus was indexed with, which halves hold it, what the load
  recorded) is chosen first, runs are produced in it, and the detectors read only the run. A question
  can be answerable or not, refused or not; the half beside the dense one may find nothing for it.
* `RunReaders`: `ReadDocument`/`ReadWindows`, `ListDocuments`/`ListCounts`/`ListFiles`/`ListRows`,
  `CompactList` to `CompactVerify`, beside every step of `RunStore`. `calm`, `steady` and `was` are
  histories. The rows of runs that still answer are in `ExperimentRun`.
* `JudgmentStore`: lines, their newline, the routes on them, and `EditByHand`. `FixBundle` tries
  every entry, index and set of scores of a bounded size.
* `QuestionPromotion`, `FeedbackTriage`: a request reads, waits (for a database or a model), and
  writes the document back; a promotion may break off before any of its writes (`Fail`), the mark's
  among them. `erased` (whose mark was removed or never written) and `writes` are histories.
* `Selections`: `Only(s, places)` is what `s` holds at these places, in its order, and `Nth` says
  which place is the k-th. The standard `SelectSeq` is recursive, and nothing could be proved of it.

## Runs and bounds

| Run | Instance | Shows |
|---|---|---|
| `ExperimentRun` | one run, two questions, one socket, one restart | all of a run's interleavings: a stop before, between and in the last question, deletes and restarts at every stage; refinement of `RunPromise`; the end of the stream |
| `ExperimentPool` | two runs (2 and 1 questions, one of an external RAG), one thread | runs that wait for each other's thread all settle |
| `RunStore` | two windows; one id of two versions with deletes and pins, of three versions with a reader or the compaction, or two ids with a list | a refused or interrupted first save under a second one, with deletes and pins, a reader between its two calls, a list between its three, or the compaction in between |
| `RunDocument` | two questions, three lists, three fragments, one chunk id with two texts, ids that are distinct, equal or empty | the round trip with any suffix of the windows lost |
| `Registries` | parts corpora (3 requests of 10 kinds), realms (one client), overlap (two clients and a crash), secrets (2 clients, 2 keys, 2 secrets), datasets, settings, prompts (3 realms), external (2 editors) | what overlapping writers may not undo or mix |
| `Jobs` | parts ingestion (3 files, a restart), generation (5 fragments of 3 documents), provisioning (2 realms, 2 requests), comparison (2 questions, 2 samples) | every job ends and says so, and what it says is true |
| `Answering` | parts retrieval (3 fragments), binding (3 writes to an index, a mapping that may be unreadable), query (4 fragments, up to 2 pins, which may only demote), chat (2 clients, 3 questions, a cache of 2), http, graph (2 realms, 2 loads), ports (3 realms) | what a question reads is its realm's, and nothing found is lost |
| `Review` | parts score (8 questions, of which two are worded alike), detectors (13 worlds, 3 questions), judgments, bundle, promotion (2 promoters, requests that fail anywhere), one promoter, triage | what is made of answers: blame that is earned, rulings that reach their place, writes that touch their own |
| `ActiveRunIsKnown`, `StopIsRefusedOnceTheLoopEnded`, `KeptRunIsServedWhole`, `WindowsGoToTheirQuestion` | the smallest that fail | the four statements of the code's comments below |

Why the bounds are enough. Runs touch each other only through the pool, so one run exercises every
race of a run with handlers and sockets, and two runs on one thread every race for the pool. Two
questions give a first, a last, and a stop between them. Two versions give a save over the remains
of another. Three fragments give a first text, a different text and a repetition of either; three
lists give the final context and two lists that share a window. In the registries two requests give
every race of one document, and a third request on corpora a delete beside two loads; two realms
give "mine and another's", a third the realm an import goes to. Three fragments with two in each
list give a fragment both halves have, one of each alone, and a cut. In the graph three fragments
and two loads give a reload with other words; in the trace cache three questions over two places
give an eviction and a repeated id. Two questions, one of one document and one of four, separate a
failure any document repairs from one that needs several. Every `Max...` constant bounds the calls,
ids or loads of a behaviour; each module says at its declaration what it bounds, and each is large
enough for the listed variants with a bug to be found out.

The systems may stop (every run settled, every client gone, every budget of calls spent), so the
configurations do not ask for the absence of deadlock; the liveness properties say what must not be
left waiting. `Registries` declares the requests on corpora symmetric: they differ in nothing but
their name, and no property of the suite is a liveness property.

Fairness. In `ExperimentRun`: weak fairness of the coroutine, worker and socket steps is the event
loop resuming what is ready and threads being scheduled. A raise is one of the outcomes of a step,
so no external system has to succeed; it has to return or raise, which the adapters' timeouts give.
`TakeWorker` has strong fairness: with more runs than threads a job finds the pool full again and
again, and it is the order of the executor's queue that gets it a thread. No client action and no
restart is fair. In `MCJobs`: weak fairness of every task, of the command line of an ingestion, of
the poll loops of sockets and of the handler that waits for a container; nothing is assumed of
users, of what a model answers, of a container's health or of restarts. The other suites check
safety and action properties only and state no fairness.

## Properties

`ExperimentRun`: `StopCostsAtMostOneQuestion` (an accepted stop lets only the question in flight
finish), `NoRunIsSeenTwice` (no request sees a run both stored and running, although it reads the
two on two sides of an await), `DoneMeansEverythingSent`, `NothingOutlivesItsRun`,
`KeepsThePromise` (refinement), `RunSettles`, `SocketEventuallyCloses`.
`RunStore`: `CleanRunIsServedWhole`, `FileSurvivesTheDatabase`, `DeletedRunStaysGone`,
`BaselineDanglesOnlyByDelete`. `RunDocument`: `WindowsComeBack`, `FinalContextSurvives`.

A property of a suite collects what the parts' modules state about one question, so that it reads
as a claim about the gateway; the module says what each conjunct means.

* `Registries`: `DeletedStaysDeleted` (a corpus or RAG comes back only by a restore or a new
  registration), `RecordFollowsTheLoads` (`LastLoadIsListed`, `HardDeleteDropsWhatItNamed`,
  `ManifestIsNeverForgotten`), `RealmsStayWhole`, `SecretsGetSealed`, `EditsAreKept`,
  `RealmsDoNotMix`.
* `Jobs`: `EveryJobSettles` (liveness of the four kinds of job and of the sockets that follow
  them), `DoneMeansDone` (uploads, realms, and drafts: templates filled, nothing of a failed call),
  `DraftsHaveGrounds` (groups that span documents), `ComparisonIsFair` (groups, noise, acceptance,
  tasks; the other way round it is the mirror, against itself a run
  shows no difference).
* `Answering`: `FusionIsFair`, `EveryRealmReadsItsOwn`, `ContextIsAccountedFor`,
  `ExternalAnswersCount`, `StepsKeepTheirWord`.
* `Review`: `BlameIsEarned`, `FaultsAreHeard`, `RulingsReachTheirPlace`, `WritesTouchTheirOwn`.

`RunReaders`: `RunsAreReadWhole` collects `QuietReadIsWhole` (a read no write overlaps is one
version with all its windows), `AnswersAreTyped`, `ListMissesNoKeptRun` and
`CompactedIsServedWhole`; what a read may give that a
write does overlap is below, under `ReaderGetsOneVersion`.

## Where code and comments disagree

1. `ActiveRunIsKnown`: from the end of its questions to its save a run is in none of `_running`,
   `_errors` and the store, and its page answers 404. Judging and diagnosis happen in this gap. The
   early removal is also what `NoRunIsSeenTwice` rests on.
2. `StopIsRefusedOnceTheLoopEnded`: a stop is still accepted between the thread's return and the
   coroutine's resumption.
3. `KeptRunIsServedWhole`: when a call after the first of `_save` is refused, the readers serve the
   document without (all of) its windows and never look at the whole file.
4. `WindowsGoToTheirQuestion`: with a repeated question id a question is served the windows of
   another one.

### Statements the other components do not keep

The modules of the suites end with the statements of the code, its tests or its documents that the
model does not satisfy, under "What the code ... does not keep". They are not part of a run. Each
was found violated by TLC with the constants of its suite: keep one part in `Parts`, add
`Chk == Corpora!OneRecordPerCorpus` (the instance of the module) to a module that extends the
suite, and give `Chk` as INVARIANT, or as PROPERTY where it is temporal. Two need other constants:
`WholeWeightKeepsItsOrder` a half with two negative scores (`DenseScores <- {-50, -80}`, a weight of
100), `AnyOneFixCloses` a run before whose second question misses all four documents. The line in
brackets is where the code departs. Most need two requests that overlap, a refused call or a stop
between two steps; the others are said as such.

`CorpusRegistry`

* `OneRecordPerCorpus` (corpus.py:90): two registrations of a corpus that is not registered yet
  leave two records.
* `SparseIsBuiltAlongside` (corpus.py:429): an ingestion that went on without OpenSearch still
  registers a sparse index.
* `ManifestDescribesTheIndex` (corpus.py:88): a snapshot replaces the collection while the record
  keeps the manifest of the load that was replaced.

`KnowledgeGraph`

* `DetailIsOfTheRealm` (corpus.py:1327): a drill-down by a realm without an instance of its own
  names fragments of another realm.
* `RelatedShareAKeyword` (neo4j_graph.py:200): a fragment loaded again with another text keeps its
  RELATED edges.

`Neo4jProvisioning`

* `PortAssignedOnce` (generate_realm_neo4j_compose.py:173): of two runs that overlap the slower
  gives a realm a second port.
* `ServiceIsInTheOverlay` (generate_realm_neo4j_compose.py:188): a later run writes the file without
  the services of the earlier ones.
* `GraphStaysWithItsData` (generate_realm_neo4j_compose.py:173): a graph ingested while a run is
  between its reading and its writing is left behind.

`RealmRegistry`

* `RemovedUnlinked` (realms.py:499): a RAG linked between the count and the removal is left without
  a realm.
* `ImportsDoNotMix` (realms.py:366): two imports choose the same free id.
* `CascadeStaysInTheRealm` (external_rags.py:336): an imported copy shares its RAG's id: removing
  one takes the datasets of both.
* `RegistrationIsKept` (external_rags.py:245): the route of a registration ends in another function.

`RealmSecrets`

* `MaskKeepsTheSecret` (realms.py:564): a form that sends the mask restores the secret it read over
  one stored since.
* `NoSecretInAFile` (realms.py:299): include_secrets puts the headers into the file.
* `RotationCanBeTakenUp` (realm_secrets.py:32): a rotation over secrets of which some are under the
  new key aborts.

`DatasetEdits`

* `CountMatches` (datasets.py:344): an edit that overlaps a deletion leaves a counter beside a list
  of another length.
* `AppendedIsKept` (datasets.py:256): a write of the list as it was read removes a question added
  since.

`GenerationJob`

* `JobSocketCloses` (generation.py:650): an answer whose reference is not a text ends the task
  without an event: its socket is never closed.

`Retrieval`

* `WholeWeightKeepsItsOrder` (hybrid.py:226): a half whose cosines are all below zero is divided by
  a negative maximum and comes out backwards.
* `FilterHolds` (neo4j_graph.py:561): the graph ignores the filter its two companions apply.

`PipelineBinding`

* `GraphCanBeRead` (neo4j_graph.py:82): the kept graph retriever has the password of the run that
  made it, whatever the store takes now.
* `IngestedCanBeAsked` (main.py:122): a hybrid run on a corpus ingested in another language is
  refused by its own binding.
* `AllTextIsStemmed` (opensearch.py:228): a dump is written to the index that is there, or to one
  of the default language, whatever its own; an ingestion that cannot read the mapping, or whose
  index is deleted before it writes, is not compared either.

`QueryPipeline`

* `PinnedOutrank` (overlay.py:180): a rewrite is fused with a list whose pinned chunks stand last.
* `DemotedStaysOut` (overlay.py:180): a rewrite brings back the chunk the pin removed.
* `PinnedReachesTheContext` (overlay.py:169): a pinned chunk that was found below the cut is neither
  lifted nor injected.
* `CitationsAreThoseInTheText` (citation.py:93): citations read the singular marker, the text is
  substituted for both.
* `MarkersNeverLeak` (citation.py:238): a plural word with one number matches neither pattern.
* `TokensAreItsOwn` (pipeline.py:415): the counts of the shared generator are read after another
  question overwrote them.

`GatewaySettings`

* `PacksSurviveAModelChange` (settings.py:76): a model is chosen while packs are being switched, or
  while the store does not answer.
* `ModelShownIsUsed` (settings.py:83): a realm's choice changes the one generator of all, and a
  restart forgets every choice.
* `OtherPacksStayHidden` (loader.py:176): a pack that raised half-way is not in PACK_COMPONENTS,
  what it registered is offered to all.
* `OwnPackIsOffered` (loader.py:179): of two packs with one component id only the first is credited
  with it.
* `InstallationGetsItsOwn` (loader.py:115): the import takes the first directory that has the pack,
  the list the last.

`ChatQuery`

* `ResponseNamesItsTrace` (main.py:546): without a header the middleware and the handler draw two
  ids.
* `CacheHoldsTheLast` (main.py:563): an id that repeats keeps its old place: the latest trace is
  another one, or it is evicted first.

`QuestionScore`

* `DroppedIsTheRerankers` (experiments.py:1012): a source below top_k of the reranker's input and
  dropped by it is put down to retrieval.
* `HealthyIsAnswered` (funnel.py:134): a refusal to an answerable question is shown as healthy.
* `AdviceClosesAFailure` (experiments.py:2028): with a reranker the advice on the context size
  counts questions whose source was already in the context.
* `CalibratedReachedTheContext` (experiments.py:1362): with a reranker the calibration counts a
  question whose source the reranker dropped.
* `MatchMeansRecall` (experiments.py:1044): a long list of an external RAG gives a metric of a match
  beside a recall of zero.
* `AllFoundIsWhole` (retrieval_metrics.py:47): a reference named twice keeps the recall of a
  question under one.
* `RetrievalMissedIt` (funnel.py:112): a question of four sources with one of them in the context is
  put down to a retrieval whose source "never reached the final context". `StagesAgreeOnFound` is
  therefore about three sources in ten, the share the funnel goes by, and not about one.
* `CauseIsOfItsOwnSources` (experiments.py:2087): of two questions worded alike, without ids, the
  second is diagnosed by the references of the first. What `MissingDataNeedsAClaim` and
  `CauseIsInTheIndex` say is said of a question that is looked up as itself (`IsItself`).

`RunDetectors`

* `StubBlamedOnlyForAStub` (detectors.py:190): a corpus indexed by a real model is called stub-
  indexed when the dense half adds nothing.
* `RightRefusalsAreNoError` (detectors.py:385): a set of which half cannot be answered, and was
  rightly refused, is an error of the run page. `HealthyRunIsQuiet` therefore excepts it.
* `SilentHalfHoldsNothing` (detectors.py:280): three questions that share no word with an index that
  holds the corpus name its half as one that returned nothing. Excepted too.
* `DominanceIsOfTheContext` (detectors.py:316): of a merge with the graph the dense half is said to
  rule by the fragments with a dense score, which those the graph found do not carry.
* `OthersAreOthers` (experiments.py:2200): a repeat of one configuration counts as another
  configuration tried before.

`RunComparison`

* `AcceptanceAgreesWithTheReport` (prescription.py:286): a flip the report took for noise is a
  regression to the acceptance.
* `ClearedUnderTheRunsConditions` (experiments.py:1610): a flip is cleared by answers under another
  prompt, index or set of pins.
* `AnyOneFixCloses` (prioritization.py:112): a question that misses four documents still fails when
  one of them is loaded.

`PromptActivation`

* `OneActivePerRealm` (prompt_store.py:182): a restart in the middle of an activation, or one that
  seeds files, leaves two active templates.
* `AskedGetsTheActive` (prompt_store.py:183): a question between the writes of two files is answered
  with a template nobody activated.
* `ScreenShowsWhatIsUsed` (prompts.py:173): two activations or a creation and a deletion that
  overlap leave screen and pipeline with different templates.
* `ImportedRealmUsesItsOwn` (prompt_store.py:119): a realm imported with an identifier that has a
  file is answered with another realm's template.

`ExternalRag`

* `RegisteredIsStored` (external_rags.py:245): A POST answered 201 stores no RAG.
* `MaskKeepsTheHeader` (external_rags.py:321): of two edits that overlap, the one that sends the
  mask undoes the header the other rotated.
* `CascadeIsWhole` (external_rags.py:336): a question set stays with a RAG that is gone: registered
  late, or the second delete never came.
* `UndeclaredIsNeverSent` (experiments.py:2365): a knob withdrawn by an edit is sent until the next
  test.

`HttpPipeline`

* `RetrievedHasNoText` (http_pipeline.py:295): a retrieval-only question to a RAG without an
  endpoint of its own keeps the generated answer.

`RunReaders`

* `ReaderGetsOneVersion` (experiments.py:426): a save that completes between the two calls of a
  reader gives it one version with the windows of the other.
* `StoppedShowsItsAnswers` (experiments.py:538): a refused count lists a stopped run with the
  questions it planned.
* `CompactionKeepsTheRun` (compact_run_storage.py:112): the compaction writes back a run that was
  saved again or deleted since its list was read.
* `CompactedIsReadAsBefore` (compact_run_storage.py:114): a compaction that ends in the middle of a
  run leaves it without windows.

`JudgmentStore`

* `AppendLosesNothing` (store.py:75): a creation after an edit that left no last newline makes one
  unreadable line of two judgments.
* `CreatedCanBeRead` (store.py:75): a judgment that was answered as created stands on the rest of a
  line that was cut short, and cannot be read.
* `DifferentQuestions` (calibration.py:113): two judgments of one question are published as
  questions that must not match each other.

`FixBundle`

* `ExactIsTheSameText` (anchor.py:132): a chunk judged while the index was out of reach is an exact
  match of any blank chunk.
* `ExactIsOfItsUnit` (anchor.py:125): a text that occurs in two units is resolved to the first of
  them.
* `NotBothWays` (anchor.py:136): a relevant and an irrelevant chunk of one unit are received as one
  chunk that is both.
* `ThresholdKeepsOthersOut` (calibration.py:77): scores that are separated by less than the margin
  give a threshold the unrelated question passes.

`QuestionPromotion`

* `PromotedOnce` (production.py:96): collecting an overlapping window removes the mark, and the
  trace is promoted a second time; so it is when the question was stored and the write of the mark
  failed (production.py:216). `TwiceOnlyUnmarked` says that a lone promoter needs one of the two.
* `PromotedOnceByTwo` (production.py:195): two readers promote one trace before either has marked
  it.
* `ConfirmedInPlace` (feedback.py:393): two reviews of one question both find it missing and both
  add it.

`FeedbackTriage`

* `SavedIsKept` (feedback.py:102): of two reviewers that save at a time the later write removes the
  other's score.
* `TriagesTheCurrent` (feedback.py:260): a comment that is changed or deleted while the model
  answers is triaged and written back.
* `DroppedIsVerified` (feedback.py:250): a source that was retrieved and dropped counts as never
  retrieved once windows are stored apart.
* `LeverFollowsTheEdit` (feedback.py:289): a corrected class keeps the lever of the class it
  corrects.

## Proofs

`ExperimentRunProofs`, for any runs, datasets, sockets, threads and restarts, from the assumptions
in `ExperimentRun` (`Questions` is a function to the naturals, `NoRun` is not a run,
`MaxRestarts` is a natural number):

* The safety properties are not inductive. `StopCostsAtMostOneQuestion` needs to know that a stop
  that was accepted is still requested while the questions run, and that the thread past its check
  has one question to go; the refinement needs to know why a result is short at every stage from
  the thread's return to the save; `NoRunIsSeenTwice` needs that what is stored, or was read from
  the store by a request under way, has left `_running`. `RunInv` collects this per run as four
  predicates (the sets follow the task, the worker follows the task, the result is accounted for, a
  stop waits for one), `SocketInv` per socket.
* `InitIInv`, `TypeStep`, `RunStep`, `SocketStepInv` show `IInv == TypeOK /\ RunInv /\ SocketInv`
  inductive, one step per action. `CreatedRunsAdvance` is what the sockets rely on from the
  other actions: events of a created run only grow, and only while it runs.
* From `InductiveInvariant` follow `TypeCorrect`, `StopIsPrompt`, `RunsAreSeenOnce`,
  `DoneIsComplete`, `SetsAreCleared`. `ImplementsThePromise` maps the initial states and every
  step to a step of `RunPromise` or a stutter.

`RunStoreProofs`, for any runs, versions and number of questions: `StoreInv` says how far the
database half of a save has come (which windows are in, that the document is this version or was
deleted), that a clean document keeps its windows, and what the two halves of a delete and of a
pin have established. `SaveStepInv`, `BeginSaveInv`, `DeleteInv`, `PinInv` preserve it; the four
safety properties and the types follow. On top of it, about `RunReaders`:

* `StoreKeepsItsWord`: the same five properties with the readers and the compaction about. Every
  other step that writes is one of `RunStore` (`StoreStepIsAStep`); a write of the compaction takes
  the run out of what is known of its last save (`AnotherWrites`, `AnotherWriteInv`), which is why
  `StoreInv` speaks of the saves that were alone with their run.
* `QuietReadsAreWhole`, `ReadersAreAnswered`: `ReadIsSound` adds that a reader between its two
  calls, met by no write, holds a document whose windows are all there, or its own.
* `CompactedRunsAreWhole`: `CompactInv` says which runs the tool has behind it, for as long as
  nobody else wrote. `ListsMissNoKeptRun`: `ListInv` follows the files that a list met at its start
  through its three reads.

`RunDocumentProofs`, for any identifiers, texts, fragments and number of lists. The invariant
`DocumentInv` has the document and the windows be what dedupe and split make of the run, with some
suffix of the windows missing, and what a reader holds be what merge and restore make of them. The
round trip is `RestoreUndoes`: the first fragment with an id, in the order of `_REF_FIELDS`, keeps
its text (`FirstIsFirst`, by the well-foundedness of that order), and every other takes it back from
there or never lost it. `FinalContextBack` needs the first list alone, so it holds without windows.

`ListFacts` has what the suites need of lists, for any lists and sets. A recursive definition cannot
be unfolded by an induction theorem here, as those take an operator, but a fold can: the iteration it
is defined by is named as a function (`FoldExists`), and what it keeps follows from the
least-number principle, by the least place where it would be lost (`FoldStays`, `FoldsByPlaces`).
`OnlyTakesThePlaces` (from `PlacesHaveRanks`: the places of a finite set are counted by their
order) says what a list comprehension with a condition gives.

`RegistriesProofs`, for any clients, requests, realms, keys and values, from the assumptions that
`MCRegistries` makes of the constants and TLC evaluates:

* `RegistriesKeepTheirShape`: the types of all eight parts, from the invariants below, each
  strengthened by what its part may hold between two awaits.
* `SecretsAreSealed`: `SecretInv` adds to the types that the plan of the tool has for every slot a
  value sealed under the new key, and of each slot nobody else wrote since the tool read it whether
  it is as planned, still the secret the plan was made of, or in need of no sealing. It says nothing
  of how the tool's database came to be, so a tool that takes up what a stopped one left is covered.
* `CorpusRecordsFollow`: `RecordIsStillThere` (between its find and its write a request knows
  whether the record it found can have gone) and `DropsAreOnCourse` (a calm hard delete past a
  backend has emptied it). A request is followed through its program: `LoadsTouch` and `LoadsLeave`
  say what one step of a load does to the indexes.
* `DeletedIsNotBroughtBack`, `NoEditIsUndone`: `ExternalInv` has every write of an edit be the fields
  it was asked for; `EditsDoAsMeant` follows them into the record. `DatasetInv` has every list that a
  page holds be made of questions whose scored answer is the shown one, each id once.
* `RealmsAreKeptWhole`: with one client, what a handler knows between its awaits still holds
  (`HandlerKnows`), so an id is free when it is taken (`FreshIsFree`) and a RAG has its realm or an
  import under way. With any number, `OverlapInv` is enough for the dry run.
* `RealmsAreApart`: `PromptInv` (identifiers of files are their own; at most one template of a realm
  is active until the store is seeded or stopped half way; what an activation has still to write
  makes it so again) and `SettingsInv` (what is credited to a pack is what it registered).

`JobsProofs`, for any uploads, restarts, replies, realms, requests and pairs of runs:

* `DoneIsDone`: `FilesInv` says what is left of an upload at each stage of its task and that the
  command line ends well only when it has been through every loadable file, `EventsInv` that an
  event that ends a job is the last one. The conjunct on containers needs only the shape of the
  status (`ProvisioningInv`).
* `ComparisonsAreFair`: `ComparisonInv` keeps that what is asked again are flips of this pair, that
  what is taken for noise was answered well each time, and that the report is the pairing with the
  noise moved. `TasksCoverFailures` says that no retrieval failure is without a task.
* `RunsAreComparedAlike` is about the rules alone: `PairedEitherWay`, `ComparableEitherWay` and
  `UnresolvedEitherWay` (the resolution looks at both runs), `NothingFalls` (against itself only an
  absolute floor is violated), `NothingDiffers`.
* `FailuresStayOut`: `GenerationInv` carries that every draft came of a usable answer;
  `TemplatesAreFilled` compares the placeholders of every template with what is filled in.
* `DraftsHaveTheirGrounds`: the greedy sampling is two folds, one inside the other. `GroupGrows`
  is what one fragment may do to a group (stay, or join it unlike every member and of another
  document), `GroupsAreWhole` what a seed may do to the list of groups (nothing, or one full group
  that was not there), `GroupedIsFair` what the groups of all the entries are: no two of one entry
  alike, though an entry may repeat a group of another; `JobInv` carries them for a job from its
  sampling on.
* `JobsKeepTheirShape`: the account of a drafting (each group tried is a draft or a failure, the
  shortfall apart), `ComparisonShape` (the last event is the only one that says a comparison is
  done, and by then there is a report) and `ProvisioningShape` (no realm is registered twice, every
  service has a port that exists).

`AnsweringProofs`, for any stores, realms, fragments and templates:

* `ExternalAnswersAreCounted` (`HttpInv`; `PayloadTellsTheContext` says a payload that is sent holds
  every field of the context).
* `RealmsReadTheirOwn`, which is `BindingInv` (what is registered at the start is the stub or the
  store of the environment, and every copy made of it is of the realm) with `IndicesInv` (a load
  that was compared is in an index of its language, and one still to be written finds it so; what
  takes an index away takes that comparison, `OvertakenAwaits`), `GraphInv` (the nodes of an
  instance of one's own are one's own, and the groups shown are of the instance) and `PortsInv` (a
  run of the generator claims ports that no realm it has still to visit holds).
* `FusionIsAlwaysFair`: `HybridInv` keeps what the halves returned, as lists whose scores fall and
  that name a fragment once, beside the fused list, of which it says the same. A merge sorts by a
  choice of an order that falls (`RankedIsAListing`, `MergedIs`); shares fall with the rank
  (`SharesFall`), so the sums can be compared fragment by fragment.
* `ContextIsAlwaysAccountedFor`: `QueryInv` says at each stage of a query where every fragment in
  hand came from and where every fragment found went (`Found`: in hand, or its text is an earlier
  one's, or demoted, or there was no place). Pins and rewrites are taken one after the other, so what
  the overlay holds and keeps follows by `FoldsByPlaces` from what one of them adds.
* `StepsAlwaysKeepTheirWord`: the steps of a chat (`ChatInv`: the cache has an id once,
  with the last answer finished under it), of a query and
  of a merge with the list of the graph.
* `AnsweringKeepsItsShape`: the types of all parts, with `GraphShaped` (an edge joins nodes that are
  there) and `PortsShaped`.

`ReviewProofs`:

* `FaultsSpeak`, for any worlds with their faults, contexts, answers and configurations. `RunInv`
  says that the answers are of one world and that a run has the mean it was stored with, but for what
  a lost question took from it; `HealthyIsQuiet`, `OneVoice`, `PlantedSpeak` and `LossIsHeard` (any
  question with a recall moves a mean of some found and some missed, `AnyOneMovesTheMean`) then are
  about the detectors alone.
* `RulingsReach` and `WritesTouch`, for any judgments, chunks, indexes, scores, traces, promoters,
  reviewers, classes and levers, from one inductive invariant per part. What is said of a request
  about feedback (`AloneIsKept`) is said of one beside which nothing was written: the overlap that
  loses a score is `SavedIsKept` above. The assumptions are that
  the value for "nothing" is none of the others (`None` no trace and no id), that the levers of a
  class are a sequence, and the types of the constants; `MCReview` states them and TLC evaluates
  them.
  * `JudgmentsInv`: no two readable lines have one id, and none has that of a creation still under
    way, which is why a rewrite under one id touches one line. Reading the file, a deletion and a
    bundle rest on `OnlyTakesThePlaces`.
  * `BundleInv`: what a receiver holds is what `Received` makes of some entry and index. That the
    ids come back is `BundleIsReceived`, for every entry and index; that the threshold admits the
    matches is `ThresholdIsDerived`, by the least of the scores.
  * `PromotionInv`, for any number of promoters: what a request holds when it marks is the list it
    wrote, whose last question is of its trace. `RequestMoves` and `PromotionMoves` reduce every
    action to one of the nine moves of a request (the last is to break off), `MovesAreTyped` keeps the types.
  * `PromoterInv` is for one promoter: what it has in hand is still what is stored, a trace that was
    whose mark was not lost has at most one question, and its mark names that question unless the
    mark is just what remains to be written (`LoneGoesOn`). A trace whose promotion broke off
    before the mark counts as one that lost it.
  * `TriageInv`: a result that needs no person has classes of the taxonomy and a lever of
    one of them, if any has one, and a request that nobody wrote after it read still holds the
    document that is stored.

* `BlameIsAlwaysEarned`, for any data sets, corpora, rankings, answers and set-ups: `ScoreInv` says
  that the lists of a question fit its set-up and that the metrics and the verdict, once there, are
  those of these lists and this answer. A metric is a share or a cosine (`MetricIsInRange`), recall does not grow
  when a list shrinks (`RecallFalls`), the references of a list are those it cites, once each
  (`RefsAreCited`), and average precision is a share by a fold over the places of the hits. The
  funnel then is a matter of which of its conditions can hold of such lists: a miss blamed on the
  ranking has its reference in the index, one blamed on chunking has it in several fragments (where
  `LookedUpAsItself` gives the diagnosis the question's own references), and a
  stage is blamed only for what a stage before it still had (`StagesLoseIt`).
* `ReviewKeepsItsShape`: the rest of the types. `PageInv` (the configurations are known ones, no more answers
  come than were asked for), `EndInv`, `BundleIsTyped`, `SenseInv` (what a reviewer's request holds is
  typed at each stage between its awaits), `Numbers` (the ids handed out stay below the counter).

What is only model-checked, and why:

* `EveryJobSettles`, `RunSettles`, `SocketEventuallyCloses`: liveness under fairness, which the
  provers at hand do not reach.
* That a sort or a recursive function of the code computes what its reference definition does: where
  a proof needs the outcome of an iteration, the model writes it as a fold or as a choice of an order,
  and the theorem is about that.

## Not modelled

* Chunking (`core/chunking`): the chunkers depend on the layout of texts; the fixed one is overlap
  arithmetic and is the only candidate.
* Backend adapters: thin clients of services outside the repository; a call answers or raises.
* Reference and faulty servers, the Python client, the UI, benchmarks: programs around the gateway.
* Atlas (`core/eval/atlas.py`): texts and tables about kinds of failures, no state.
* Trace log: appending to a bounded log.

Within the modelled components: the frontier endpoint, the defaults for documents of older versions,
which component is reported unavailable, the keying of deferred verdicts, the detectors of headers,
unjudged assertions and costless metrics, the drafting of a prompt by a model, the coordinates a
registration is checked for, read-only routes, and everywhere the content of texts, answers and
metrics beyond what the properties tell apart. `PROJECT.json` says it per component.

## Plan

Every safety property of a passing run is a theorem. The definitions stand for about a third of the
lines of the program; much of the rest are adapters, page texts, defaults and read-only routes, as
listed above. What is left that a model would say something about, in this order:

1. deferred verdicts, keyed by question id (`evaluate_in_full`, `judge_pending`), where ids repeat;
2. the index and the prompt of a run that change under it: `create_experiment`'s lookups of a corpus
   beside a hard delete or a load, and which component a run reports as unavailable;
3. two runs that answer at a time with one generator object, of which `QueryPipeline` has the
   counts of tokens only;
4. the gate for metrics other than recall, and the detectors of headers, of unjudged assertions and
   of metrics that were not declared or cost nothing;
5. the coordinates an external RAG is registered with and the comparison of embedders; the drafting
   of a prompt; the frontier of the configurations tried; the coverage of production traces (drift);
6. the overlaps that the conjuncts with a precondition leave out. Each is stated as a property that
   the code does not keep, above; a version of the code that repairs one would want it in a run;
7. the arithmetic of the fixed chunker.
