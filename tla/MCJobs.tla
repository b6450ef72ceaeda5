-------------------------------- MODULE MCJobs --------------------------------
(* The background jobs of the gateway for TLC: an ingestion, a generation of questions, the     *)
(* provisioning of a realm's graph store, a comparison that asks questions again; each with the *)
(* socket or the status a page follows it by.  They share nothing but the event loop, so a      *)
(* behaviour is about one of them (`part`) and the others rest where they start: TLC goes       *)
(* through the sum of their states and not through the product.                                 *)
EXTENDS Integers, Sequences

CONSTANTS
    Parts,      \* the components to go through
    Nil,
    Uploads, Names, Skipped, MaxFiles, MaxRestarts,
    Chunks, DocOf, Alike, GlobalFragments, RangeMin, RangeMax, Seeds, Orders, Requests,
    Replies, Drafting, Followers, Presets,
    Realms, Handlers, Ports, MaxPosts, MaxPolls,
    Questions, Entities, Needs, Before, After, MaxFlips, Samples,
    q1, q2, e1, e2, e3, e4      \* questions and documents of the runs below

\* Three documents of three, one and one fragments, with one group of two that a global
\* question can rest on.
ThreeDocuments == <<"a", "a", "a", "b", "c">>
NearDuplicates == {{4, 5}, {1, 4}, {2, 4}, {3, 4}, {1, 5}, {2, 5}}
TwoDraws == {<<1, 2, 3, 4, 5>>, <<3, 5, 4, 2, 1>>}
TwoOrders == [1..5 -> {<<2, 1, 3, 4, 5>>, <<5, 4, 3, 1, 2>>}]

\* One or two questions of a type, two entries of one type, and one of each.
Entry(type, n) == [question_type |-> type, n_questions |-> n]
FewEntries ==
    {<<Entry(t, n)>> : t \in {"open", "comparative", "navigational", "global"}, n \in {1, 2}}
    \cup {<<Entry("global", 1), Entry("global", 1)>>, <<Entry("global", 2), Entry("comparative", 1)>>}

\* Two questions, one of a single document and one of four; the runs differ in one thing.
Of(first, second) == [q \in {q1, q2} |-> IF q = q1 THEN first ELSE second]
Alone(first) == [q \in {q1} |-> first]
OneAndFour == Of({e1}, {e1, e2, e3, e4})
Row(kind, absent) == [kind |-> kind, absent |-> absent]
Rows1 == {Row("answered", {}), Row("answered", {e1})}
Rows2 == {Row("answered", {}), Row("answered", {e1, e2}), Row("generation", {}), Row("uncovered", {}),
          Row("error", {})}
Tables == {Of(r, s) : r \in Rows1, s \in Rows2}

Base == [id |-> "A", dataset |-> "d", corpus |-> "c", digest |-> "x", judge |-> Nil, realm |-> "r",
         prompt |-> "p", model |-> "m", retrievalOnly |-> FALSE, stopped |-> FALSE, covered |-> TRUE,
         accuracy |-> Nil]
Other == [Base EXCEPT !.id = "B"]
Variants ==
    {Other, [Other EXCEPT !.dataset = "d2"], [Other EXCEPT !.corpus = "c2", !.digest = "y"],
     [Other EXCEPT !.digest = "y"], [Other EXCEPT !.prompt = Nil, !.model = "m2"],
     [Other EXCEPT !.retrievalOnly = TRUE], [Other EXCEPT !.covered = FALSE, !.stopped = TRUE],
     [Other EXCEPT !.accuracy = 84], [Other EXCEPT !.accuracy = 90]}

RunsBefore == {[rows |-> t, meta |-> Base] : t \in Tables \cup {<<>>}}
              \cup {[rows |-> Of(Row("answered", {}), Row("error", {})),
                     meta |-> [Base EXCEPT !.accuracy = n]] : n \in {80, 95}}
RunsAfter == {[rows |-> t, meta |-> Other] : t \in Tables \cup {Alone(Row("answered", {})), <<>>}}
             \cup {[rows |-> Of(Row("answered", {}), Row("answered", {e1, e2})), meta |-> v] :
                      v \in Variants}

VARIABLES
    part,       \* the component this behaviour is about
    task, upload, tmp, left, exit, lines, indexed, progress, doc, history, socket, restarts,
    presets, writer, events, follower,
    registry, uri, graph, overlay, container, status, jobs, handler, posts,
    before, after, flaky, dataset, changed, phase, samples, told, report, verdict

Ingestion == INSTANCE CorpusIngestion WITH Jobs <- Uploads, Restarts <- MaxRestarts
Generation == INSTANCE GenerationJob WITH
    Fragments <- GlobalFragments, Jobs <- Drafting, Sockets <- Followers, task <- writer,
    socket <- follower
Provisioning == INSTANCE Neo4jProvisioning
Comparison == INSTANCE RunComparison WITH
    Question <- Questions, Entity <- Entities, None <- Nil, progress <- told

ingestionVars == <<task, upload, tmp, left, exit, lines, indexed, progress, doc, history, socket,
    restarts>>
generationVars == <<presets, writer, events, follower>>
provisioningVars == <<registry, uri, graph, overlay, container, status, jobs, handler, posts>>
comparisonVars == <<before, after, flaky, dataset, changed, phase, samples, told, report, verdict>>
vars == <<part, ingestionVars, generationVars, provisioningVars, comparisonVars>>

ASSUME IngestionAssumption == Ingestion!Assumptions
ASSUME GenerationAssumption == Generation!Assumptions
ASSUME ProvisioningAssumption == Provisioning!Assumptions
ASSUME ComparisonAssumption == Comparison!Assumptions

Off == [off |-> TRUE]
ComparisonOff == before = Off /\ after = Off /\ flaky = Off /\ dataset = Off /\ changed = Off /\
    phase = Off /\ samples = Off /\ told = <<>> /\ report = Off /\ verdict = Off

Init ==
    /\ part \in Parts
    /\ Ingestion!Init
    /\ Generation!Init
    /\ Provisioning!Init
    /\ IF part = "comparison" THEN Comparison!Init ELSE ComparisonOff

IngestionStep ==
    /\ part = "ingestion" /\ Ingestion!Next
    /\ UNCHANGED <<part, generationVars, provisioningVars, comparisonVars>>
GenerationStep ==
    /\ part = "generation" /\ Generation!Next
    /\ UNCHANGED <<part, ingestionVars, provisioningVars, comparisonVars>>
ProvisioningStep ==
    /\ part = "provisioning" /\ Provisioning!Next
    /\ UNCHANGED <<part, ingestionVars, generationVars, comparisonVars>>
ComparisonStep ==
    /\ part = "comparison" /\ Comparison!Next
    /\ UNCHANGED <<part, ingestionVars, generationVars, provisioningVars>>
Next == IngestionStep \/ GenerationStep \/ ProvisioningStep \/ ComparisonStep

\* The event loop gets to every task that can go on, the process and the container are not
\* starved, and a page polls its socket; nothing is assumed of users, of what the model
\* answers, of containers' health or of restarts.
Fairness ==
    /\ \A j \in Uploads : /\ WF_ingestionVars(part = "ingestion" /\ Ingestion!TaskStep(j))
                          /\ WF_ingestionVars(part = "ingestion" /\ Ingestion!ProcessStep(j))
                          /\ WF_ingestionVars(part = "ingestion" /\ Ingestion!Poll(j))
    /\ \A j \in Drafting : /\ WF_generationVars(part = "generation" /\ Generation!Item(j))
                           /\ WF_generationVars(part = "generation" /\ Generation!End(j))
    /\ \A s \in Followers : WF_generationVars(part = "generation" /\ Generation!Send(s))
    /\ \A h \in Handlers : WF_provisioningVars(part = "provisioning" /\ Provisioning!HandlerStep(h))
    /\ WF_provisioningVars(part = "provisioning" /\ jobs # <<>> /\ Provisioning!RunJob(1))
    /\ WF_comparisonVars(part = "comparison" /\ \E rebuilt \in BOOLEAN : Comparison!Compare(rebuilt))
    /\ WF_comparisonVars(part = "comparison"
                         /\ \E q \in Questions, ok \in BOOLEAN : Comparison!Sample(q, ok))
    /\ WF_comparisonVars(part = "comparison" /\ Comparison!Finish)

Spec == Init /\ [][Next]_vars /\ Fairness

----------------------------------------------------------------------------
(* Properties *)

\* Every component's variables keep to the shapes its module gives them.
TypeOK ==
    /\ part = "ingestion" => Ingestion!TypeOK
    /\ part = "generation" => Generation!TypeOK
    /\ part = "provisioning" => Provisioning!TypeOK
    /\ part = "comparison" => Comparison!TypeOK

\* Every job ends and says so, whatever raises on its way: an ingestion settles or is lost in a
\* restart, a provisioning does not stay "running", a socket that follows a job closes unless the
\* job's task died of an answer it did not expect.
EveryJobSettles ==
    /\ Ingestion!IngestionSettles /\ Ingestion!SocketCloses
    /\ Generation!SocketClosesOrTheTaskDied
    /\ part = "provisioning" => Provisioning!ProvisioningSettles
    /\ part = "comparison" => Comparison!EveryComparisonIsClosed

\* An ingestion that is called done indexed every file it was sent, its events end once, it
\* leaves no files behind, and once deleted it stays so; a realm is called provisioned only
\* when its container is healthy; a draft comes of a template with every placeholder filled
\* and of a call that did not fail.
DoneMeansDone ==
    /\ [](part = "ingestion" =>
           Ingestion!DoneMeansIndexed /\ Ingestion!EndsOnce /\ Ingestion!NoFilesAreLeft)
    /\ Ingestion!DeletedIngestStaysGone
    /\ Provisioning!DoneWasHealthy
    /\ [](part = "generation" =>
           Generation!BuiltinTemplatesAreFilled /\ Generation!DraftsAreUsable)

\* A global question is written from as many documents as it should rest on, no two of its
\* fragments alike, and from a group that no other question of its entry is written from.
DraftsHaveGrounds == part = "generation" => Generation!GlobalGroupsSpanDocuments

\* A comparison puts every shared question in one group and takes a flip for noise by answers
\* alone; an accepted fix is one, and no retrieval failure is without a task.  The two runs are
\* treated alike: what B fixes of A is what A loses of B, whichever of them has more questions or
\* a higher mean; and a run compared with itself shows no difference, though the gate still
\* refuses it when it is below an absolute floor.
ComparisonIsFair ==
    part = "comparison" =>
        /\ Comparison!EveryQuestionHasOneGroup /\ Comparison!ClearedOnlyByAnswers
        /\ Comparison!AcceptedFixIsDone /\ Comparison!FailuresHaveTasks
        /\ Comparison!SwappedRunsMirror /\ Comparison!ItselfIsNoDifference
==============================================================================
