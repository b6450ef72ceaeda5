--------------------------- MODULE QuestionScore ---------------------------
(***************************************************************************)
(* One question of a run, from the answer to its diagnosis: the evaluator  *)
(* of the gateway (_CompositeEvaluator), the metrics it calls, the funnel, *)
(* the stages of the run page, the cause of a failed retrieval and the     *)
(* advice on the size of the context.  A fragment is what extract_ref_id   *)
(* reads of it, whether its label carries a number, and a name; a text is  *)
(* what the metrics tell of it.  Shares are in sixtieths; so are the       *)
(* similarities, cosines that can be below zero.                           *)
(***************************************************************************)
EXTENDS Integers, Sequences, FiniteSets, Lists, Functions, Selections

CONSTANTS
    Fragment,   \* what may be indexed: records [id, code, article, path, doc, label]
    Index,      \* what the corpus's index may hold: sets of fragments
    DataSet,    \* records [refs, scope, given, reference, id, called, text], in their order
    Setup,      \* records [external, retrievalOnly, reranker, fetch]
    TopK,       \* top_k
    Texts,      \* records [empty, notFound, similar, numbers]: what a text may be like
    Widened,    \* the widened search of a miss: more than any list here
    None

\* Shares are in units of 1 / Unit, which is also the bound on the references of a question:
\* one of more would be told apart from none by a finer unit only.
Unit == 60

\* What the questions of the data set are: id is None where it gives none, called what the
\* result is known by (the id, some letters of the text, or None).
Question == Range(DataSet)

Assumptions ==
    /\ DataSet \in Seq(Range(DataSet))
    /\ TopK \in Nat \ {0} /\ Widened \in Nat \ {0}
    /\ IsFiniteSet(Fragment) /\ Index \subseteq SUBSET Fragment
    /\ \A q \in Question : q.refs \in Seq(Range(q.refs)) /\ Len(q.refs) <= Unit /\ None \notin Range(q.refs)
    /\ \A q \in Question : q.text # None
    /\ \A t \in Texts : t.similar \in (-Unit)..Unit
    /\ \A s \in Setup : s.fetch \in Nat
    /\ None \notin Int \cup {"data_missing", "ranking", "chunking", "vocabulary"}

VARIABLES
    phase,      \* "asked", "indexed", "retrieved", "answered", "scored", "diagnosed"
    question, setup,
    index,      \* the fragments the corpus's index holds
    resolver,   \* known: what the resolver of the run has seen; None for UnknownRefResolver
    lists,      \* window, preRerank, final: what retrieval and the reranker returned
    answer,     \* what can be said of the text
    metrics,    \* the metrics recorded, a function on their names
    verdict, cause

vars == <<phase, question, setup, index, resolver, lists, answer, metrics, verdict, cause>>

Share(n, d) == (Unit * n) \div d

-----------------------------------------------------------------------------
(* References and the metrics of a ranking.                                *)

\* extract_ref_id: a coded source is cited by article or by path, any other by its document.
RefId(f) ==
    IF f.code # None
    THEN IF f.article # None THEN <<f.code, "/", f.article>>
         ELSE IF f.path # None THEN <<f.code, "#", f.path>> ELSE None
    ELSE IF f.path # None THEN <<f.doc, "#", f.path>> ELSE <<f.doc>>

Refs(list) ==
    LET ids == [i \in DOMAIN list |-> RefId(list[i])]
    IN  Only(ids, {i \in DOMAIN ids : ids[i] # None})
Cut(list, k) == SubSeq(list, 1, IF k < Len(list) THEN k ELSE Len(list))

\* The references found among the first k over the references asked for, repeats counted.
RecallAtK(expected, retrieved, k) ==
    IF expected = <<>> THEN 0
    ELSE Share(Cardinality(Range(Cut(retrieved, k)) \cap Range(expected)), Len(expected))

\* The list without its repeats, in the order of first occurrence.
Deduped(list) ==
    FoldLeft(LAMBDA acc, x : IF x \in Range(acc) THEN acc ELSE Append(acc, x), <<>>, list)

PrecisionAtK(expected, retrieved, k) ==
    LET top == Deduped(Cut(retrieved, k))
    IN  IF top = <<>> THEN 0
        ELSE Share(Cardinality(Range(top) \cap Range(expected)), Len(top))

AveragePrecision(expected, retrieved) ==
    LET seen == Deduped(retrieved)
        hits(n) == Cardinality({i \in 1..n : seen[i] \in Range(expected)})
        at == {i \in DOMAIN seen : seen[i] \in Range(expected)}
    IN  IF at = {} THEN 0
        ELSE MapThenSumSet(LAMBDA i : Share(hits(i), i), at) \div Cardinality(Range(expected))

\* Where the first fragment of an expected reference stands; None when it is not there.
FirstRank(expected, list) ==
    LET at == {i \in DOMAIN list : RefId(list[i]) \in Range(expected)}
    IN  IF at = {} THEN None ELSE Min(at)

-----------------------------------------------------------------------------
(* The answerability of a question, against what the resolver has seen.    *)

KnownRefs(fragments) == {RefId(f) : f \in fragments} \ {None}
Presence(ref) ==
    IF resolver = None THEN "unknown" ELSE IF ref \in resolver THEN "present" ELSE "absent"

Classified(q) ==
    IF q.refs = <<>> THEN "out_of_scope"
    ELSE IF \E r \in Range(q.refs) : Presence(r) = "absent" THEN "uncovered" ELSE "answerable"

Answerability(q) == IF q.given # None THEN q.given ELSE Classified(q)

-----------------------------------------------------------------------------
(* The evaluator.                                                          *)

Refuses(a) == a.empty \/ a.notFound

\* How near the answer is to the nearest of these fragments: one it rests on, or none.
ContextSupport(a, fragments) ==
    IF a.empty \/ fragments = {} THEN 0
    ELSE IF fragments \cap a.restsOn # {} THEN 48 ELSE -12

\* None when the answer is empty or no fragment of an expected reference came back.
Grounded(a, list, expected) ==
    LET matching == {f \in Range(list) : RefId(f) \in Range(expected)}
    IN  IF a.empty \/ matching = {} THEN None ELSE ContextSupport(a, matching)

\* The numbers of the labels of the matching fragments that the answer repeats.
CitationCoverage(a, list, expected) ==
    LET numbers == {f.label : f \in {g \in Range(list) : RefId(g) \in Range(expected)}} \ {None}
    IN  IF numbers = {} THEN None
        ELSE Share(Cardinality(numbers \cap a.numbers), Cardinality(numbers))

Recorded(f) == [n \in {m \in DOMAIN f : f[m] # None} |-> f[n]]
Joined(f, g) == [n \in DOMAIN f \cup DOMAIN g |-> IF n \in DOMAIN f THEN f[n] ELSE g[n]]

\* _score_retrieval.
RetrievalScores(q, l) ==
    [retrieval_recall_at_k |-> RecallAtK(q.refs, Refs(l.final), TopK),
     retrieval_precision_at_k |-> PrecisionAtK(q.refs, Refs(l.final), TopK),
     retrieval_average_precision |-> AveragePrecision(q.refs, Refs(l.final)),
     pre_rerank_recall_at_k |->
        IF l.preRerank = <<>> THEN None ELSE RecallAtK(q.refs, Refs(l.preRerank), TopK)]

\* _score_answer; the two of the sources only when the question names them all.
AnswerScores(q, a, l, bounded) ==
    [answer_similarity |-> IF ~q.reference THEN None ELSE IF a.empty THEN 0 ELSE a.similar,
     answer_relevance |-> IF a.empty THEN 0 ELSE 36,
     context_support |-> IF l.final = <<>> THEN None ELSE ContextSupport(a, Range(l.final)),
     grounded_in_correct_source |->
        IF bounded THEN Grounded(a, l.final, q.refs) ELSE None,
     citation_number_coverage |->
        IF bounded THEN CitationCoverage(a, l.final, q.refs) ELSE None]

Evaluated(q, a, l, s) ==
    LET bounded == q.scope # "global"
        refusal == [correct_refusal |->
            IF s.retrievalOnly THEN None
            ELSE IF Refuses(a) = (Answerability(q) = "answerable") THEN 0 ELSE Unit]
    IN  IF Answerability(q) # "answerable" THEN Recorded(refusal)
        ELSE Joined(Recorded(refusal),
                    Joined(IF bounded THEN Recorded(RetrievalScores(q, l)) ELSE <<>>,
                           IF s.retrievalOnly THEN <<>> ELSE Recorded(AnswerScores(q, a, l, bounded))))

-----------------------------------------------------------------------------
(* The funnel and the stages.                                              *)

Has(mm, n) == n \in DOMAIN mm
Below(mm, n, x) == Has(mm, n) /\ mm[n] < x

\* Variant with a bug: any fall of recall is the reranker's.
DiagnosedEagerly(answerability, mm, scope) ==
    IF scope = "global" \/ answerability # "answerable" THEN "not_applicable"
    ELSE IF Below(mm, "retrieval_recall_at_k", 18)
         THEN IF Has(mm, "pre_rerank_recall_at_k") THEN "rerank" ELSE "retrieval"
         ELSE "ok"

Diagnosed(answerability, mm, scope) ==
    LET recallIsLow == Below(mm, "retrieval_recall_at_k", 18) IN
    IF scope = "global" \/ answerability # "answerable" THEN "not_applicable"
    ELSE IF recallIsLow /\ Has(mm, "answer_similarity") /\ ~Below(mm, "answer_similarity", 36)
         THEN "suspected_ungrounded_answer"
    ELSE IF recallIsLow
         THEN IF Has(mm, "pre_rerank_recall_at_k") /\ mm["pre_rerank_recall_at_k"] >= 36
              THEN "rerank" ELSE "retrieval"
    ELSE IF Below(mm, "grounded_in_correct_source", 24) \/ Below(mm, "answer_similarity", 24)
         THEN "generation" ELSE "ok"

\* The stages after the halves, as the run page shows them: name and list, in order.
Stages(l) ==
    LET window == IF l.window # <<>> THEN l.window
                  ELSE IF l.preRerank # <<>> THEN l.preRerank ELSE l.final
    IN  <<[stage |-> "retrieval", list |-> window]>>
        \o (IF l.preRerank # <<>> THEN <<[stage |-> "rerank", list |-> l.final]>> ELSE <<>>)
        \o <<[stage |-> "context", list |-> l.final]>>

\* The first stage without a wanted source after one that had it.
LostAt(q, l) ==
    LET st == Stages(l)
        has(i) == q.scope # "global" /\ FirstRank(q.refs, st[i].list) # None
        lost == {i \in DOMAIN st : ~has(i) /\ \E j \in 1..(i - 1) : has(j)}
    IN  IF lost = {} THEN None ELSE st[Min(lost)].stage

-----------------------------------------------------------------------------
(* The cause of a failed retrieval.                                        *)

\* _expected_refs_index: by id the last with references, else by text the first.
ExpectedAt(key) ==
    LET named == {i \in DOMAIN DataSet : DataSet[i].refs # <<>>}
        byId == {i \in named : DataSet[i].id = key}
        byText == {i \in named : DataSet[i].text = key}
    IN  IF byId # {} THEN DataSet[Max(byId)].refs
        ELSE IF byText # {} THEN DataSet[Min(byText)].refs ELSE <<>>

\* What the diagnosis takes for the references of a question.
ExpectedRefs(q) ==
    LET ofItsName == IF q.called = None THEN <<>> ELSE ExpectedAt(q.called)
    IN  IF ofItsName # <<>> THEN ofItsName ELSE ExpectedAt(q.text)

\* How many fragments carry the reference; None when the resolver cannot say.
ChunkCount(ref) == IF resolver = None THEN None
                   ELSE Cardinality({f \in index : RefId(f) = ref})

\* classify_retrieval_cause: presences, then the widened search, then the split.
Cause(refs, miss, counts) ==
    LET states == {Presence(r) : r \in Range(refs)}
        known == {counts[r] : r \in Range(refs)} \ {None}
    IN  IF refs = <<>> THEN "unknown"
        ELSE IF "absent" \in states THEN "data_missing"
        ELSE IF "unknown" \in states \/ miss = None THEN "unknown"
        ELSE IF miss.rank # None THEN "ranking"
        ELSE IF known # {} /\ Max(known) > 1 THEN "chunking"
        ELSE "not_retrievable"

\* What to change: a source known to be in one piece leaves only the wording.
Lever(c, counts) ==
    CASE c = "data_missing" -> "ingest"
      [] c = "ranking" -> "ranking"
      [] c = "chunking" -> "chunking"
      [] c = "not_retrievable" /\ 1 \in Range(counts) -> "vocabulary"
      [] c = "not_retrievable" /\ 1 \notin Range(counts) -> "chunking_or_vocabulary"
      [] c = "unknown" -> "verify_index"

-----------------------------------------------------------------------------
(* The advice on the size of the context, and the place of the source.     *)

\* _observed_ranks for this question: the window when there is one, else the widened search.
ObservedRanks(q, l, c) ==
    IF l.window # <<>> /\ q.refs # <<>> THEN <<FirstRank(q.refs, l.window)>>
    ELSE IF c.cause # None THEN <<c.rank>> ELSE <<>>

\* recommend_context_size: the largest rank beyond the current size, and how many it gains.
Advice(ranks, k) ==
    LET gained == {i \in DOMAIN ranks : ranks[i] # None /\ ranks[i] > k}
    IN  IF gained = {} THEN None
        ELSE [size |-> Max({ranks[i] : i \in gained}), gained |-> Cardinality(gained)]

\* The position a calibration counts this question's metric under.
CalibratedAt(q, l, mm) ==
    LET list == IF l.window # <<>> THEN l.window ELSE l.final
        rank == FirstRank(q.refs, list)
    IN  IF rank # None /\ rank <= TopK /\ Has(mm, "answer_similarity") THEN rank ELSE None

-----------------------------------------------------------------------------
NoLists == [window |-> <<>>, preRerank |-> <<>>, final |-> <<>>]
NoAnswer == [empty |-> TRUE, notFound |-> FALSE, similar |-> 0, restsOn |-> {}, numbers |-> {}]
NoCause == [cause |-> None, rank |-> None, lever |-> None]

Init ==
    /\ phase = "asked" /\ question \in Question /\ setup \in Setup
    /\ index = {} /\ resolver = None
    /\ lists = NoLists /\ answer = NoAnswer /\ metrics = <<>> /\ verdict = None /\ cause = NoCause

\* _build_ref_resolver: every failure, and an index read as empty, gives the unknown one.
ResolverOf(fragments, readable) ==
    IF readable /\ fragments # {} THEN KnownRefs(fragments) ELSE None

\* The run starts on an index that can or cannot be read in full.
Start(fragments, readable) ==
    /\ phase = "asked" /\ phase' = "indexed"
    /\ index' = fragments /\ resolver' = ResolverOf(fragments, readable)
    /\ UNCHANGED <<question, setup, lists, answer, metrics, verdict, cause>>

Ranking(fragments, n) ==
    UNION {{s \in [1..k -> fragments] : IsInjective(s)} :
               k \in 0..(IF n < Cardinality(fragments) THEN n ELSE Cardinality(fragments))}

\* The pipeline of the product: the window, the reranker's input, the first top_k.
Retrieve(found, ranked) ==
    /\ phase = "indexed" /\ ~setup.external /\ phase' = "retrieved"
    /\ IF setup.reranker THEN ranked \in Ranking(Range(found), TopK) ELSE ranked = Cut(found, TopK)
    /\ Len(ranked) = Len(Cut(found, TopK))
    /\ lists' = [window |-> IF setup.fetch > TopK THEN found ELSE <<>>,
                 preRerank |-> IF setup.reranker THEN found ELSE <<>>,
                 final |-> ranked]
    /\ UNCHANGED <<question, setup, index, resolver, answer, metrics, verdict, cause>>

\* An external RAG returns what it returns: the list is not cut.
Receive(found) ==
    /\ phase = "indexed" /\ setup.external /\ phase' = "retrieved"
    /\ lists' = [NoLists EXCEPT !.final = found]
    /\ UNCHANGED <<question, setup, index, resolver, answer, metrics, verdict, cause>>

\* The answer, any text; none where the run stops before the generator.
Reply(t, fragments) ==
    /\ phase = "retrieved" /\ phase' = "answered"
    /\ setup.retrievalOnly \/ t.empty => fragments = {}
    /\ setup.retrievalOnly => t.empty
    /\ answer' = [empty |-> t.empty, notFound |-> t.notFound, similar |-> t.similar,
                  numbers |-> t.numbers, restsOn |-> fragments]
    /\ UNCHANGED <<question, setup, index, resolver, lists, metrics, verdict, cause>>

Score ==
    /\ phase = "answered" /\ phase' = "scored"
    /\ metrics' = Evaluated(question, answer, lists, setup)
    /\ verdict' = Diagnosed(Answerability(question), metrics', question.scope)
    /\ UNCHANGED <<question, setup, index, resolver, lists, answer, cause>>

\* diagnose_retrieval_miss: the widened search may fail, or put the fragments in any order.
Missed(refs, found) == [rank |-> FirstRank(refs, Cut(found, Widened))]

\* _diagnose_root_causes: only for a question the funnel gives to retrieval, and never for
\* an external RAG.
Diagnose(reached, found) ==
    /\ phase = "scored" /\ phase' = "diagnosed"
    /\ (reached /\ verdict = "retrieval") \/ found = <<>>
    /\ IF verdict # "retrieval" \/ setup.external THEN cause' = NoCause
       ELSE \E refs \in {ExpectedRefs(question)} :
              LET miss == IF reached THEN Missed(refs, found) ELSE None
                  counts == [r \in Range(refs) |-> ChunkCount(r)]
                  c == Cause(refs, miss, counts)
              IN  cause' = [cause |-> c, lever |-> Lever(c, counts),
                            rank |-> IF c = "ranking" THEN miss.rank ELSE None]
    /\ UNCHANGED <<question, setup, index, resolver, lists, answer, metrics, verdict>>

Next ==
    \/ \E fragments \in Index, readable \in BOOLEAN : Start(fragments, readable)
    \/ phase = "indexed" /\ \E found \in Ranking(index, setup.fetch) :
            \E ranked \in Ranking(Range(found), TopK) : Retrieve(found, ranked)
    \/ phase = "indexed" /\ setup.external
        /\ \E found \in Ranking(Fragment, Cardinality(Fragment)) : Receive(found)
    \/ phase = "retrieved" /\ \E t \in Texts : \E fragments \in SUBSET Range(lists.final) : Reply(t, fragments)
    \/ Score
    \/ Diagnose(FALSE, <<>>)
    \/ phase = "scored" /\ verdict = "retrieval" /\ ~setup.external /\ \E found \in Ranking(index, Widened) :
            Diagnose(TRUE, found)
    \/ phase = "diagnosed" /\ UNCHANGED vars

Spec == Init /\ [][Next]_vars

-----------------------------------------------------------------------------
(* What metric_definitions declares of each metric: where it has grounds.  *)

Reached == {"correct_refusal", "answer_similarity", "answer_relevance", "context_support",
            "grounded_in_correct_source", "citation_number_coverage"}
OfTheSources == {"retrieval_recall_at_k", "retrieval_precision_at_k",
                 "retrieval_average_precision", "pre_rerank_recall_at_k",
                 "grounded_in_correct_source", "citation_number_coverage"}
OfAMatch == {"grounded_in_correct_source", "citation_number_coverage"}
Cosines == {"answer_similarity", "answer_relevance", "context_support", "grounded_in_correct_source"}

HasGrounds(n) ==
    /\ n \in Reached => ~setup.retrievalOnly
    /\ n # "correct_refusal" => Answerability(question) = "answerable"
    /\ n \in OfTheSources => question.scope # "global"
    /\ n \in OfAMatch => metrics["retrieval_recall_at_k"] > 0

-----------------------------------------------------------------------------
TypeOK ==
    /\ phase \in {"asked", "indexed", "retrieved", "answered", "scored", "diagnosed"}
    /\ question \in Question /\ setup \in Setup
    /\ index \subseteq Fragment
    /\ Range(lists.final) \subseteq Fragment
    /\ \A n \in DOMAIN metrics : metrics[n] \in (IF n \in Cosines THEN -Unit ELSE 0)..Unit
    /\ verdict \in {None, "not_applicable", "suspected_ungrounded_answer", "retrieval",
                    "rerank", "generation", "ok"}

Wanted(list) == {f \in Range(list) : RefId(f) \in Range(question.refs)}
IsScored == phase \in {"scored", "diagnosed"}

\* metric_definitions.py: every metric of the product's own pipelines stands on its
\* declared preconditions, so that the detector of metrics without grounds stays silent.
MetricsHaveGrounds ==
    IsScored /\ ~setup.external => \A n \in DOMAIN metrics : HasGrounds(n)

\* funnel.py: the reranker is blamed only for a source it was given and dropped, and the
\* generator only when a source it needed was before it.
BlameIsEarned ==
    IsScored =>
        /\ verdict = "rerank" => Wanted(lists.preRerank) \ Wanted(lists.final) # {}
        /\ verdict = "generation" => Wanted(lists.final) # {}

\* stages.py and funnel.py agree where both speak: what the funnel lays on the reranker the
\* stages lost there, unless some source is left, and when three in ten of the sources are in
\* the context the funnel calls none lost.
StagesAgreeOnFound ==
    /\ IsScored /\ verdict = "rerank"
        => LostAt(question, lists) = IF Wanted(lists.final) = {} THEN "rerank" ELSE None
    /\ IsScored /\ question.scope # "global" /\ ~setup.external /\ question.refs # <<>>
        /\ 10 * Cardinality({RefId(f) : f \in Wanted(lists.final)}) >= 3 * Len(question.refs)
        => verdict \notin {"retrieval", "rerank", "suspected_ungrounded_answer"}

\* The question is looked up as itself: it has references and an id no other question that
\* has some goes by, or no other goes by its name or its text.
IsItself ==
    LET others == {q \in Question \ {question} : q.refs # <<>>}
    IN  \/ /\ question.refs # <<>> /\ question.called # None /\ question.id = question.called
           /\ \A q \in others : q.id # question.id
        \/ \A q \in others : {q.id, q.text} \cap {question.called, question.text} \subseteq {None}

\* The evaluator asks the same index as the diagnosis: a failed retrieval is put down to
\* missing data only when the dataset itself insisted the question was answerable.
MissingDataNeedsAClaim ==
    cause.cause = "data_missing" /\ IsItself => question.given = "answerable"

\* root_cause.py: a cause names what is there: data is missing of a source that is in no
\* fragment of the index, a ranking is blamed for a fragment the index holds, a split for a
\* source that is in several fragments of it.
CauseIsInTheIndex ==
    cause # NoCause /\ IsItself =>
        /\ cause.cause = "data_missing" =>
              \E r \in Range(question.refs) : \A f \in index : RefId(f) # r
        /\ cause.cause = "ranking" => \E f \in index : RefId(f) \in Range(question.refs)
        /\ cause.cause = "chunking" =>
              \E r \in Range(question.refs) : Cardinality({f \in index : RefId(f) = r}) > 1
        /\ cause.lever = "vocabulary" =>
              \E f \in index : RefId(f) \in Range(question.refs)

-----------------------------------------------------------------------------
(* What the code, its tests or its documents say and the code does not keep (README). *)

\* core/pipeline.py:262: "core/eval/funnel.py blames the reranker whenever it holds the
\* answer and the final list does not" (it being what the reranker was given).
DroppedIsTheRerankers ==
    IsScored /\ verdict = "retrieval" => Wanted(lists.preRerank) \subseteq Wanted(lists.final)

\* semantic_metrics.py:96: "Returns None ... when no retrieved chunk matches article_refs at
\* all (recall_at_k=0)": no metric of a match beside a recall of zero.
MatchMeansRecall ==
    IsScored /\ OfAMatch \cap DOMAIN metrics # {} => metrics["retrieval_recall_at_k"] > 0

\* retrieval_metrics.py:40: a question "citing several articles" needs "ALL expected refs
\* found to reach 1.0", and reaches it when all are found.
AllFoundIsWhole ==
    IsScored /\ Has(metrics, "retrieval_recall_at_k")
        /\ Range(question.refs) \subseteq {RefId(f) : f \in Wanted(Cut(lists.final, TopK))}
        => metrics["retrieval_recall_at_k"] = Unit

\* experiments.py:2077: "a dataset may legitimately contain two identically worded questions
\* with different expected sources": a cause is of the question's own.
CauseIsOfItsOwnSources ==
    cause.cause = "data_missing" => \E r \in Range(question.refs) : \A f \in index : RefId(f) # r

\* funnel.py:112: of a failed retrieval, "the required source never reached the final context".
RetrievalMissedIt == IsScored /\ verdict = "retrieval" => Wanted(lists.final) = {}

\* funnel.py:134: "Every funnel layer looks healthy for this question."
HealthyIsAnswered ==
    IsScored /\ verdict = "ok" /\ ~setup.retrievalOnly => metrics["correct_refusal"] = Unit

\* prescription.py:218: the advice counts the "Questions it would close".
AdviceClosesAFailure ==
    (phase = "diagnosed" /\ Advice(ObservedRanks(question, lists, cause), TopK) # None)
        => Wanted(lists.final) = {}

\* experiments.py:1353: "Only questions whose expected source actually reached the context".
CalibratedReachedTheContext ==
    IsScored /\ CalibratedAt(question, lists, metrics) # None => Wanted(lists.final) # {}
=============================================================================
