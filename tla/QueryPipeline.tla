----------------------------- MODULE QueryPipeline -----------------------------
(***************************************************************************)
(* One question through NaivePipeline.run (core/pipeline.py): what the     *)
(* retriever answers, deduplication, the pack's scorer, the reranker, the  *)
(* pins of core/pins/overlay.py, the cut, the answer, its grounding, the   *)
(* refusal or mask, and the citations of core/citation.py.  A generator    *)
(* object is shared by every pipeline that runs the same model: another    *)
(* question may be answered by it at any moment (Elsewhere).               *)
(***************************************************************************)
EXTENDS Fusion, Lists

CONSTANTS
    Fragments,      \* chunk ids
    Text,           \* Text[f]: the text of a fragment, two of which may be equal
    Pinnings,       \* sequences of matching pins: [chunks, demotes, rewrite]
    Windows,        \* [k, fetch]: top_k and fetch_k of the request
    Configured,     \* sets of the optional steps a configuration names
    Replies         \* what the model may write: sequences of markers [word, numbers]

Assumptions ==
    /\ RrfKAssumption
    /\ Windows \subseteq {w \in [k : Nat \ {0}, fetch : Nat] : w.k <= w.fetch}
    /\ \A pins \in Pinnings : pins \in Seq([chunks : Seq(Fragments), demotes : SUBSET Fragments,
                                          rewrite : BOOLEAN])

VARIABLES
    ask,        \* the request and the configuration of its pipeline
    stage,      \* how far it is
    scored,     \* the ranked list in hand
    seen,       \* snapshots: what was merged, given to the reranker, the candidates, rewrites
    reply,      \* what the model wrote
    grounding,  \* [claims, unsupported], or none
    counted,    \* _last_token_counts of the generator: whose they are
    answer

vars == <<ask, stage, scored, seen, reply, grounding, counted, answer>>

None == [none |-> TRUE]
Lists(n) == UNION {{l \in [1..m -> Fragments] : IsInjective(l)} : m \in 0..n}
Orders(list) == {l \in [DOMAIN list -> In(list)] : IsInjective(l)}

\* Settings: which of the optional steps the configuration names.
Init ==
    /\ \E w \in Windows, pins \in Pinnings, steps \in Configured :
          ask = [k |-> w.k, fetch |-> w.fetch, pins |-> pins, steps |-> steps]
    /\ stage = "asked" /\ scored = <<>> /\ reply = <<>>
    /\ seen = [merged |-> <<>>, reranked |-> <<>>, candidates |-> <<>>, rewrites |-> {}]
    /\ grounding = None /\ counted = "nobody" /\ answer = None

Has(step) == step \in ask.steps

---------------------------------------------------------------------------
(* Retrieval *)

\* The first of each text stays.
Deduped(list) ==
    Only(list, {i \in DOMAIN list : \A j \in 1..(i - 1) : Text[list[j]] # Text[list[i]]})

Retrieve ==
    /\ stage = "asked" /\ stage' = "retrieved"
    /\ \E list \in Lists(ask.fetch) :
          /\ scored' = Deduped(list)
          /\ seen' = [seen EXCEPT !.merged = list]
    /\ UNCHANGED <<ask, reply, grounding, counted, answer>>

\* candidate_source_refs: recorded when wider than the context.
Window(list) == IF ask.fetch > ask.k THEN list ELSE <<>>

\* The pack's scorer may order again; the two snapshots are taken after it.
Score ==
    /\ stage = "retrieved" /\ stage' = "scored"
    /\ scored' \in IF Has("scorer") THEN Orders(scored) ELSE {scored}
    /\ seen' = [seen EXCEPT !.reranked = IF Has("reranker") THEN scored' ELSE <<>>,
                            !.candidates = Window(scored')]
    /\ UNCHANGED <<ask, reply, grounding, counted, answer>>

\* CrossEncoderReranker.rerank: another order, cut to the context.
Rerank ==
    /\ stage = "scored" /\ stage' = "reranked"
    /\ IF Has("reranker") THEN \E l \in Orders(scored) : scored' = Cut(l, ask.k)
       ELSE UNCHANGED scored
    /\ UNCHANGED <<ask, seen, reply, grounding, counted, answer>>

---------------------------------------------------------------------------
(* core/pins/overlay.py *)

Demoted(pins) == UNION {p.demotes : p \in Range(pins)}

\* Variant with a bug: the list is cut before what was demoted leaves it.
NaturalOfTheCut(list, pins) ==
    LET first == Cut(list, ask.k)
    IN  Only(first, {i \in DOMAIN first : first[i] \notin Demoted(pins)})

Natural(list, pins) == Only(list, {i \in DOMAIN list : list[i] \notin Demoted(pins)})
Wanted(pins) == FoldLeft(LAMBDA all, p : all \o p.chunks, <<>>, pins)

\* Each pinned chunk that is not there yet, the next with a higher score than the last.
Injected(list, pins) ==
    LET wanted == Wanted(pins)
    IN  Only(wanted, {i \in DOMAIN wanted : /\ wanted[i] \notin In(Natural(list, pins))
                                           /\ \A j \in 1..(i - 1) : wanted[j] # wanted[i]})

\* The results of the pins with a rewrite that answered with something.
Extras(extra) == Only(extra, {i \in DOMAIN extra : extra[i] # <<>>})

\* Variant with a bug: the injected chunks keep their place at the end.
OverlayBehind(list, pins, extra) ==
    FoldLeft(RrfMerge, Natural(list, pins) \o Injected(list, pins), Extras(extra))

\* apply_overlay: by score without a rewrite; with one, fused in the order they were appended.
Overlay(list, pins, extra) ==
    LET natural == Natural(list, pins)
        injected == Injected(list, pins)
    IN  IF Extras(extra) = <<>> THEN Reverse(injected) \o natural
        ELSE FoldLeft(RrfMerge, natural \o injected, Extras(extra))

\* A rewrite is retrieved with k; one that fails is as if it were absent.
Pin ==
    /\ stage = "reranked" /\ stage' = "pinned"
    /\ \E extra \in [1..Cardinality({i \in DOMAIN ask.pins : ask.pins[i].rewrite}) -> Lists(ask.k)] :
          /\ scored' = IF ask.pins = <<>> THEN scored ELSE Overlay(scored, ask.pins, extra)
          /\ seen' = [seen EXCEPT !.rewrites = UNION {In(extra[i]) : i \in DOMAIN extra}]
    /\ UNCHANGED <<ask, reply, grounding, counted, answer>>

\* The final cut.
Context(list) == Cut(list, ask.k)

---------------------------------------------------------------------------
(* The answer *)

Generate ==
    /\ stage = "pinned" /\ stage' = "generated"
    /\ scored' = Context(scored)
    /\ reply' \in Replies
    /\ counted' = "this"
    /\ UNCHANGED <<ask, seen, grounding, answer>>

\* Another question is answered by the same generator.
Elsewhere ==
    /\ stage # "answered" /\ counted' = "another"
    /\ UNCHANGED <<ask, stage, scored, seen, reply, grounding, answer>>

\* TokenOverlapGrounder.check: nothing is supported by an empty context.
Groundings(context) ==
    {g \in [claims : 0..2, unsupported : 0..2] :
       g.unsupported <= g.claims /\ (context = <<>> => g.unsupported = g.claims)}

\* is_grounded of a result on this context.
IsGrounded(g, context) == context # <<>> /\ g.unsupported = 0

Ground ==
    /\ stage = "generated" /\ stage' = "grounded"
    /\ IF Has("grounder") THEN grounding' \in Groundings(scored) ELSE UNCHANGED grounding
    /\ UNCHANGED <<ask, scored, seen, reply, counted, answer>>

\* ThresholdRefusalPolicy.should_refuse, asked only when the grounding was computed: a
\* confidence below the minimum means an unsupported claim.
Refuses == Has("refusal") /\ grounding # None /\ ~IsGrounded(grounding, scored)

\* _FRAGMENT_MARKER_RE takes the first number after the singular word, ...
Singular(marker) == marker.word = "Fragment"
\* ... _FRAGMENT_LIST_RE every number when there is more than one.
Listed(marker) == Len(marker.numbers) > 1

\* A number outside the context names nothing.
InRange(numbers, refs) == numbers \cap DOMAIN refs

\* Positions of the context that the text shows by their label once it is substituted.
Shown(text, refs) ==
    UNION {InRange(IF Listed(text[i]) THEN Range(text[i].numbers)
                   ELSE IF Singular(text[i]) THEN {text[i].numbers[1]} ELSE {}, refs) :
           i \in DOMAIN text}

\* Markers the substitution does not touch: another ending of the word, one number.
Untouched(text) == {i \in DOMAIN text : ~Listed(text[i]) /\ ~Singular(text[i])}

\* compute_citation_labels: what the singular marker names, or the first of the context.
Cited(text, refs) ==
    LET named == UNION {InRange({text[i].numbers[1]}, refs) : i \in {j \in DOMAIN text : Singular(text[j])}}
    IN  IF refs = <<>> THEN {} ELSE IF named = {} THEN {1} ELSE named

Citations(refused, text, refs) == IF refused THEN {} ELSE Cited(text, refs)

\* The refusal or the mask, the citations, the substitution and the counts of the generator.
Finish ==
    /\ stage = "grounded" /\ stage' = "answered"
    /\ answer' = [refused |-> Refuses,
                  masked |-> Has("mask") /\ ~Refuses,
                  cited |-> Citations(Refuses, reply, scored),
                  shown |-> IF Refuses THEN {} ELSE Shown(reply, scored),
                  raw |-> IF Refuses THEN {} ELSE Untouched(reply),
                  counts |-> counted]
    /\ UNCHANGED <<ask, scored, seen, reply, grounding, counted>>

Done == stage = "answered" /\ UNCHANGED vars

Next ==
    \/ Retrieve \/ Score \/ Rerank \/ Pin \/ Generate \/ Elsewhere
    \/ Ground \/ Finish \/ Done

Spec == Init /\ [][Next]_vars

---------------------------------------------------------------------------
(* Properties *)

HasContext == stage \in {"generated", "grounded", "answered"}
Pinned == Range(Wanted(ask.pins))

\* A ranked list never has a fragment twice, and what a question is answered from is no
\* longer than it asked for.
TypeOK ==
    /\ IsInjective(scored) /\ In(scored) \subseteq Fragments
    /\ HasContext => Len(scored) <= ask.k

\* Fragments of the retrieved list whose text an earlier one of it has.
Repeated ==
    {f \in In(seen.merged) :
        \E i, j \in DOMAIN seen.merged :
            j < i /\ seen.merged[i] = f /\ Text[seen.merged[j]] = Text[f]}

\* Nothing that was found goes missing between the retriever and the model: what is not in
\* the context repeats an earlier text or was demoted, unless there was no place for it, in
\* the context or in what a reranker keeps before the pins are looked at.
FoundIsAccountedFor ==
    HasContext =>
        \/ In(seen.merged) \subseteq In(scored) \cup Repeated \cup Demoted(ask.pins)
        \/ Len(scored) = ask.k
        \/ Len(seen.reranked) > ask.k

\* Widening the search widens what is looked at and nothing else: what the model gets was
\* in the window that was recorded, was pinned, or came from a rewrite.
ContextWasLookedAt ==
    (HasContext /\ seen.candidates # <<>>)
        => In(scored) \subseteq In(seen.candidates) \cup Pinned \cup seen.rewrites

\* A chunk that was demoted comes back only when a pin or a rewrite asks for it.
DemotedLeavesTheList ==
    (HasContext /\ seen.rewrites = {})
        => In(scored) \cap Demoted(ask.pins) \subseteq Pinned

\* Without a rewrite a pin that had to be injected is not pushed out by what was found:
\* there are more pins than places, or every injected chunk is in the context.
InjectedIsKept ==
    (stage = "pinned" /\ stage' = "generated" /\ seen.rewrites = {})
        => LET missing == {f \in Pinned : f \notin In(seen.candidates) \cup In(seen.merged)}
           IN  Cardinality(Pinned) <= ask.k => missing \subseteq In(scored')

\* With a grounder and a refusal policy, nothing found is a refusal, and a refusal cites,
\* shows and masks nothing.
NothingFoundIsRefused ==
    stage = "answered" =>
        /\ ({"grounder", "refusal"} \subseteq ask.steps /\ scored = <<>>) => answer.refused
        /\ answer.refused => answer.cited = {} /\ ~answer.masked
        /\ answer.cited \cup answer.shown \subseteq DOMAIN scored

-----------------------------------------------------------------------------
(* What the code, its tests or its documents say and the code does not keep (README). *)

\* "every pinned chunk outranks every naturally-retrieved one".
PinnedOutrank ==
    stage = "pinned" =>
        \A f \in Pinned, g \in In(seen.merged) \ Pinned :
            ({f, g} \subseteq In(scored) /\ f \notin In(seen.merged)) => Place(scored, f) < Place(scored, g)

\* "a demoted chunk is either present or it is not": an exclusion, whatever the rewrite finds.
DemotedStaysOut == stage = "pinned" => In(scored) \cap Demoted(ask.pins) \subseteq Pinned

\* "pull specific chunks into the answer's context": a pinned chunk is in it, as long as
\* there are no more pins than places.
PinnedReachesTheContext ==
    (HasContext /\ Cardinality(Pinned) <= ask.k) => Pinned \subseteq In(scored)

\* "label for each distinct fragment referenced": citations and text name the same sources.
CitationsAreThoseInTheText ==
    (stage = "answered" /\ answer.shown # {}) => answer.cited = answer.shown

\* "every marker is substituted before the answer is returned".
MarkersNeverLeak == stage = "answered" => answer.raw = {}

\* "Each query response includes stage_trace", with the tokens of its prompt and answer.
TokensAreItsOwn == stage = "answered" => answer.counts = "this"
=============================================================================
