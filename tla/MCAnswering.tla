----------------------------- MODULE MCAnswering -----------------------------
(* The way of a question for TLC: the stores its pipeline is bound to, the halves of a       *)
(* retrieval and their fusion, the pipeline of the gateway, the chat around it, an external  *)
(* RAG in its place, and the graph of fragments beside them.  A question goes through each   *)
(* of them by a call whose answer it waits for, and no state of one is another's, so a       *)
(* behaviour is about one of them (`part`) and the others are Off.                           *)
EXTENDS Integers, Sequences, FiniteSets

CONSTANTS
    Parts,      \* the components to go through
    Nil, RrfK,
    HybridChunks, DenseScores, SparseScores, Weights, GraphWeights, HybridFilters, HybridK,
    HybridHits,
    BindingRealms, BindingCorpora, Own, Languages, Merges, RrfKs, MaxWritten,
    Fragments, Text, Pinnings, Windows, Configured, Replies,
    ChatRealms, Rags, ChatClients, HeaderIds, CacheMax, MaxQuestions,
    Urls, Fields, MaxCalls,
    GraphRealms, GraphOwn, GraphChunks, Words, MaxFreq, Similar, MaxLoads, MaxBatch, MaxGroups,
    PortRealms, Handlers, Ports, MaxPosts, MaxPolls

\* A cosine may be below zero.
Cosines == {-50, 80}

\* A filter that lets everything through, and one that holds a fragment back.
AllOrFewer == {HybridChunks} \cup {HybridChunks \ {held} : held \in {CHOOSE c \in HybridChunks : TRUE}}

\* Four fragments, the first and the last with one text; pins that add, demote and rewrite.
TwoAlike == <<"a", "b", "c", "a">>
Pin == [chunks |-> <<3>>, demotes |-> {1}, rewrite |-> FALSE]
Rewrite == [chunks |-> <<2, 4>>, demotes |-> {3}, rewrite |-> TRUE]
PinsThatMatch ==
    {<<>>, <<Pin>>, <<Rewrite>>, <<[Rewrite EXCEPT !.rewrite = FALSE], Pin>>,
     <<Pin, [Pin EXCEPT !.chunks = <<>>, !.demotes = {4}]>>, <<[Pin EXCEPT !.chunks = <<>>]>>}
WideAndNarrow == {[k |-> 1, fetch |-> 2], [k |-> 2, fetch |-> 2]}

StepsNamed ==
    {{}, {"reranker"}, {"mask", "grounder"}, {"scorer", "reranker", "grounder", "refusal", "mask"}}

Marker(word, numbers) == [word |-> word, numbers |-> numbers]
ModelReplies ==
    {<<>>, <<Marker("Fragment", <<2>>), Marker("Fragments", <<1, 2>>)>>,
     <<Marker("Fragments", <<2, 3>>)>>, <<Marker("Fragments", <<1>>)>>}

\* Two of the fragments are neighbours.
OnePair == {CHOOSE p \in SUBSET GraphChunks : Cardinality(p) = 2}

VARIABLES
    part,       \* the component this behaviour is about
    asked, at, halves, merged,
    gateway, resources, bound, index, loading, run,
    ask, stage, scored, seen, reply, grounding, counted, answer,
    home, call, cache, finished, shown, chats,
    record, context, allowlist, state, called, result, calls,
    node, edges, community, groups, drilled, loads,
    registry, uri, dumps, overlay, container, status, jobs, handler, posts

Hybrid == INSTANCE Retrieval WITH
    Chunks <- HybridChunks, Filters <- HybridFilters, MaxK <- HybridK, MaxHits <- HybridHits
Binding == INSTANCE PipelineBinding WITH
    Realms <- BindingRealms, NoRealm <- Nil, Corpora <- BindingCorpora
Query == INSTANCE QueryPipeline
Chat == INSTANCE ChatQuery WITH
    Realms <- ChatRealms, NoRealm <- Nil, Clients <- ChatClients, Ids <- HeaderIds,
    asked <- chats
Http == INSTANCE HttpPipeline
Graph == INSTANCE KnowledgeGraph WITH
    Realms <- GraphRealms, Own <- GraphOwn, NoRealm <- Nil, Chunks <- GraphChunks,
    shown <- groups, answer <- drilled
Provisioning == INSTANCE Neo4jProvisioning WITH
    Realms <- PortRealms, graph <- dumps

retrievalVars == <<asked, at, halves, merged>>
bindingVars == <<gateway, resources, bound, index, loading, run>>
queryVars == <<ask, stage, scored, seen, reply, grounding, counted, answer>>
chatVars == <<home, call, cache, finished, shown, chats>>
httpVars == <<record, context, allowlist, state, called, result, calls>>
graphVars == <<node, edges, community, groups, drilled, loads>>
provisioningVars == <<registry, uri, dumps, overlay, container, status, jobs, handler, posts>>
vars == <<part, retrievalVars, bindingVars, queryVars, chatVars, httpVars, graphVars,
    provisioningVars>>

ASSUME BindingAssumption == Binding!Assumptions
ASSUME RetrievalAssumption == Hybrid!Assumptions
ASSUME QueryAssumption == Query!Assumptions
ASSUME ChatAssumption == Chat!Assumptions
ASSUME GraphAssumption == Graph!Assumptions
ASSUME PortsAssumption == Provisioning!Assumptions

Off == [off |-> TRUE]
RetrievalOff == asked = Off /\ at = Off /\ halves = Off /\ merged = Off
BindingOff == gateway = Off /\ resources = Off /\ bound = Off /\ index = Off /\ loading = Off /\ run = Off
QueryOff == ask = Off /\ stage = Off /\ scored = Off /\ seen = Off /\ reply = Off /\
    grounding = Off /\ counted = Off /\ answer = Off
ChatOff == home = Off /\ call = Off /\ cache = Off /\ finished = Off /\ shown = Off /\
    chats = Off
HttpOff == record = Off /\ context = Off /\ allowlist = Off /\ state = Off /\ called = Off /\
    result = Off /\ calls = Off
GraphOff == node = Off /\ edges = Off /\ community = Off /\ groups = Off /\ drilled = Off /\
    loads = Off
ProvisioningOff == registry = Off /\ uri = Off /\ dumps = Off /\ overlay = Off /\
    container = Off /\ status = Off /\ jobs = Off /\ handler = Off /\ posts = Off

Init ==
    /\ part \in Parts
    /\ IF part = "retrieval" THEN Hybrid!Init ELSE RetrievalOff
    /\ IF part = "binding" THEN Binding!Init ELSE BindingOff
    /\ IF part = "query" THEN Query!Init ELSE QueryOff
    /\ IF part = "chat" THEN Chat!Init ELSE ChatOff
    /\ IF part = "http" THEN Http!Init ELSE HttpOff
    /\ IF part = "graph" THEN Graph!Init ELSE GraphOff
    /\ IF part = "ports" THEN Provisioning!Init ELSE ProvisioningOff

HybridStep ==
    /\ part = "retrieval" /\ Hybrid!Next
    /\ UNCHANGED <<part, bindingVars, queryVars, chatVars, httpVars, graphVars, provisioningVars>>
BindingStep ==
    /\ part = "binding" /\ Binding!Next
    /\ UNCHANGED <<part, retrievalVars, queryVars, chatVars, httpVars, graphVars,
                 provisioningVars>>
QueryStep ==
    /\ part = "query" /\ Query!Next
    /\ UNCHANGED <<part, retrievalVars, bindingVars, chatVars, httpVars, graphVars,
                 provisioningVars>>
ChatStep ==
    /\ part = "chat" /\ Chat!Next
    /\ UNCHANGED <<part, retrievalVars, bindingVars, queryVars, httpVars, graphVars,
                 provisioningVars>>
HttpStep ==
    /\ part = "http" /\ Http!Next
    /\ UNCHANGED <<part, retrievalVars, bindingVars, queryVars, chatVars, graphVars,
                 provisioningVars>>
GraphStep ==
    /\ part = "graph" /\ Graph!Next
    /\ UNCHANGED <<part, retrievalVars, bindingVars, queryVars, chatVars, httpVars,
                 provisioningVars>>
PortsStep ==
    /\ part = "ports" /\ Provisioning!Next
    /\ UNCHANGED <<part, retrievalVars, bindingVars, queryVars, chatVars, httpVars, graphVars>>
Next == HybridStep \/ BindingStep \/ QueryStep \/ ChatStep \/ HttpStep \/ GraphStep \/ PortsStep

Spec == Init /\ [][Next]_vars

----------------------------------------------------------------------------
(* Properties *)

\* Every component's variables keep to the shapes its module gives them.
TypeOK ==
    /\ part = "retrieval" => Hybrid!TypeOK
    /\ part = "binding" => Binding!TypeOK
    /\ part = "query" => Query!TypeOK
    /\ part = "chat" => Chat!TypeOK
    /\ part = "http" => Http!TypeOK
    /\ part = "graph" => Graph!TypeOK
    /\ part = "ports" => Provisioning!TypeOK

\* Both halves of a hybrid retrieval have a say: fused by rank, what both put above another
\* fragment comes out above it; weighted alike, the scale of a half's scores decides nothing;
\* and either way the list is cut at k and not before.
FusionIsFair ==
    part = "retrieval" => Hybrid!BothHalvesDecide /\ Hybrid!CutIsExact /\ Hybrid!ScalesDoNotDecide

\* What a question reads is its realm's: the instances and the corpus its retriever is bound
\* to, an index that stems as the text of a load it was compared with was written, the fusion
\* the run asked for, the same in a chat; no community of the graph is answered to a realm that
\* did not load it; and one run of the generator of graph stores gives no two realms one port,
\* the first realm keeping the base service.
EveryRealmReadsItsOwn ==
    /\ part = "binding" =>
        /\ Binding!RunReadsItsRealm /\ Binding!IndexStemsItsText
        /\ Binding!RunFusesAsAsked /\ Binding!ChatReadsWhatARunReads
    /\ part = "graph" => Graph!CommunitiesAreOfTheRealm /\ Graph!DrillDownMatches
    /\ part = "ports" => Provisioning!PortsOfARunDiffer /\ Provisioning!FirstRealmStays


\* What was found and is not in the context repeats a text or was demoted, unless there was no
\* place; of a question that looks wider than its context, the context holds what the recorded
\* window held, a pin or a rewrite asked for; what is demoted stays out where nothing was
\* rewritten and no pin asks for it; and with a grounder and a refusal policy nothing found is a refusal.
ContextIsAccountedFor ==
    part = "query" =>
        /\ Query!FoundIsAccountedFor /\ Query!ContextWasLookedAt
        /\ Query!DemotedLeavesTheList /\ Query!NothingFoundIsRefused

\* An external RAG is asked at an address that is allowed and told the context of the run; its
\* errors are no answers, and the fragments it gives are those of its answer's top level.
ExternalAnswersCount ==
    part = "http" =>
        /\ Http!EgressIsAllowed /\ Http!ContextArrives /\ Http!ErrorIsNoAnswer /\ Http!TopLevelIsRead

\* What one step keeps to: a chat goes to a RAG its realm has at that moment, or stays in
\* process; where nothing was rewritten and the pins have places, a fragment a pin puts in is in
\* the context; and the graph does not turn round two fragments that it and the base list order
\* alike.
StepsKeepTheirWord ==
    [][/\ part = "chat" => Chat!RagIsOfTheRealm
       /\ part = "query" => Query!InjectedIsKept
       /\ part = "retrieval" => Hybrid!GraphKeepsTheOrderBothGive]_vars
==============================================================================
