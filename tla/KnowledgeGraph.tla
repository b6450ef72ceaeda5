---------------------------- MODULE KnowledgeGraph ----------------------------
(***************************************************************************)
(* The graph of fragments in Neo4j (adapters/neo4j_graph.py) and the       *)
(* requests that fill and read it (routers/corpus.py).  A realm has an     *)
(* instance of its own or reads the one the gateway started with, which    *)
(* every such realm shares; an instance has no partition by corpus.        *)
(***************************************************************************)
EXTENDS Integers, FiniteSets, FiniteSetsExt

CONSTANTS
    Realms,         \* realms, and the command line or page that names none
    Own,            \* the realms with a Neo4j resource of their own
    NoRealm,        \* a request without a realm
    Chunks,         \* ids of fragments
    Words,          \* keywords
    MaxFreq,        \* max_keyword_freq of link_related
    Similar,        \* pairs of fragments whose vectors are close enough
    MaxLoads,       \* bound: loads of any kind
    MaxBatch,       \* bound: fragments one load brings
    MaxGroups       \* bound: communities one detection finds

Assumptions ==
    /\ Own \subseteq Realms
    /\ NoRealm \notin Realms
    /\ {MaxFreq, MaxLoads, MaxBatch, MaxGroups} \subseteq Nat
    /\ Similar \subseteq kSubset(2, Chunks)

EdgeTypes == {"lexical", "semantic"}
Shared == NoRealm
Instances == Own \cup {Shared}

\* for_corpus and _resolve_neo4j: the instance of a realm's own, or the one of the gateway.
Instance(r) == IF r \in Own THEN r ELSE Shared

VARIABLES
    node,       \* node[i]: the fragments of instance i: who loaded them last, their words
    edges,      \* edges[i][t]: RELATED and RELATED_SEMANTIC, as pairs
    community,  \* community[i][t]: the community written on a node; 0 when there is none
    shown,      \* shown[r][t]: what the last detection answered r, while no load met it
    answer,     \* the drill-down just given: the realm it was answered to, whose fragments it named
    loads

vars == <<node, edges, community, shown, answer, loads>>

Nobody == [owner |-> NoRealm, words |-> {}, present |-> FALSE]
Empty == [c \in Chunks |-> Nobody]
Present(i) == {c \in Chunks : node[i][c].present}
NoAnswer == [realm |-> NoRealm, owners |-> {}]

Init ==
    /\ node = [i \in Instances |-> Empty]
    /\ edges = [i \in Instances |-> [t \in EdgeTypes |-> {}]]
    /\ community = [i \in Instances |-> [t \in EdgeTypes |-> [c \in Chunks |-> 0]]]
    /\ shown = [r \in Realms \cup {NoRealm} |-> [t \in EdgeTypes |-> {}]]
    /\ answer = NoAnswer
    /\ loads = 0

Hidden(i) == [r \in Realms \cup {NoRealm} |->
                 IF Instance(r) = i THEN [t \in EdgeTypes |-> {}] ELSE shown[r]]

---------------------------------------------------------------------------
(* Loads *)

\* add_chunks: MERGE by id, SET of doc, text and keywords.  Nothing else of a node, and no
\* edge, is touched.
Added(old, r, batch) ==
    [c \in Chunks |-> IF c \in DOMAIN batch
                      THEN [owner |-> r, words |-> batch[c], present |-> TRUE] ELSE old[c]]

\* clear(): every node of the instance, with its edges and properties.
Cleared(i) == [edges EXCEPT ![i] = [t \in EdgeTypes |-> {}]]

\* ingest_neo4j_chunks, with replace or without.
ImportChunks(r, batch, replace) ==
    LET i == Instance(r) IN
    /\ loads' = loads + 1
    /\ node' = [node EXCEPT ![i] = Added(IF replace THEN Empty ELSE @, r, batch)]
    /\ edges' = IF replace THEN Cleared(i) ELSE edges
    /\ community' = IF replace THEN [community EXCEPT ![i] = [t \in EdgeTypes |-> [c \in Chunks |-> 0]]]
                    ELSE community
    /\ shown' = Hidden(i) /\ answer' = NoAnswer

With(nodes, w) == {c \in Chunks : nodes[c].present /\ w \in nodes[c].words}

\* link_related: one bucket per keyword that at least two and at most max_keyword_freq
\* fragments share, MERGE of every pair of the bucket.
LinkRelated(nodes) ==
    UNION {kSubset(2, With(nodes, w)) :
               w \in {v \in Words : Cardinality(With(nodes, v)) \in 2..MaxFreq}}

\* link_semantic: the close neighbours of every fragment that are in the graph too.
LinkSemantic(nodes) == {p \in Similar : \A c \in p : nodes[c].present}

\* The command line with USE_GRAPH: add_chunks per file, then both links over the whole
\* graph, in batches.  Each is best effort: what fails is logged, and the rest goes on.
IngestFiles(r, batch) ==
    LET i == Instance(r)
        nodes == Added(node[i], r, batch)
    IN
    /\ loads' = loads + 1
    /\ node' = [node EXCEPT ![i] = nodes]
    /\ \E lexical \in SUBSET LinkRelated(nodes), semantic \in SUBSET LinkSemantic(nodes) :
          edges' = [edges EXCEPT ![i] = [lexical |-> @["lexical"] \cup lexical,
                                         semantic |-> @["semantic"] \cup semantic]]
    /\ shown' = Hidden(i) /\ answer' = NoAnswer
    /\ UNCHANGED community

---------------------------------------------------------------------------
(* Communities *)

Joined(i, t, group) ==
    \A part \in (SUBSET group) \ {{}, group} :
        \E p \in edges[i][t] : p \cap part # {} /\ p \cap (group \ part) # {}

\* What Leiden may write: numbers whose groups are connected (external: Neo4j GDS).
Clusterings(i, t) ==
    {f \in [Chunks -> 0..MaxGroups] :
        /\ \A c \in Chunks : f[c] = 0 <=> c \notin Present(i)
        /\ \A n \in 1..MaxGroups : Joined(i, t, {c \in Chunks : f[c] = n})}

\* write_property is named after the kind of edges.
WriteCommunity(i, t, clustering) == [community EXCEPT ![i][t] = clustering]

Numbers(f) == {f[c] : c \in Chunks} \ {0}

Groups(clustering) ==
    {[id |-> n, nodes |-> {c \in Chunks : clustering[c] = n}] : n \in Numbers(clustering)}

\* graph_communities: a realm without an instance of its own is answered nothing, rather
\* than the communities of others.
NotScoped(r) == r # NoRealm /\ r \notin Own

\* detect_communities: nothing for a projection without edges; otherwise the algorithm
\* writes every node's community, and the groups are read back.
Detect(r, t) ==
    LET i == Instance(r) IN
    /\ IF NotScoped(r) \/ edges[i][t] = {}
       THEN shown' = [shown EXCEPT ![r][t] = {}] /\ UNCHANGED community
       ELSE \E clustering \in Clusterings(i, t) :
               /\ community' = WriteCommunity(i, t, clustering)
               /\ shown' = [q \in DOMAIN shown |->
                              IF q = r THEN [shown[q] EXCEPT ![t] = Groups(clustering)]
                              ELSE IF Instance(q) = i THEN [shown[q] EXCEPT ![t] = {}]
                              ELSE shown[q]]
    /\ answer' = NoAnswer
    /\ UNCHANGED <<node, edges, loads>>

\* graph_community_detail: community_subgraph on the instance _resolve_neo4j gives.
Members(r, t, n) == {c \in Present(Instance(r)) : community[Instance(r)][t][c] = n}

Detail(r, t, n) ==
    /\ answer' = [realm |-> r, owners |-> {node[Instance(r)][c].owner : c \in Members(r, t, n)}]
    /\ UNCHANGED <<node, edges, community, shown, loads>>

Batches == UNION {[cs -> SUBSET Words] : cs \in UNION {kSubset(n, Chunks) : n \in 1..MaxBatch}}

Next ==
    \/ loads < MaxLoads /\ \E r \in Realms \cup {NoRealm}, batch \in Batches :
          \/ \E replace \in BOOLEAN : ImportChunks(r, batch, replace)
          \/ IngestFiles(r, batch)
    \/ \E r \in Realms \cup {NoRealm}, t \in EdgeTypes :
          \/ Detect(r, t)
          \/ \E n \in 1..MaxGroups : Detail(r, t, n)

Spec == Init /\ [][Next]_vars

---------------------------------------------------------------------------
(* Properties *)

\* Edges join fragments of the graph, and a fragment that is not there has no community.
TypeOK ==
    \A i \in Instances, t \in EdgeTypes :
        /\ UNION edges[i][t] \subseteq Present(i)
        /\ \A p \in edges[i][t] : Cardinality(p) = 2
        /\ \A c \in Chunks : community[i][t][c] # 0 => c \in Present(i)

\* A group that was shown to a page can be opened as it was shown, as long as nothing was
\* loaded and no other detection of the same kind ran: a detection over the other kind of
\* edges in between does not change it.
DrillDownMatches ==
    \A r \in Realms \cup {NoRealm}, t \in EdgeTypes :
        \A g \in shown[r][t] : Members(r, t, g.id) = g.nodes

\* The list of communities answered to a realm holds no fragment another realm loaded.
CommunitiesAreOfTheRealm ==
    \A r \in Realms, t \in EdgeTypes : \A g \in shown[r][t] : \A c \in g.nodes :
        node[Instance(r)][c].owner = r

-----------------------------------------------------------------------------
(* What the code, its tests or its documents say and the code does not keep (README). *)

\* "Whatever is found there belongs to some other Realm": neither does a drill-down.
DetailIsOfTheRealm == answer.realm \in Realms => answer.owners \subseteq {answer.realm}

\* "lexical (shared-keyword)": fragments that are joined by RELATED share a keyword.
RelatedShareAKeyword ==
    \A i \in Instances : \A p \in edges[i]["lexical"] :
        \E w \in Words : \A c \in p : w \in node[i][c].words
=============================================================================
