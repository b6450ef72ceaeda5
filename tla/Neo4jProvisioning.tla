--------------------------- MODULE Neo4jProvisioning ---------------------------
(***************************************************************************)
(* One Neo4j container per realm: the overlay of compose services          *)
(* (tools/generate_realm_neo4j_compose.py) and the request that generates  *)
(* it and starts a container (routers/realms.py).  A handler loses the     *)
(* processor at every database call, so two of them interleave.            *)
(* A port stands for the pair of the http and bolt ports a service takes.  *)
(***************************************************************************)
EXTENDS Integers, Sequences, FiniteSets, FiniteSetsExt, Functions, Selections

CONSTANTS
    Realms,         \* ids of realms
    Handlers,       \* requests being answered at a time
    Ports,          \* bound: 1..n, in the order they are tried
    MaxPosts,       \* bound: requests
    MaxPolls        \* range(30) in _run_neo4j_provision

Assumptions ==
    /\ IsFiniteSet(Realms) /\ IsFiniteSet(Ports) /\ Ports = 1..Cardinality(Ports)
    /\ Cardinality(Ports) > 2 * Cardinality(Realms)
    /\ MaxPosts \in Nat /\ MaxPolls \in Nat \ {0}

Default == 0                    \* bolt://localhost:7687, the base service
None == -1
Uris == Ports \cup {Default}
Healths == {"none", "starting", "healthy", "unhealthy"}

VARIABLES
    registry,   \* the realms that are registered and not deleted, by created_at
    uri,        \* uri[r]: the neo4j resource of r; Default also when there is none
    graph,      \* realms with a corpus in the graph store, at the uri they had
    overlay,    \* neo4j-realms.generated.yml: service of a realm, and its port
    container,  \* container[r]: health and port of the service's container
    status,     \* _neo4j_provision_status
    jobs,       \* the tasks of _run_neo4j_provision: a bag, as a sequence
    handler,    \* handler[h]: the locals of a request
    posts

vars == <<registry, uri, graph, overlay, container, status, jobs, handler, posts>>

Idle == [pc |-> "idle", realm |-> None, seen |-> <<>>, withGraph |-> {}, uris |-> <<>>,
         todo |-> <<>>, claimed |-> {}, from |-> 1, services |-> {}, info |-> "none"]

Init ==
    /\ registry = <<>>
    /\ uri = [r \in Realms |-> Default]
    /\ graph = [r \in Realms |-> None]
    /\ overlay = {}
    /\ container = [r \in Realms |-> [health |-> "none", port |-> None]]
    /\ status = [r \in Realms |-> "none"]
    /\ jobs = <<>>
    /\ handler = [h \in Handlers |-> Idle]
    /\ posts = 0

---------------------------------------------------------------------------
(* Around the handlers *)

\* create_realm: without resources.
Register(r) ==
    /\ r \notin Range(registry)
    /\ registry' = Append(registry, r)
    /\ UNCHANGED <<uri, graph, overlay, container, status, jobs, handler, posts>>

\* An ingestion with the graph writes to the instance the realm has (CorpusIngestion).
IngestGraph(r) ==
    /\ r \in Range(registry) /\ graph[r] = None
    /\ graph' = [graph EXCEPT ![r] = uri[r]]
    /\ UNCHANGED <<registry, uri, overlay, container, status, jobs, handler, posts>>

\* A container comes up or fails, or is taken down by docker compose down (external).
ContainerChanges(r) ==
    /\ container[r].health # "none"
    /\ \E now \in Healths \ {container[r].health, "starting"} :
          container' = [container EXCEPT ![r].health = now]
    /\ UNCHANGED <<registry, uri, graph, overlay, status, jobs, handler, posts>>

---------------------------------------------------------------------------
(* POST /realms/{id}/neo4j/provision, and generate_neo4j_overlay within *)

\* provision_realm_neo4j: a realm that is there, without a job that runs.
Post(h, r) ==
    /\ handler[h].pc = "idle" /\ posts < MaxPosts
    /\ r \in Range(registry) /\ status[r] # "running"
    /\ posts' = posts + 1
    /\ handler' = [handler EXCEPT ![h] = [Idle EXCEPT !.pc = "scan", !.realm = r]]
    /\ UNCHANGED <<registry, uri, graph, overlay, container, status, jobs>>

\* The ports that realms were given earlier, as this run read them.
Claimed(rs, us) == {us[r] : r \in rs} \ {Default}

\* realms[1:]: the first realm keeps the base service.
Others(rs) == Tail(rs)

\* The realms and the corpora are read; what follows works on that reading.
Scan(h) ==
    LET l == handler[h] IN
    /\ l.pc = "scan"
    /\ handler' = [handler EXCEPT ![h] =
          [l EXCEPT !.pc = "assign", !.seen = registry, !.todo = Others(registry), !.uris = uri,
                    !.withGraph = {r \in Realms : graph[r] # None},
                    !.claimed = Claimed(Range(Others(registry)), uri)]]
    /\ UNCHANGED <<registry, uri, graph, overlay, container, status, jobs, posts>>

Free(p) == \A r \in Realms : container[r].port # p \/ container[r].health = "none"

\* The ports ahead that nobody listens on and no realm of this reading has, and the next one.
Ahead(l) == {p \in Ports : p >= l.from /\ p \notin l.claimed /\ Free(p)}
NextPort(l) == Min(Ahead(l))

\* What overlay.get(realm_id) says of a realm this run does not give a port.
Kept(l, r) == IF l.uris[r] # Default THEN "already_migrated"
              ELSE IF r \in l.withGraph THEN "graph_data_in_default_store" ELSE "none"

Says(l, r, info) == IF r = l.realm THEN info ELSE l.info

\* One realm of the loop: left as it is, or given a port, which update_one writes.
Assign(h) ==
    LET l == handler[h]  r == Head(l.todo) IN
    /\ l.pc = "assign" /\ l.todo # <<>>
    /\ IF Kept(l, r) # "none"
       THEN /\ handler' = [handler EXCEPT ![h] = [l EXCEPT !.todo = Tail(@),
                                                           !.info = Says(l, r, Kept(l, r))]]
            /\ UNCHANGED uri
       ELSE /\ Ahead(l) # {}     \* within Ports
            /\ uri' = [uri EXCEPT ![r] = NextPort(l)]
            /\ handler' = [handler EXCEPT ![h] =
                  [l EXCEPT !.todo = Tail(@), !.info = Says(l, r, "provisioned"),
                            !.claimed = @ \cup {NextPort(l)}, !.from = NextPort(l) + 1,
                            !.services = @ \cup {[realm |-> r, port |-> NextPort(l)]}]]
    /\ UNCHANGED <<registry, graph, overlay, container, status, jobs, posts>>

\* The file holds the services of this run and nothing else; it is left alone when there
\* are none.
WriteOverlay(services) == IF services = {} THEN overlay ELSE services

\* The overlay is written, and the handler looks at what it says of its realm.  Of a realm
\* whose graph is in the base store it has no service_name: KeyError, an answer of 500.
Decide(h) ==
    LET l == handler[h]
        info == IF l.realm = Head(l.seen) THEN "default" ELSE l.info
    IN
    /\ l.pc = "assign" /\ l.todo = <<>>
    /\ overlay' = WriteOverlay(l.services)
    /\ status' = [status EXCEPT ![l.realm] = IF info = "default" THEN "not_needed" ELSE @]
    /\ handler' = [handler EXCEPT ![h] =
          IF info \in {"default", "graph_data_in_default_store"} THEN Idle
          ELSE [l EXCEPT !.pc = IF info = "already_migrated" THEN "health" ELSE "start"]]
    /\ UNCHANGED <<registry, uri, graph, container, jobs, posts>>

\* A realm that has a service: nothing to do when its container is healthy.
AskHealth(h) ==
    LET l == handler[h]  healthy == container[l.realm].health = "healthy" IN
    /\ l.pc = "health"
    /\ status' = [status EXCEPT ![l.realm] = IF healthy THEN "done" ELSE @]
    /\ handler' = [handler EXCEPT ![h] = IF healthy THEN Idle ELSE [l EXCEPT !.pc = "start"]]
    /\ UNCHANGED <<registry, uri, graph, overlay, container, jobs, posts>>

StartJob(h) ==
    LET r == handler[h].realm IN
    /\ handler[h].pc = "start"
    /\ status' = [status EXCEPT ![r] = "running"]
    /\ jobs' = Append(jobs, [realm |-> r, pc |-> "up", polls |-> 0])
    /\ handler' = [handler EXCEPT ![h] = Idle]
    /\ UNCHANGED <<registry, uri, graph, overlay, container, posts>>

---------------------------------------------------------------------------
(* _run_neo4j_provision *)

Ends(i, how) ==
    /\ status' = [status EXCEPT ![jobs[i].realm] = how]
    /\ jobs' = Only(jobs, DOMAIN jobs \ {i})

\* docker compose up -d: fails for a service the files do not have, and may fail for reasons
\* of its own.  A container that runs on its port is left running.
Up(i) ==
    LET r == jobs[i].realm
        services == {s \in overlay : s.realm = r}
    IN
    /\ jobs[i].pc = "up"
    /\ \/ Ends(i, "error") /\ UNCHANGED container
       \/ \E s \in services :
             /\ Free(s.port) \/ container[r].port = s.port
             /\ container' = [container EXCEPT ![r] =
                   IF @.port = s.port /\ @.health \in {"healthy", "unhealthy"} THEN @
                   ELSE [health |-> "starting", port |-> s.port]]
             /\ jobs' = [jobs EXCEPT ![i].pc = "poll"]
             /\ UNCHANGED status
    /\ UNCHANGED <<registry, uri, graph, overlay, handler, posts>>

Verdict(health, last) ==
    CASE health = "healthy" -> "done"
      [] health = "unhealthy" -> "error"
      [] OTHER -> IF last THEN "error" ELSE "running"

LastPoll(i) == jobs[i].polls + 1 = MaxPolls

\* The loop over the health of the container, and its end after the last poll.
Poll(i) ==
    LET verdict == Verdict(container[jobs[i].realm].health, LastPoll(i)) IN
    /\ jobs[i].pc = "poll"
    /\ IF verdict # "running" THEN Ends(i, verdict)
       ELSE jobs' = [jobs EXCEPT ![i].polls = @ + 1] /\ UNCHANGED status
    /\ UNCHANGED <<registry, uri, graph, overlay, container, handler, posts>>

RunJob(i) == Up(i) \/ Poll(i)

HandlerStep(h) == Scan(h) \/ Assign(h) \/ Decide(h) \/ AskHealth(h) \/ StartJob(h)

Next ==
    \/ \E r \in Realms : Register(r) \/ IngestGraph(r) \/ ContainerChanges(r)
    \/ \E h \in Handlers : HandlerStep(h) \/ \E r \in Realms : Post(h, r)
    \/ \E i \in DOMAIN jobs : RunJob(i)

Spec == Init /\ [][Next]_vars

---------------------------------------------------------------------------
(* Properties *)

TypeOK ==
    /\ Range(registry) \subseteq Realms /\ IsInjective(registry)
    /\ uri \in [Realms -> Uris]
    /\ \A s \in overlay : s.realm \in Realms /\ s.port \in Ports
    /\ \A r \in Realms : container[r].health \in Healths
    /\ \A i \in DOMAIN jobs : jobs[i].polls < MaxPolls

\* One run of the generator never gives two realms one port, nor one that a realm it read
\* has.  (Runs that overlap are PortAssignedOnce's business.)
PortsOfARunDiffer ==
    \A h \in Handlers : LET l == handler[h] IN
        /\ \A s, t \in l.services : s.port = t.port => s.realm = t.realm
        /\ l.pc = "assign" =>
              \A s \in l.services : \A r \in Range(Tail(l.seen)) : l.uris[r] # s.port

\* The first realm keeps the base service whatever else is provisioned.
FirstRealmStays == registry # <<>> => uri[Head(registry)] = Default

\* A job ends with "done" only when the container of its realm is healthy at that moment.
DoneWasHealthy ==
    [][\A r \in Realms : (Len(jobs') < Len(jobs) /\ status'[r] = "done" /\ status[r] # "done")
           => container[r].health = "healthy"]_vars

\* "running" is not for ever: a page that polls the status sees the job's end, whatever the
\* container does and however many jobs of that realm overlap.
ProvisioningSettles == \A r \in Realms : status[r] = "running" ~> status[r] # "running"

-----------------------------------------------------------------------------
(* What the code, its tests or its documents say and the code does not keep (README). *)

\* "sequential host ports assigned once and left stable on re-run".
PortAssignedOnce ==
    [][\A r \in Realms : uri[r] \in Ports => uri'[r] = uri[r]]_vars

\* "re-POSTing, which is itself idempotent": a realm that was given a port by a run that
\* ended has its service in the file that docker compose is started with.
ServiceIsInTheOverlay ==
    (\A h \in Handlers : handler[h].pc = "idle")
        => \A r \in Realms : uri[r] \in Ports => \E s \in overlay : s.realm = r

\* "Such a realm is left where its data is": a realm that has a graph keeps pointing at it.
GraphStaysWithItsData == \A r \in Realms : graph[r] # None => uri[r] = graph[r]
=============================================================================
