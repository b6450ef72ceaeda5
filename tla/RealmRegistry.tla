----------------------------- MODULE RealmRegistry -----------------------------
(***************************************************************************)
(* Realms and what hangs on them: the registered RAGs and the datasets     *)
(* (routers/realms.py, external_rags.py, datasets.py), with a realm's      *)
(* export, import, soft and hard delete.  A handler loses the processor at *)
(* every database call; a collection keeps the order of its insertions and *)
(* answers a query of one document with the oldest that matches.           *)
(***************************************************************************)
EXTENDS Integers, Sequences, FiniteSets, FiniteSetsExt, Selections

CONSTANTS
    Names,          \* slugs of realms
    RagIds,         \* ids of RAGs
    Clients,        \* requests being posted at a time
    Files,          \* export files people have: what they hold of RAGs and datasets
    Crashes,        \* whether the gateway may stop in the middle of a handler
    MaxDocs,        \* bound: documents ever inserted
    MaxCalls        \* bound: requests

Assumptions ==
    /\ Crashes \in BOOLEAN /\ MaxDocs \in Nat /\ MaxCalls \in Nat
    /\ \A f \in Files : f.name \in Names /\ f.rags \in Seq(RagIds) /\ f.datasets \in Seq(RagIds)

\* A realm's id: its slug, or with the suffixes of imports that renamed it.
Id(name) == <<name>>
Renamed(id, n) == Append(id, n)
VARIABLES
    realms,     \* documents: oid, id, deleted, metrics (key_metrics were set)
    rags,       \* documents: oid, id, realm
    datasets,   \* documents: oid, realm, rag (source_rag_id)
    files,      \* export files
    client,     \* client[c]: the handler that is running and its locals
    posted,     \* the last POST /external-rags: its body, whether a document was stored
    calls, oid

vars == <<realms, rags, datasets, files, client, posted, calls, oid>>

Free == [op |-> "free"]
Idle(c) == client[c] = Free

Init ==
    /\ realms = {} /\ rags = {} /\ datasets = {}
    /\ files = {[id |-> Id(f.name), rags |-> f.rags, datasets |-> f.datasets] : f \in Files}
    /\ client = [c \in Clients |-> Free]
    /\ posted = [body |-> "none", stored |-> FALSE]
    /\ calls = 0 /\ oid = 0

---------------------------------------------------------------------------
(* adapters/mongodb.py *)

\* find_one: the oldest document that matches, in a set of at most one.
FindOne(docs) == {d \in docs : \A e \in docs : d.oid <= e.oid}

WithId(docs, id) == {d \in docs : d.id = id}
OfRealm(docs, r) == {d \in docs : d.realm = r}

\* Variant with a bug: an insertion where a replacement is meant.
ReplaceInserting(docs, old, new) == docs \cup new

\* replace_one and update_one: of the oldest that matches.
Replace(docs, old, new) == (docs \ old) \cup new

---------------------------------------------------------------------------
(* Handlers: each begins with a request, and goes on after every call *)

Begin(c, h) ==
    /\ Idle(c) /\ calls < MaxCalls
    /\ calls' = calls + 1
    /\ client' = [client EXCEPT ![c] = h]

Goto(c, h) == client' = [client EXCEPT ![c] = h] /\ UNCHANGED calls
Done(c) == Goto(c, Free)

\* create_realm: refused for a realm that is there; one that was deleted softly is replaced,
\* and keeps its resources alone.
CreateRealm(c) ==
    \/ /\ \E name \in Names :
             LET found == FindOne(WithId(realms, Id(name))) IN
             /\ \A d \in found : d.deleted
             /\ Begin(c, [op |-> "create", id |-> Id(name)])
       /\ UNCHANGED <<realms, oid>>
    \/ /\ client[c].op = "create" /\ oid < MaxDocs
       /\ LET found == FindOne(WithId(realms, client[c].id))
              new == [oid |-> IF found = {} THEN oid ELSE (CHOOSE d \in found : TRUE).oid,
                      id |-> client[c].id, deleted |-> FALSE, metrics |-> FALSE]
          IN realms' = Replace(realms, found, {new})
       /\ oid' = oid + 1
       /\ Done(c)

\* Soft delete, restore, update and key-metrics: found, and then updated by id, which is
\* nothing for a realm that is gone by then.  The last of them takes a deleted realm too.
Changed(d, what) ==
    CASE what = "delete" -> [d EXCEPT !.deleted = TRUE]
      [] what = "restore" -> [d EXCEPT !.deleted = FALSE]
      [] what = "metrics" -> [d EXCEPT !.metrics = TRUE]

EditRealm(c) ==
    \/ /\ \E d \in realms, what \in {"delete", "restore", "metrics"} :
             /\ d \in FindOne(WithId(realms, d.id))
             /\ what = "delete" => ~d.deleted
             /\ what = "restore" => d.deleted
             /\ Begin(c, [op |-> "edit", id |-> d.id, what |-> what])
       /\ UNCHANGED <<realms, oid>>
    \/ /\ client[c].op = "edit"
       /\ LET found == FindOne(WithId(realms, client[c].id)) IN
          realms' = Replace(realms, found, {Changed(d, client[c].what) : d \in found})
       /\ Done(c)
       /\ UNCHANGED oid

\* Variant with a bug: a hard delete of a realm that is linked.
LinkedToNobody(r) == {}

\* The RAGs that stand in the way of a hard delete.
Linked(r) == OfRealm(rags, r)

\* delete_realm with hard: found, linked RAGs counted, removed.
HardDelete(c) ==
    \/ /\ \E d \in realms : Begin(c, [op |-> "count", id |-> d.id])
       /\ UNCHANGED realms
    \/ /\ client[c].op = "count"
       /\ IF Linked(client[c].id) = {} THEN Goto(c, [op |-> "remove", id |-> client[c].id])
          ELSE Done(c)
       /\ UNCHANGED realms
    \/ /\ client[c].op = "remove"
       /\ realms' = realms \ FindOne(WithId(realms, client[c].id))
       /\ Done(c)

---------------------------------------------------------------------------
(* Export and import *)

\* As find answers: in the order of the insertions.
InOrder(docs) ==
    LET oids == {d.oid : d \in docs} IN
    [i \in 1..Cardinality(oids) |-> CHOOSE d \in docs : d.oid = Nth(oids, i)]

\* export_realm: of a realm that is not deleted, with the documents that name it.
Export(c) ==
    /\ \E d \in realms :
          /\ d \in FindOne(WithId(realms, d.id)) /\ ~d.deleted
          /\ files' = files \cup {[id |-> d.id,
                rags |-> [i \in DOMAIN InOrder(OfRealm(rags, d.id)) |->
                             InOrder(OfRealm(rags, d.id))[i].id],
                datasets |-> [i \in DOMAIN InOrder(OfRealm(datasets, d.id)) |->
                             InOrder(OfRealm(datasets, d.id))[i].rag]]}
    /\ Begin(c, Free)
    /\ UNCHANGED <<realms, rags, datasets, oid>>

\* The first suffix no realm has.
Fresh(id) == Renamed(id, Min({n \in 2..(oid + 2) : WithId(realms, Renamed(id, n)) = {}}))

Writes(dry_run) == ~dry_run

\* import_realm up to its first write: the id the documents will be given.
StartImport(c) ==
    /\ \E f \in files, on_conflict \in {"fail", "rename"}, dry_run \in BOOLEAN :
          LET there == WithId(realms, f.id) # {} IN
          /\ there => on_conflict = "rename"
          /\ Begin(c, [op |-> "import", id |-> IF there THEN Fresh(f.id) ELSE f.id,
                       dry_run |-> dry_run, rags |-> f.rags, datasets |-> f.datasets])
    /\ UNCHANGED <<realms, rags, datasets, oid>>

\* One document after the other: the RAGs under the ids of the file, the datasets, and the
\* realm last.
ImportStep(c) ==
    LET l == client[c] IN
    /\ l.op = "import" /\ (Writes(l.dry_run) => oid < MaxDocs)
    /\ oid' = IF Writes(l.dry_run) THEN oid + 1 ELSE oid
    /\ IF ~Writes(l.dry_run) THEN Done(c) /\ UNCHANGED <<realms, rags, datasets>>
       ELSE IF l.rags # <<>>
       THEN /\ rags' = rags \cup {[oid |-> oid, id |-> Head(l.rags), realm |-> l.id]}
            /\ Goto(c, [l EXCEPT !.rags = Tail(@)])
            /\ UNCHANGED <<realms, datasets>>
       ELSE IF l.datasets # <<>>
       THEN /\ datasets' = datasets \cup {[oid |-> oid, realm |-> l.id, rag |-> Head(l.datasets)]}
            /\ Goto(c, [l EXCEPT !.datasets = Tail(@)])
            /\ UNCHANGED <<realms, rags>>
       ELSE /\ realms' = realms \cup {[oid |-> oid, id |-> l.id, deleted |-> FALSE,
                                       metrics |-> FALSE]}
            /\ Done(c)
            /\ UNCHANGED <<rags, datasets>>

---------------------------------------------------------------------------
(* RAGs *)

\* create_external_rag: there is no look at what is there.
Registered(id, r) == [oid |-> oid, id |-> id, realm |-> r]

\* The function the decorator of POST /external-rags stands over.  It reads the body as a
\* declaration of coordinates: any field of a registration is "not a dimension of the
\* schema", and one of nothing but coordinates is answered back.
Routed == "_checked_coordinates"

PostRag(c) ==
    /\ oid < MaxDocs
    /\ \E body \in {"registration", "coordinates"}, id \in RagIds, name \in Names :
          LET new == IF Routed = "create_external_rag" /\ body = "registration"
                     THEN {Registered(id, Id(name))} ELSE {}
          IN /\ rags' = rags \cup new
             /\ oid' = IF new = {} THEN oid ELSE oid + 1
             /\ posted' = [body |-> body, stored |-> new # {}]
    /\ Begin(c, Free)
    /\ UNCHANGED datasets

\* delete_external_rag: the RAG of that id, then every dataset that names the id.
DeleteRag(c) ==
    \/ /\ \E id \in RagIds : WithId(rags, id) # {} /\ Begin(c, [op |-> "delete rag", id |-> id])
       /\ UNCHANGED <<rags, datasets>>
    \/ /\ client[c].op = "delete rag"
       /\ rags' = rags \ FindOne(WithId(rags, client[c].id))
       /\ IF WithId(rags, client[c].id) = {} THEN Done(c)
          ELSE Goto(c, [op |-> "cascade", id |-> client[c].id,
                        realm |-> (CHOOSE d \in FindOne(WithId(rags, client[c].id)) : TRUE).realm])
       /\ UNCHANGED datasets
    \/ /\ client[c].op = "cascade"
       /\ datasets' = {d \in datasets : d.rag # client[c].id}
       /\ Done(c)
       /\ UNCHANGED rags

\* The gateway stops: what was in the middle ends there.
Crash ==
    /\ Crashes /\ \E c \in Clients : ~Idle(c)
    /\ client' = [c \in Clients |-> Free]
    /\ UNCHANGED <<realms, rags, datasets, files, posted, calls, oid>>

Next ==
    \/ \E c \in Clients :
          \/ (CreateRealm(c) \/ EditRealm(c)) /\ UNCHANGED <<rags, datasets, files, posted>>
          \/ HardDelete(c) /\ UNCHANGED <<rags, datasets, files, posted, oid>>
          \/ Export(c) /\ UNCHANGED posted
          \/ (StartImport(c) \/ ImportStep(c)) /\ UNCHANGED <<files, posted>>
          \/ PostRag(c) /\ UNCHANGED <<realms, files>>
          \/ DeleteRag(c) /\ UNCHANGED <<realms, files, posted, oid>>
    \/ Crash

Spec == Init /\ [][Next]_vars

---------------------------------------------------------------------------
(* Properties *)

\* Documents refer to ids that exist, and no two documents are one.
TypeOK ==
    /\ \A d \in rags : d.id \in RagIds
    /\ \A d \in realms \cup rags \cup datasets : d.oid < oid
    /\ \A d, e \in realms \cup rags \cup datasets : d.oid = e.oid => d = e

\* One request after the other, every realm has an id of its own, through any sequence of
\* creations, deletes, imports and renames.
OneRealmPerId == \A d, e \in realms : d.id = e.id => d = e

\* One request after the other, a RAG is never left with a realm that is gone: a hard delete
\* waits for it, and an import brings its realm.
RagsHaveTheirRealm ==
    (\A c \in Clients : Idle(c)) => \A g \in rags : WithId(realms, g.realm) # {}

\* "dry_run=true returns the same reconciliation and writes nothing", whoever else works:
\* a client that runs one changes no document.
DryRunWritesNothing ==
    \A c \in Clients : (client[c].op = "import" /\ client[c].dry_run /\ client'[c] # client[c])
        => UNCHANGED <<realms, rags, datasets>>

-----------------------------------------------------------------------------
(* What the code, its tests or its documents say and the code does not keep (README). *)

\* "still requires zero linked RAG endpoints": a realm is removed only when none is linked.
RemovedUnlinked ==
    [][\A d \in realms : WithId(realms', d.id) = {} => OfRealm(rags, d.id) = {}]_vars

\* "merging two realms mixes two run histories, and keeping those separate is what a realm is
\* for": two imports that are running do not write into one realm.
ImportsDoNotMix ==
    \A c, d \in Clients :
        (c # d /\ client[c].op = "import" /\ client[d].op = "import"
               /\ ~client[c].dry_run /\ ~client[d].dry_run) => client[c].id # client[d].id

\* The cascade takes "this RAG's own registered datasets", not those of another realm's RAG.
CascadeStaysInTheRealm ==
    [][\A c \in Clients : client[c].op = "cascade" =>
           \A d \in datasets \ datasets' : d.realm = client[c].realm]_vars

\* "POST /external-rags: Save a new endpoint {name, url, description, headers}".
RegistrationIsKept == posted.body = "registration" => posted.stored
=============================================================================
