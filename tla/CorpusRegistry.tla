--------------------------- MODULE CorpusRegistry ---------------------------
(***************************************************************************)
(* The registry of corpora (routers/corpus.py): the loads that build an    *)
(* index and then register it, and the edits of the records, for one       *)
(* (realm_id, corpus_id).                                                  *)
(*                                                                         *)
(* A request is a program of steps, cut where the handler awaits or calls  *)
(* another service: other requests run between two of its steps.  An       *)
(* index is kept as the set of loads whose fragments it holds.             *)
(***************************************************************************)
EXTENDS Integers, Sequences, FiniteSets

CONSTANTS
    Clients,        \* requests, and command lines of the ingestion tool
    Kinds,          \* the programs clients may run, a subset of DOMAIN Program
    None            \* no load, no manifest

ClientsAssumption == None \notin Clients

\* The steps of every kind of request.  POST /corpus/ingest runs the command line,
\* which registers the load with its manifest, and then registers it again.
Program ==
    [ingest   |-> <<"dense", "sparse", "find", "write", "find", "write">>,
     cli      |-> <<"dense", "sparse", "find", "write">>,
     snapshot |-> <<"replace", "find", "write">>,
     dump     |-> <<"bulk", "find", "write">>,
     cypher   |-> <<"graph", "find", "write">>,
     external |-> <<"find", "write">>,
     soft     |-> <<"look", "mark">>,
     restore  |-> <<"look", "unmark">>,
     edit     |-> <<"look", "describe">>,
     hard     |-> <<"look", "dropdense", "dropsparse", "remove">>]

KindsAssumption == Kinds \subseteq DOMAIN Program

Backends == {"dense", "sparse", "graph"}
Loads == {"ingest", "cli", "snapshot", "dump", "cypher", "external"}

VARIABLES
    records,    \* the corpora collection: what find_one(realm_id, corpus_id) may return
    inserted,   \* ids given out
    exists,     \* which of the Qdrant collection and the OpenSearch index exist
    held,       \* held[b]: the loads whose fragments the backend holds
    client,     \* client[c]: where the request of c stands
    listed,     \* history: the backends of the last registration, while no delete met it
    cleared     \* history: hard deletes that dropped all their record named, undisturbed

vars == <<records, inserted, exists, held, client, listed, cleared>>
stores == <<records, inserted, exists, held>>
histories == <<listed, cleared>>

Record == [id : Nat, backends : SUBSET Backends, manifest : Clients \cup {None},
           deleted : BOOLEAN]
Idle == [kind |-> "idle", at |-> 1, found |-> FALSE, target |-> 0, seen |-> {}, built |-> {},
         calm |-> TRUE]
Done == [Idle EXCEPT !.kind = "done"]

Init ==
    /\ records = {}
    /\ inserted = 0
    /\ exists = {}
    /\ held = [b \in Backends |-> {}]
    /\ client = [c \in Clients |-> Idle]
    /\ listed = {}
    /\ cleared = {}

At(c, step) ==
    /\ client[c].kind \in DOMAIN Program
    /\ client[c].at \in DOMAIN Program[client[c].kind]
    /\ Program[client[c].kind][client[c].at] = step

Under(kinds) == {c \in Clients : /\ client[c].kind \in kinds
                                 /\ client[c].at \in DOMAIN Program[client[c].kind]}

\* A hard delete is no longer undisturbed once a load has put fragments back.
Disturb(how) == [c \in Clients |-> IF c \in Under({"hard"}) THEN [how[c] EXCEPT !.calm = FALSE]
                                   ELSE how[c]]
Ends(c) == [client EXCEPT ![c] = Done]
Advance(c) == IF client[c].at < Len(Program[client[c].kind])
              THEN [client EXCEPT ![c].at = @ + 1] ELSE Ends(c)

---------------------------------------------------------------------------
(* Loads *)

Begin(c, k, target) ==
    /\ client[c] = Idle
    /\ client' = [client EXCEPT ![c].kind = k, ![c].target = target]
    /\ UNCHANGED <<stores, histories>>

\* ingest(): opening the retriever creates the collection, every file is upserted.
\* A raise ends the command line with what was written so far.
LoadDense(c) ==
    /\ At(c, "dense")
    /\ exists' = exists \cup {"dense"}
    /\ held' = [held EXCEPT !["dense"] = @ \cup {c}]
    /\ \/ client' = Disturb([Advance(c) EXCEPT ![c].built = {"dense"}])
       \/ client' = Disturb(Ends(c))
    /\ cleared' = {}
    /\ UNCHANGED <<records, inserted, listed>>

\* OpenSearch that cannot be reached is gone on without; an analyser that would stem by
\* another language's rules ends the load, as does a refused write.
LoadSparse(c) ==
    /\ At(c, "sparse")
    /\ \/ /\ exists' = exists \cup {"sparse"}
          /\ held' = [held EXCEPT !["sparse"] = @ \cup {c}]
          /\ client' = Disturb([Advance(c) EXCEPT ![c].built = @ \cup {"sparse"}])
          /\ cleared' = {}
       \/ /\ client' = Advance(c)
          /\ UNCHANGED <<exists, held, cleared>>
       \/ /\ exists' = exists \cup {"sparse"}
          /\ held' = [held EXCEPT !["sparse"] = @ \cup {c}]
          /\ client' = Disturb(Ends(c))
          /\ cleared' = {}
       \/ /\ client' = Ends(c)
          /\ UNCHANGED <<exists, held, cleared>>
    /\ UNCHANGED <<records, inserted, listed>>

\* recover_from_uploaded_snapshot replaces the collection wholesale, or the request fails.
ReplaceDense(c) ==
    /\ At(c, "replace")
    /\ \/ /\ exists' = exists \cup {"dense"}
          /\ held' = [held EXCEPT !["dense"] = {c}]
          /\ client' = Disturb([Advance(c) EXCEPT ![c].built = {"dense"}])
          /\ cleared' = {}
       \/ client' = Ends(c) /\ UNCHANGED <<exists, held, cleared>>
    /\ UNCHANGED <<records, inserted, listed>>

\* exists, delete (with replace), create, bulk; each may raise after the one before it.
BulkSparse(c) ==
    LET kept == IF "sparse" \in exists THEN held["sparse"] ELSE {} IN
    /\ At(c, "bulk")
    /\ \/ \E base \in {kept, {}} :
             /\ exists' = exists \cup {"sparse"}
             /\ held' = [held EXCEPT !["sparse"] = base \cup {c}]
             /\ client' = Disturb([Advance(c) EXCEPT ![c].built = {"sparse"}])
             /\ cleared' = {}
       \/ /\ exists' = exists \ {"sparse"}
          /\ held' = [held EXCEPT !["sparse"] = {}]
          /\ client' = Ends(c)
          /\ UNCHANGED cleared
       \/ /\ exists' = exists \cup {"sparse"}
          /\ held' = [held EXCEPT !["sparse"] = {}]
          /\ client' = Disturb(Ends(c))
          /\ cleared' = {}
       \/ client' = Ends(c) /\ UNCHANGED <<exists, held, cleared>>
    /\ UNCHANGED <<records, inserted, listed>>

\* clear() with replace, then the statements one by one: the first that fails ends the
\* request, and what ran before it stays.
LoadGraph(c) ==
    /\ At(c, "graph")
    /\ \E base \in {held["graph"], {}} :
          \/ /\ held' = [held EXCEPT !["graph"] = base \cup {c}]
             /\ client' = [Advance(c) EXCEPT ![c].built = {"graph"}]
          \/ \E added \in {{}, {c}} :
                /\ held' = [held EXCEPT !["graph"] = base \cup added]
                /\ client' = Ends(c)
    /\ UNCHANGED <<records, inserted, exists, histories>>

\* What a registration is for: the first of an ingestion, and that of the command line, are
\* made by the command line, which knows what it built; the gateway names both indexes.
FromCommandLine(c) == client[c].kind = "cli" \/ (client[c].kind = "ingest" /\ client[c].at < 5)

NamedBy(c) ==
    IF client[c].kind = "external" THEN (SUBSET Backends) \ {{}}
    ELSE IF client[c].kind = "ingest" /\ ~FromCommandLine(c) THEN {{"dense", "sparse"}}
    ELSE {client[c].built}

\* A database that refuses a call ends the request; the command line only reports it.
RegistrationFails(c) ==
    client' = IF FromCommandLine(c) /\ client[c].kind = "ingest"
              THEN [client EXCEPT ![c].at = 5] ELSE Ends(c)

FindRecord(c) ==
    /\ At(c, "find")
    /\ \/ client' = [Advance(c) EXCEPT ![c].found = records # {}, ![c].calm = Under({"soft", "hard"}) = {}]
       \/ RegistrationFails(c)
    /\ UNCHANGED <<stores, histories>>

\* The $set of _register_corpus: backends are replaced, deleted_at is cleared, and a
\* manifest is written only by a caller that has one.
Refreshed(r, c, backends) ==
    [r EXCEPT !.backends = backends, !.deleted = FALSE,
              !.manifest = IF FromCommandLine(c) THEN c ELSE @]

\* Variant with a bug: a caller without a manifest writes an empty one.
RefreshedWhole(r, c, backends) ==
    [r EXCEPT !.backends = backends, !.deleted = FALSE,
              !.manifest = IF FromCommandLine(c) THEN c ELSE None]

RefreshRecord(r, c, backends) == Refreshed(r, c, backends)

NewRecord(c, backends) ==
    [id |-> inserted + 1, backends |-> backends, deleted |-> FALSE,
     manifest |-> IF FromCommandLine(c) THEN c ELSE None]

\* Decided by what the find saw: update_one on (realm_id, corpus_id), which matches nothing
\* when the record is gone by now, or an insert beside whatever is there by now.
WriteRecord(c) ==
    /\ At(c, "write")
    /\ \/ \E backends \in NamedBy(c) :
             /\ IF client[c].found
                THEN /\ \/ \E r \in records :
                              records' = (records \ {r}) \cup {RefreshRecord(r, c, backends)}
                        \/ records = {} /\ UNCHANGED records
                     /\ UNCHANGED inserted
                ELSE /\ records' = records \cup {NewRecord(c, backends)}
                     /\ inserted' = inserted + 1
             /\ listed' = IF client[c].calm THEN {backends} ELSE {}
             /\ client' = Advance(c)
       \/ RegistrationFails(c) /\ UNCHANGED <<records, inserted, listed>>
    /\ UNCHANGED <<exists, held, cleared>>

---------------------------------------------------------------------------
(* Edits of a record, by its id *)

Visible(c, r) ==
    CASE client[c].kind \in {"soft", "edit"} -> ~r.deleted
      [] client[c].kind = "restore" -> r.deleted
      [] client[c].kind = "hard" -> TRUE

\* find_one by id; 404 for what is not there, or is in the other state.
LookUp(c) ==
    /\ At(c, "look")
    /\ \/ \E r \in records :
             /\ r.id = client[c].target
             /\ Visible(c, r)
             /\ client' = [d \in Clients |->
                              IF d = c THEN [client[c] EXCEPT !.at = 2, !.seen = r.backends,
                                               !.calm = Under(Loads) = {}]
                              ELSE IF client[c].kind \in {"soft", "hard"} /\ d \in Under(Loads)
                              THEN [client[d] EXCEPT !.calm = FALSE]
                              ELSE client[d]]
       \/ /\ ~\E r \in records : r.id = client[c].target /\ Visible(c, r)
          /\ client' = Ends(c)
    /\ UNCHANGED <<stores, histories>>

\* update_one by id: nothing happens to a record that is gone by now.
Set(c, Change(_)) ==
    records' = {IF r.id = client[c].target THEN Change(r) ELSE r : r \in records}

MarkDeleted(c) ==
    /\ At(c, "mark")
    /\ Set(c, LAMBDA r : [r EXCEPT !.deleted = TRUE])
    /\ client' = Advance(c)
    /\ listed' = {}
    /\ UNCHANGED <<inserted, exists, held, cleared>>

ClearDeleted(c) ==
    /\ At(c, "unmark")
    /\ Set(c, LAMBDA r : [r EXCEPT !.deleted = FALSE])
    /\ client' = Advance(c)
    /\ UNCHANGED <<inserted, exists, held, histories>>

\* update_collection sets description and updated_at, which are not modelled, and writes
\* back nothing of what it read.
Describe(c) ==
    /\ At(c, "describe")
    /\ client' = Advance(c)
    /\ UNCHANGED <<stores, histories>>

\* The two drops of a hard delete: only what the record named, and a backend that
\* refuses is logged and skipped.
Drop(c, b) ==
    \/ /\ b \in client[c].seen
       /\ exists' = exists \ {b}
       /\ held' = [held EXCEPT ![b] = {}]
       /\ client' = Advance(c)
    \/ /\ b \in client[c].seen
       /\ client' = [Advance(c) EXCEPT ![c].calm = FALSE]
       /\ UNCHANGED <<exists, held>>
    \/ /\ b \notin client[c].seen
       /\ client' = Advance(c)
       /\ UNCHANGED <<exists, held>>

DropDense(c) ==
    /\ At(c, "dropdense")
    /\ Drop(c, "dense")
    /\ UNCHANGED <<records, inserted, histories>>

DropSparse(c) ==
    /\ At(c, "dropsparse")
    /\ Drop(c, "sparse")
    /\ UNCHANGED <<records, inserted, histories>>

RemoveRecord(c) ==
    /\ At(c, "remove")
    /\ records' = {r \in records : r.id # client[c].target}
    /\ client' = Advance(c)
    /\ listed' = {}
    /\ cleared' = IF client[c].calm THEN cleared \cup (client[c].seen \ {"graph"}) ELSE cleared
    /\ UNCHANGED <<inserted, exists, held>>

---------------------------------------------------------------------------
LoadStep(c) == LoadDense(c) \/ LoadSparse(c) \/ ReplaceDense(c) \/ BulkSparse(c) \/ LoadGraph(c)
RegisterStep(c) == FindRecord(c) \/ WriteRecord(c)
EditStep(c) ==
    \/ LookUp(c) \/ MarkDeleted(c) \/ ClearDeleted(c) \/ Describe(c)
    \/ DropDense(c) \/ DropSparse(c) \/ RemoveRecord(c)

\* Ids are given out in order, so that an edit can name any record there was or will be.
Targets(k) == IF k \in Loads THEN {0} ELSE 1..Cardinality(Clients)

Next ==
    \/ \E c \in Clients, k \in Kinds : \E target \in Targets(k) : Begin(c, k, target)
    \/ \E c \in Clients : LoadStep(c) \/ RegisterStep(c) \/ EditStep(c)

Spec == Init /\ [][Next]_vars

---------------------------------------------------------------------------
(* Properties *)

\* Records, indexes and requests are what the code makes of them, and every id that was
\* given out belongs to at most one record.
TypeOK ==
    /\ records \subseteq Record
    /\ inserted \in Nat
    /\ \A r, q \in records : r.id = q.id => r = q
    /\ \A r \in records : r.id \in 1..inserted
    /\ exists \subseteq Backends \ {"graph"}
    /\ held \in [Backends -> SUBSET Clients]
    /\ \A b \in {"dense", "sparse"} : b \notin exists => held[b] = {}

\* What is known of how an index was built is never replaced by nothing: no registration,
\* edit or delete in flight takes the manifest off a record that keeps existing.
ManifestIsNeverForgotten ==
    \A r \in records, q \in records' :
       r.id = q.id /\ r.manifest # None => q.manifest # None

\* A soft-deleted corpus comes back by a restore or a new registration only, whatever
\* edit read it before it was deleted.
DeletedStaysDeleted ==
    \A r \in records, q \in records' :
       r.id = q.id /\ r.deleted /\ ~q.deleted =>
          \E c \in Clients : At(c, "unmark") \/ At(c, "write")

\* After a registration that no delete met, the corpus is listed with the backends that
\* registration named, also when it had been soft-deleted before.
LastLoadIsListed ==
    \A backends \in listed : \E r \in records : ~r.deleted /\ r.backends = backends

\* A hard delete that ran beside no load and was refused by no backend leaves none of
\* the indexes its record named.
HardDeleteDropsWhatItNamed == cleared \cap exists = {}

-----------------------------------------------------------------------------
(* What the code, its tests or its documents say and the code does not keep (README). *)

\* "doesn't create a duplicate record": there is one record per realm and corpus.
OneRecordPerCorpus == Cardinality(records) <= 1

\* "the sparse index always gets created alongside the dense one": an ingestion that ended
\* well has left the sparse index it registers.
SparseIsBuiltAlongside ==
    [][\A c \in Clients : client[c].kind = "ingest" /\ At(c, "write") /\ client[c].at = 6
          => "sparse" \in client[c].built]_vars

\* "What this index was built from and built by": the load a record's manifest tells of is
\* still part of the index, while the index is there.
ManifestDescribesTheIndex ==
    \A r \in records : r.manifest # None /\ "dense" \in exists => r.manifest \in held["dense"]
=============================================================================
