--------------------------- MODULE PromptActivation ---------------------------
(***************************************************************************)
(* The prompt templates of core/prompt_store.py and the routes of          *)
(* routers/prompts.py: files, which the pipeline reads from its threads,   *)
(* and documents in MongoDB, which the screens read.  A handler writes the *)
(* files in one go of the event loop, file after file, and the documents   *)
(* one await at a time; the gateway may stop between any two steps.        *)
(***************************************************************************)
EXTENDS Integers, FiniteSets, Sequences, FiniteSetsExt

CONSTANTS
    Handler, Realm,
    Templates,   \* the templates of the installation at the start: records, see Template
    Imported,    \* the template of a realm that is imported
    MaxVersion, MaxRequests, MaxFaults,   \* bounds on the versions, the requests and the failures of MongoDB
    None

VARIABLES
    files,     \* the templates that have a file
    docs,      \* the documents of the collection
    writing,   \* Idle, or the activation whose files are being written: the event loop is busy
    handler,   \* what each handler is about
    started,   \* the requests so far
    faults,
    seeded     \* files were written from documents: at a start or an import

vars == <<files, docs, writing, handler, started, faults, seeded>>

\* A template; its identifier is the version and a suffix, by is what it was written by.
Template(id, realm, version, active, by) ==
    [id |-> id, realm |-> realm, version |-> version, active |-> active, by |-> by]

\* The installation has one file to an identifier and at most one active file to a realm.
IsTemplate(t) ==
    /\ t = Template(t.id, t.realm, t.version, t.active, t.by)
    /\ t.id \in Nat \X Nat /\ t.realm \in Realm \cup {None} /\ t.version \in 1..MaxVersion
    /\ t.active \in BOOLEAN
Assumptions ==
    /\ {MaxVersion, MaxRequests, MaxFaults} \subseteq Nat
    /\ IsTemplate(Imported)
    /\ \A T \in Templates :
          /\ IsFiniteSet(T.files) /\ IsFiniteSet(T.docs)
          /\ \A t \in T.files \cup T.docs : IsTemplate(t)
          /\ \A t, u \in T.files :
                t.id = u.id \/ (t.active /\ u.active /\ t.realm = u.realm) => t = u

Idle == [pc |-> "idle"]
IdsOf(S) == {t.id : t \in S}
Named(S, id) == CHOOSE t \in S : t.id = id
InRealm(S, r) == {t \in S : t.realm = r}
Active(S) == {t \in S : t.active}
Newest(S) == CHOOSE t \in S : \A u \in S :
                t.version > u.version \/ (t.version = u.version /\ t.id[2] >= u.id[2])

-----------------------------------------------------------------------------
(* What the pipeline reads.                                                *)

\* get_active: the realm's active one, its newest, then those of the whole installation.
GetActive(S, r) ==
    LET own == InRealm(S, r) IN
    CASE Active(own) # {} -> Newest(Active(own))
      [] Active(own) = {} /\ own # {} -> Newest(own)
      [] own = {} /\ Active(S) # {} -> Newest(Active(S))
      [] own = {} /\ Active(S) = {} /\ S # {} -> Newest(S)
      [] OTHER -> None

\* A question is answered in a thread: the file that is being rewritten may read as empty.
Readable == {files} \cup (IF writing = Idle THEN {} ELSE {files \ {Named(files, Head(writing.todo).id)}})
AskedWith(r) == {GetActive(S, r) : S \in Readable}

\* The templates that are chosen for a realm: the active ones; during an activation those that
\* were and the one that will be.
Chosen(r) == Active(InRealm(files, r)) \cup (IF writing = Idle THEN {} ELSE InRealm(writing.chosen, r))

-----------------------------------------------------------------------------
(* The documents; every operation of MongoDB may fail, and is then logged. *)

Store(t) == {(docs \ {d}) \cup {t} : d \in {e \in docs : e.id = t.id}}
            \cup (IF t.id \in IdsOf(docs) THEN {} ELSE {docs \cup {t}})
Remove1(id) == IF id \in IdsOf(docs) THEN {docs \ {d} : d \in {e \in docs : e.id = id}} ELSE {docs}

MongoUpsert(t) ==
    \/ docs' \in Store(t) /\ faults' = faults
    \/ faults < MaxFaults /\ faults' = faults + 1 /\ docs' = docs
MongoDelete(id) ==
    \/ docs' \in Remove1(id) /\ faults' = faults
    \/ faults < MaxFaults /\ faults' = faults + 1 /\ docs' = docs

Goto(h, s) == handler' = [handler EXCEPT ![h] = s]
Free == writing = Idle

\* A handler takes a request.
Accept(h) == /\ Free /\ handler[h] = Idle /\ started < MaxRequests /\ started' = started + 1

-----------------------------------------------------------------------------
(* create_prompt                                                           *)

NextVersion(S) == IF S = {} THEN 1 ELSE 1 + Max({t.version : t \in S})

\* The version is counted in the realm's documents, without MongoDB in all files.
CreatePrompt(h, r) ==
    /\ Accept(h)
    /\ \/ Goto(h, [pc |-> "save", realm |-> r, version |-> NextVersion(InRealm(docs, r)),
                   taken |-> IdsOf(files)]) /\ faults' = faults
       \/ /\ faults < MaxFaults /\ faults' = faults + 1
          /\ Goto(h, [pc |-> "save", realm |-> r, version |-> NextVersion(files), taken |-> IdsOf(files)])
    /\ UNCHANGED <<files, docs, writing, seeded>>

FreeId(v, taken) == <<v, Min({n \in 0..Cardinality(taken) : <<v, n>> \notin taken})>>

\* The identifier is chosen among the files and the file is written, without an await between.
SavePrompt(h) ==
    /\ Free /\ handler[h].pc = "save" /\ handler[h].version <= MaxVersion
    /\ LET t == Template(FreeId(handler[h].version, IdsOf(files)), handler[h].realm,
                         handler[h].version, FALSE, h)
       IN  /\ files' = files \cup {t}
           /\ Goto(h, [pc |-> "upsert", template |-> t])
    /\ UNCHANGED <<docs, writing, started, faults, seeded>>

SavedUpsert(h) ==
    /\ Free /\ handler[h].pc = "upsert" /\ MongoUpsert(handler[h].template) /\ Goto(h, Idle)
    /\ UNCHANGED <<files, writing, started, seeded>>

-----------------------------------------------------------------------------
(* activate_prompt                                                         *)

\* set_active visits the files by version.
Before(t, u) == t.version < u.version \/ (t.version = u.version /\ t.id[2] < u.id[2])
ByVersion(S) ==
    {q \in [1..Cardinality(S) -> S] :
        S = {q[i] : i \in DOMAIN q} /\ \A i, j \in DOMAIN q : i < j => Before(q[i], q[j])}

\* Variant with a bug: the other realms are deactivated too.
TouchedEverywhere(id) == files
Touched(id) == InRealm(files, Named(files, id).realm)

SetActive(h, id) ==
    /\ Accept(h) /\ id \in IdsOf(files)
    /\ \E order \in ByVersion(Touched(id)) :
          writing' = [by |-> h, target |-> id, todo |-> order,
                      chosen |-> Active(files) \cup {Named(files, id)}]
    /\ Goto(h, [pc |-> "setting"])
    /\ UNCHANGED <<files, docs, faults, seeded>>

\* One file; the last of them ends the handler's turn at its first await.
WriteFile ==
    /\ writing # Idle
    /\ LET t == Head(writing.todo)
           last == Len(writing.todo) = 1
       IN  /\ files' = {u \in files : u.id # t.id}
                       \cup {[t EXCEPT !.active = (t.id = writing.target)]}
           /\ writing' = IF last THEN Idle ELSE [writing EXCEPT !.todo = Tail(@)]
           /\ IF last THEN Goto(writing.by, [pc |-> "realms"]) ELSE handler' = handler
    /\ UNCHANGED <<docs, started, faults, seeded>>

\* The realms the documents know, then the list of the files.
RealmKnown(t, S) ==
    IF t.realm # None \/ t.id \notin IdsOf(S) THEN t.realm ELSE Named(S, t.id).realm
WithRealms(known) == {[t EXCEPT !.realm = RealmKnown(t, known)] : t \in files}
ReadRealms(h) ==
    /\ Free /\ handler[h].pc = "realms"
    /\ \E known \in {docs} \cup (IF faults < MaxFaults THEN {{}} ELSE {}) :
          /\ \/ files = {} /\ Goto(h, Idle)
             \/ files # {} /\ \E order \in ByVersion(WithRealms(known)) :
                                  Goto(h, [pc |-> "sync", todo |-> order])
          /\ faults' = IF known = docs THEN faults ELSE faults + 1
    /\ UNCHANGED <<files, docs, writing, started, seeded>>

SyncOne(h) ==
    /\ Free /\ handler[h].pc = "sync"
    /\ MongoUpsert(Head(handler[h].todo))
    /\ Goto(h, IF Len(handler[h].todo) = 1 THEN Idle ELSE [handler[h] EXCEPT !.todo = Tail(@)])
    /\ UNCHANGED <<files, writing, started, seeded>>

-----------------------------------------------------------------------------
(* delete_prompt, a restart, an import                                     *)

DeletePrompt(h, id) ==
    /\ Accept(h) /\ id \in IdsOf(files)
    /\ files' = {t \in files : t.id # id} /\ Goto(h, [pc |-> "unstore", id |-> id])
    /\ UNCHANGED <<docs, writing, faults, seeded>>

DeletedUnstore(h) ==
    /\ Free /\ handler[h].pc = "unstore" /\ MongoDelete(handler[h].id) /\ Goto(h, Idle)
    /\ UNCHANGED <<files, writing, started, seeded>>

\* sync_from: a document whose identifier has no file gets one, the first of its identifier.
Missing(S) == {d \in S : d.id \notin IdsOf(files)}
Synced(S) == {files \cup T : T \in {U \in SUBSET Missing(S) :
                 IdsOf(U) = IdsOf(Missing(S)) /\ Cardinality(U) = Cardinality(IdsOf(U))}}

\* The gateway stops wherever it is, and starts.
Restart ==
    /\ files' \in Synced(docs) /\ seeded' = TRUE /\ writing' = Idle
    /\ handler' = [h \in Handler |-> Idle]
    /\ UNCHANGED <<docs, started, faults>>

\* import_realm inserts the documents as they come and seeds the files with them.
Import ==
    /\ Free /\ InRealm(docs, Imported.realm) = {} /\ ~seeded
    /\ docs' = docs \cup {Imported} /\ files' \in Synced({Imported}) /\ seeded' = TRUE
    /\ UNCHANGED <<writing, handler, started, faults>>

-----------------------------------------------------------------------------
Init ==
    /\ \E T \in Templates : files = T.files /\ docs = T.docs
    /\ writing = Idle /\ handler = [h \in Handler |-> Idle] /\ started = 0
    /\ faults = 0 /\ seeded = FALSE

Next ==
    \/ \E h \in Handler : \/ \E r \in Realm : CreatePrompt(h, r)
                          \/ SavePrompt(h) \/ SavedUpsert(h) \/ ReadRealms(h) \/ SyncOne(h)
                          \/ DeletedUnstore(h)
                          \/ \E id \in IdsOf(files) : SetActive(h, id) \/ DeletePrompt(h, id)
    \/ WriteFile \/ Restart \/ Import

Spec == Init /\ [][Next]_vars

-----------------------------------------------------------------------------
TypeOK ==
    /\ Cardinality(files) = Cardinality(IdsOf(files))
    /\ \A t \in files \cup docs : t.version \in 1..MaxVersion /\ t.realm \in Realm \cup {None}
    /\ faults \in 0..MaxFaults /\ started \in 0..MaxRequests /\ (writing # Idle => writing.todo # <<>>)

Quiet == writing = Idle /\ \A h \in Handler : handler[h] = Idle

\* prompt_store.py:6, the incident: an activation changes no flag of another realm's files.
ActivationStaysInItsRealm ==
    writing # Idle => \A t \in files, u \in files' :
       t.id = u.id /\ t.active # u.active => \E w \in writing.chosen : w.id = writing.target /\ w.realm = t.realm

\* create_prompt: handlers that create at once, in one realm or two, never write over a file.
FilesKeepTheirText == \A t \in files, u \in files' : t.id = u.id => t.by = u.by

\* get_active: while a realm has a template of its own that can be read, none of another realm
\* answers for it, activations and deletions in progress or not.
OwnTemplatesComeFirst ==
    \A r \in Realm, S \in Readable :
        InRealm(S, r) # {} => GetActive(S, r).realm = r

\* set_active: once its files are written a realm has one active template at most, as long as
\* no file was made from a document.
OneActiveUntilSeeded ==
    (writing = Idle /\ ~seeded) => \A r \in Realm \cup {None} : Cardinality(Active(InRealm(files, r))) <= 1

-----------------------------------------------------------------------------
(* What the code, its tests or its documents say and the code does not keep (README). *)

\* prompt_store.py:3: "One prompt has is_active=true per realm_id".
OneActivePerRealm ==
    writing = Idle => \A r \in Realm : Cardinality(Active(InRealm(files, r))) <= 1

\* prompt_store.py:140: the newest answers for a realm with "no active one set yet": where one
\* is set, a question gets that one or, during an activation, the one being set.
AskedGetsTheActive ==
    \A r \in Realm : Chosen(r) # {} => \A t \in AskedWith(r) : t.id \in IdsOf(Chosen(r))

\* prompt_store.py:110: "an edit through the screen writes to both places at once": with MongoDB
\* up and nothing under way, the screens and the pipeline have one template active.
ScreenShowsWhatIsUsed ==
    (Quiet /\ faults = 0 /\ ~seeded) =>
        \A r \in Realm : IdsOf(Active(InRealm(docs, r))) = IdsOf(Active(InRealm(files, r)))

\* realms.py:395: an imported realm no longer answers "through whichever prompt happened to have
\* a file beside it".
ImportedRealmUsesItsOwn ==
    (Imported \in docs /\ Quiet) => \A t \in AskedWith(Imported.realm) : t.realm = Imported.realm
=============================================================================
