------------------------------ MODULE ExternalRag ------------------------------
(***************************************************************************)
(* The registry of external RAGs, routers/external_rags.py: one record,    *)
(* the requests that edit, test and delete it, and what a run takes from   *)
(* it.  A handler reads and writes in separate awaits.  Records come from  *)
(* an import or a seeding tool: the POST that should create them does not. *)
(***************************************************************************)
EXTENDS Integers, Functions

CONSTANTS
    Names, Values,      \* headers and their values, opened
    Mask,               \* what the API shows instead of a value
    Urls,
    Datasets,           \* question sets that may be registered for the RAG
    Editors,            \* clients with a PATCH under way
    MaxEdits            \* bound: PATCH requests

Assumptions == Mask \notin Values /\ MaxEdits \in Nat

None == [absent |-> TRUE]
Idle == [op |-> "idle"]
NoCaps == [unchecked |-> TRUE]
PartialOn(S, T) == UNION {[D -> T] : D \in SUBSET S}

VARIABLES
    rag,        \* the stored record, or None
    sets,       \* the question sets that name it as their source
    edit,       \* edit[c]: a PATCH between its read and its write
    cascade,    \* a DELETE between the record and its question sets
    probe,      \* a test between its read and its write
    calls,      \* headers, and whether a knob went along, of the last call out
    posted,     \* a POST was answered 201
    meant,      \* the record the answered edits add up to
    edits

vars == <<rag, sets, edit, cascade, probe, calls, posted, meant, edits>>

\* A document of external_rags, of what edits can change and what a probe found (caps).  knob:
\* supported_params names the one knob a run forwards.
Records(caps) == [url : Urls, retrieve : BOOLEAN, knob : BOOLEAN, headers : PartialOn(Names, Values), caps : caps]
Capabilities == {NoCaps} \cup [retrieve : BOOLEAN, knob : BOOLEAN]

Init ==
    /\ \/ rag \in Records({NoCaps}) /\ sets \in SUBSET Datasets
       \/ rag = None /\ sets = {}
    /\ edit = [c \in Editors |-> Idle]
    /\ cascade = FALSE /\ probe = Idle /\ calls = None /\ posted = FALSE
    /\ meant = rag
    /\ edits = 0

---------------------------------------------------------------------------
(* Registration *)

\* The decorator of POST /external-rags stands on _checked_coordinates: the
\* body is coordinates, and they are the answer.
Post ==
    /\ ~posted
    /\ \E resolve \in BOOLEAN : posted' = resolve   \* else 400
    /\ UNCHANGED <<rag, sets, edit, cascade, probe, calls, meant, edits>>

\* A question set registered for the RAG, by id and without a look at it.
RegisterDataset ==
    /\ \E d \in Datasets \ sets : sets' = sets \cup {d}
    /\ meant # None
    /\ UNCHANGED <<rag, edit, cascade, probe, calls, posted, meant, edits>>

---------------------------------------------------------------------------
(* Edits *)

\* A mask for a header that is not stored is dropped.
Sent(headers, stored) ==
    Restrict(headers, {n \in DOMAIN headers : headers[n] # Mask \/ n \in DOMAIN stored})

\* for_storage: a mask stands for the stored value, and for none if there is
\* none; a name left out goes.
SealedHeaders(sent, stored) ==
    [n \in {m \in DOMAIN sent : sent[m] # Mask \/ m \in DOMAIN stored} |->
        IF sent[n] = Mask THEN stored[n] ELSE sent[n]]

\* PATCH: 404 for a missing record; what is written is computed from this read.
Changes ==
    {[url |-> u] : u \in Urls} \cup {[retrieve |-> b] : b \in BOOLEAN} \cup {[knob |-> b] : b \in BOOLEAN}
        \cup {[headers |-> hs] : hs \in PartialOn(Names, Values \cup {Mask})}

Written(asked, record) ==
    IF "headers" \in DOMAIN asked
    THEN [headers |-> SealedHeaders(Sent(asked.headers, record.headers), record.headers)]
    ELSE asked

PatchRead(c) ==
    /\ edit[c] = Idle /\ edits < MaxEdits /\ rag # None
    /\ \E asked \in Changes :
        edit' = [edit EXCEPT ![c] = [op |-> "patch", asked |-> asked, write |-> Written(asked, rag)]]
    /\ edits' = edits + 1
    /\ UNCHANGED <<rag, sets, cascade, probe, calls, posted, meant>>

\* $set: the fields that are written, over those that are there.
Over(write, record) == [f \in DOMAIN record |-> IF f \in DOMAIN write THEN write[f] ELSE record[f]]

\* What an edit asks for: a mask keeps the header as it is.
Asked(record, asked) == Over(Written(asked, record), record)

\* $set without upsert: a record deleted meanwhile stays away, and the answer
\* is 200 all the same.
SetWithUpsert(record, write) ==
    Over(write, IF record # None THEN record
                ELSE CHOOSE r \in Records({NoCaps}) : r.headers = [n \in {} |-> Mask])
Set(record, write) == IF record = None THEN None ELSE Over(write, record)

PatchWrite(c) ==
    /\ edit[c] # Idle
    /\ rag' = Set(rag, edit[c].write)
    /\ meant' = IF meant = None THEN None ELSE Asked(meant, edit[c].asked)
    /\ edit' = [edit EXCEPT ![c] = Idle]
    /\ UNCHANGED <<sets, cascade, probe, calls, posted, edits>>

---------------------------------------------------------------------------
(* Deletion: the record, then in a second await what names it. *)

Delete ==
    /\ rag # None /\ ~cascade
    /\ rag' = None /\ meant' = None /\ cascade' = TRUE
    /\ UNCHANGED <<sets, edit, probe, calls, posted, edits>>

\* delete_many, or a store or gateway that fails before it.
Cascade ==
    /\ cascade
    /\ sets' \in {{}, sets}
    /\ cascade' = FALSE
    /\ UNCHANGED <<rag, edit, probe, calls, posted, meant, edits>>

---------------------------------------------------------------------------
(* Test and run *)

TestRead ==
    /\ probe = Idle /\ rag # None
    /\ probe' = [op |-> "read", doc |-> rag]
    /\ UNCHANGED <<rag, sets, edit, cascade, calls, posted, meant, edits>>

\* One request to the address that was read; any failure is an answer of its own.
TestCall ==
    /\ probe.op = "read"
    /\ calls' = [headers |-> probe.doc.headers, knob |-> FALSE, declared |-> FALSE]
    /\ probe' \in {Idle, [probe EXCEPT !.op = "answered"]}
    /\ UNCHANGED <<rag, sets, edit, cascade, posted, meant, edits>>

Probed(doc) == [retrieve |-> doc.retrieve, knob |-> doc.knob]

\* Only the capabilities are written.
WriteProbeWhole(record, doc) == IF record = None THEN None ELSE [doc EXCEPT !.caps = Probed(doc)]
WriteProbe(record, doc) == IF record = None THEN None ELSE [record EXCEPT !.caps = Probed(doc)]

TestWrite ==
    /\ probe.op = "answered"
    /\ rag' = WriteProbe(rag, probe.doc)
    /\ probe' = Idle
    /\ UNCHANGED <<sets, edit, cascade, calls, posted, meant, edits>>

\* A run resolves the record once; the knobs it may send are those of the
\* capabilities.
Knobs(record) == record.caps # NoCaps /\ record.caps.knob

Run ==
    /\ rag # None
    /\ calls' = [headers |-> rag.headers, knob |-> Knobs(rag), declared |-> rag.knob]
    /\ UNCHANGED <<rag, sets, edit, cascade, probe, posted, meant, edits>>

Next ==
    \/ Post \/ RegisterDataset
    \/ \E c \in Editors : PatchRead(c) \/ PatchWrite(c)
    \/ Delete \/ Cascade
    \/ TestRead \/ TestCall \/ TestWrite \/ Run

Spec == Init /\ [][Next]_vars

---------------------------------------------------------------------------
(* Properties *)

Quiet == \A c \in Editors : edit[c] = Idle

\* The record, the calls and the requests under way have the shape the store
\* and the handlers give them, and no header's value is the mask, in the store
\* and in what is sent out: what an edit sends back is never taken for a value.
TypeOK ==
    /\ rag \in {None} \cup Records(Capabilities)
    /\ sets \subseteq Datasets
    /\ calls # None => calls.headers \in PartialOn(Names, Values)

\* No test and no other edit undoes an edit of the address, of the retrieval
\* endpoint or of the declared knobs, whatever overlaps: each write sets the
\* fields it is about.
NoEditIsLost ==
    (rag # None /\ meant # None) => \A f \in {"url", "retrieve", "knob"} : rag[f] = meant[f]

\* A deleted RAG stays deleted: an edit or a test that read it before writes
\* nothing.
DeletedStaysDeleted == rag = None => rag' = None

--------------------------------------------------------------------------------
(* What the code, its tests or its documents say and the code does not keep (README). *)

\* A RAG whose registration was answered 201 is stored.
RegisteredIsStored == [][(posted' /\ ~posted) => (rag' # rag)]_vars

\* The mask in an edit keeps the header: once the edits under way have ended,
\* a header has the value it was last given.
MaskKeepsTheHeader == (Quiet /\ rag # None) => rag.headers = meant.headers

\* A deletion takes the question sets of the RAG along.
CascadeIsWhole == (meant = None /\ ~cascade) => sets = {}

\* A run sends no knob that the RAG does not declare.
UndeclaredIsNeverSent == calls # None => (calls.knob => calls.declared)
================================================================================
