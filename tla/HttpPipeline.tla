------------------------------ MODULE HttpPipeline ------------------------------
(***************************************************************************)
(* One external RAG as a pipeline: adapters/http_pipeline.py and, where    *)
(* the registration has a template or a mapping, jsonpath_mapping.py.  A   *)
(* pipeline is built for a record and a run; then each question is one     *)
(* request, whose answer becomes the question's result.                    *)
(***************************************************************************)
EXTENDS Integers, FiniteSets, Functions

CONSTANTS
    Urls,           \* addresses a record may name
    Fields,         \* fields of a run's routing context
    MaxCalls        \* bound: questions put through one pipeline

\* The fields render_request_template knows; "reranker_id" and "params" are in the context too.
Rendered == {"corpus_id", "realm_id", "pipeline_id"}

\* What a template may hold under a field's name, and what stands in a payload.
InTemplate == {"its placeholder", "text"}
InPayload == {"value", "empty", "text", "placeholder"}

NoTemplate == [native |-> TRUE]
Templates == {NoTemplate} \cup UNION {[D -> InTemplate] : D \in SUBSET Fields}
NoUrl == "none"
Nothing == [pending |-> TRUE]

VARIABLES
    record,     \* url, endpoint, template, mapping (has a response_mapping)
    context,    \* the fields this run sets
    allowlist,  \* RAG_HTTP_ALLOWLIST; empty is anything
    state,      \* "new", "built", "refused"
    called,     \* the last request: address and payload
    result,     \* what the last question got
    calls

vars == <<record, context, allowlist, state, called, result, calls>>

Init ==
    /\ record \in [url : Urls, endpoint : Urls \cup {NoUrl}, template : Templates, mapping : BOOLEAN]
    /\ context \in SUBSET Fields
    /\ allowlist \in SUBSET Urls
    /\ state = "new" /\ called = Nothing /\ result = Nothing /\ calls = 0

---------------------------------------------------------------------------
(* Egress *)

Allowed(u) == allowlist = {} \/ u \in allowlist

\* Both addresses are looked at once, when the pipeline is built.
Checked == {record.url} \cup ({record.endpoint} \ {NoUrl})

Build ==
    /\ state = "new"
    /\ state' = IF \A u \in Checked : Allowed(u) THEN "built" ELSE "refused"
    /\ UNCHANGED <<record, context, allowlist, called, result, calls>>

---------------------------------------------------------------------------
(* The request *)

\* A placeholder of a field the run does not set becomes the empty string; one
\* the renderer does not know stays as it is.
Render(f, held) ==
    CASE held = "text" -> "text"
      [] held = "its placeholder" /\ f \notin Rendered -> "placeholder"
      [] held = "its placeholder" /\ f \in Rendered -> IF f \in context THEN "value" ELSE "empty"

\* A field is appended unless the template has a key of its name.
Appended == context

Payload ==
    IF record.template = NoTemplate THEN [f \in Appended |-> "value"]
    ELSE LET own == DOMAIN record.template IN
         [f \in own \cup Appended |-> IF f \in own THEN Render(f, record.template[f]) ELSE "value"]

---------------------------------------------------------------------------
(* The answer *)

\* What the RAG answers: a status, fragments at the top level (or what its
\* mapping finds), a trace with fragments of its own.
Answers ==
    [status : {"ok"}, top : {"absent", "empty", "some"}, trace : {"absent", "some"}, text : BOOLEAN]
        \cup [status : {"error", "no json"}, top : {"absent"}, trace : {"absent"}, text : {FALSE}]

\* A status of 400 or more, or a body that is no JSON, is an exception.
Raises(a) == a.status # "ok"

\* apply_response_mapping keeps answer and fragments; the trace goes, and
\* fragments that are not found are an empty list.
Mapped(a) == IF record.mapping THEN [a EXCEPT !.trace = "absent", !.top = IF @ = "absent" THEN "empty" ELSE @] ELSE a

OrEmpty(s) == IF s = "absent" THEN "empty" ELSE s

\* run: the trace's fragments only when there are none at the top, not even an
\* empty list.
RunSourcesOfTrace(a) == OrEmpty(Mapped(a).trace)
RunSources(a) == IF Mapped(a).top # "absent" THEN Mapped(a).top ELSE OrEmpty(Mapped(a).trace)
RetrieveSources(a) == OrEmpty(Mapped(a).top)

Failed == [failed |-> TRUE, answer |-> Nothing, asked |-> "any"]
Result(a, how, text, sources) ==
    [failed |-> FALSE, answer |-> a, asked |-> how, text |-> text, sources |-> sources]

Post(u) == called' = [url |-> u, payload |-> Payload] /\ calls' = calls + 1

CallRun(how) ==
    /\ Post(record.url)
    /\ \E a \in Answers :
        result' = IF Raises(a) THEN Failed ELSE Result(a, how, a.text, RunSources(a))

Run ==
    /\ state = "built" /\ calls < MaxCalls
    /\ CallRun("run")
    /\ UNCHANGED <<record, context, allowlist, state>>

\* Retrieval only: the endpoint of its own, or all of run without one.
Retrieve ==
    /\ state = "built" /\ calls < MaxCalls
    /\ IF record.endpoint = NoUrl THEN CallRun("retrieve")
       ELSE /\ Post(record.endpoint)
            /\ \E a \in Answers :
                result' = IF Raises(a) THEN Failed ELSE Result(a, "retrieve", FALSE, RetrieveSources(a))
    /\ UNCHANGED <<record, context, allowlist, state>>

Next == Build \/ Run \/ Retrieve
Spec == Init /\ [][Next]_vars

---------------------------------------------------------------------------
(* Properties *)

\* States and payloads have their shape.
TypeOK ==
    /\ state \in {"new", "built", "refused"}
    /\ called # Nothing => \A f \in DOMAIN called.payload : f \in Fields /\ called.payload[f] \in InPayload

\* No request goes to an address outside the allowlist, whichever of a
\* record's two addresses a question is put to.
EgressIsAllowed == called # Nothing => Allowed(called.url)

\* A RAG is told each field of its run, native or behind a template, unless
\* the template itself writes something else under the field's name.
ContextArrives ==
    called # Nothing =>
        \A f \in context :
            /\ f \in DOMAIN called.payload
            /\ \/ called.payload[f] = "value"
               \/ /\ record.template # NoTemplate /\ f \in DOMAIN record.template
                  /\ record.template[f] = "text" \/ f \notin Rendered

\* What a RAG says went wrong never becomes the answer to a question.
ErrorIsNoAnswer == (result # Nothing /\ ~result.failed) => result.answer.status = "ok"

\* Both paths read the fragments a RAG puts at the top level, mapped or not;
\* fragments of the trace never stand in for an empty list there.
TopLevelIsRead ==
    (result # Nothing /\ ~result.failed /\ result.answer.top # "absent") =>
        result.sources = result.answer.top

--------------------------------------------------------------------------------
(* What the code, its tests or its documents say and the code does not keep (README). *)

\* Without an endpoint of its own for retrieval the platform discards the answer text.
RetrievedHasNoText == (result # Nothing /\ ~result.failed /\ result.asked = "retrieve") => ~result.text
================================================================================
