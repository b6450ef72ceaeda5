----------------------------- MODULE JudgmentStore -----------------------------
(***************************************************************************)
(* The relevance judgments of one realm and corpus (routers/judgments.py,  *)
(* core/judgments): a file of JSON lines that the routes append to and     *)
(* rewrite and that people edit by hand, the golden questions made from it *)
(* and the bundle published from it.                                       *)
(***************************************************************************)
EXTENDS Integers, Sequences, FiniteSets, Lists, Selections

CONSTANTS
    Requests,       \* creations being answered at a time
    Questions, Chunks,
    Refs,           \* Refs[c]: the source units a chunk resolves to, none for some
    MaxJudgments, MaxEdits, MaxFaults   \* bounds: judgments ever made, edits by hand, appends cut short

Assumptions == {MaxJudgments, MaxEdits, MaxFaults} \subseteq Nat

VARIABLES
    file,       \* the lines
    ended,      \* the last line has its newline
    request,    \* what each creation resolved so far
    golden,     \* the questions of the dataset that came from judgments
    bundle,     \* the last bundle
    made, edits, faults

vars == <<file, ended, request, golden, bundle, made, edits, faults>>

Free == [pc |-> "free"]
Bad == [id |-> 0]           \* a line that does not parse

Init ==
    /\ file = <<>> /\ ended = TRUE
    /\ request = [r \in Requests |-> Free]
    /\ golden = {} /\ bundle = <<>>
    /\ made = 0 /\ edits = 0 /\ faults = 0

\* load_judgments: what parses, in write order.
Load(lines) == Only(lines, Where(lines, LAMBDA l : l # Bad))

IdsIn(js) == {js[i].id : i \in DOMAIN js}
---------------------------------------------------------------------------
(* A new judgment *)

\* create_judgment: it names a chunk at least, and an id is drawn before the index is asked.
Create(r) ==
    /\ request[r] = Free /\ made < MaxJudgments
    /\ made' = made + 1
    /\ \E q \in Questions, relevant, irrelevant \in SUBSET Chunks :
          /\ relevant \cup irrelevant # {}
          /\ request' = [request EXCEPT ![r] =
                [pc |-> "relevant", id |-> made + 1, question |-> q, relevant |-> relevant,
                 irrelevant |-> irrelevant, refs |-> {}]]
    /\ UNCHANGED <<file, ended, golden, bundle, edits, faults>>

\* _resolve_chunks: the index answers, or the ids stay bare.
ResolveRelevant(r) ==
    /\ request[r].pc = "relevant"
    /\ \E answers \in BOOLEAN :
          request' = [request EXCEPT ![r].pc = "append",
                          ![r].refs = IF answers THEN UNION {Refs[c] : c \in request[r].relevant} ELSE {}]
    /\ UNCHANGED <<file, ended, golden, bundle, made, edits, faults>>

\* The line of a judgment; the references of the irrelevant chunks are not used further.
LineOf(l) == [id |-> l.id, question |-> l.question, relevant |-> l.relevant,
              irrelevant |-> l.irrelevant, refs |-> l.refs, active |-> TRUE]

\* append_judgment: at the end of the file, wherever that is.
Appended(line) == IF ended THEN Append(file, line) ELSE Append(Front(file), Bad)

AppendLine(r) ==
    /\ request[r].pc = "append"
    /\ file' = Appended(LineOf(request[r])) /\ ended' = TRUE
    /\ request' = [request EXCEPT ![r] = Free]
    /\ UNCHANGED <<golden, bundle, made, edits, faults>>

\* The disk is full or the process ends in the middle of the line.
AppendTorn(r) ==
    /\ request[r].pc = "append" /\ faults < MaxFaults
    /\ faults' = faults + 1
    /\ file' = Appended(Bad) /\ ended' = FALSE
    /\ request' = [request EXCEPT ![r] = Free]
    /\ UNCHANGED <<golden, bundle, made, edits>>

---------------------------------------------------------------------------
(* Changes to what is there: read, find and rewrite with no await between *)

\* rewrite_judgments: a temporary file takes the place of this one, with what was loaded.
Rewritten(js) == file' = js /\ ended' = TRUE

\* update_judgment with a status.
Patched(js, id) == [i \in DOMAIN js |-> IF js[i].id = id THEN [js[i] EXCEPT !.active = ~@] ELSE js[i]]

Patch ==
    /\ \E id \in IdsIn(Load(file)) : Rewritten(Patched(Load(file), id))
    /\ UNCHANGED <<request, golden, bundle, made, edits, faults>>

Delete ==
    /\ \E id \in IdsIn(Load(file)) : Rewritten(Only(Load(file), Where(Load(file), LAMBDA j : j.id # id)))
    /\ UNCHANGED <<request, golden, bundle, made, edits, faults>>

\* "The file is hand-editable by design": a line is broken, or the file saved without its
\* last newline.
EditByHand ==
    /\ edits < MaxEdits /\ file # <<>>
    /\ edits' = edits + 1
    /\ \/ \E i \in DOMAIN file : file' = [file EXCEPT ![i] = Bad] /\ UNCHANGED ended
       \/ ended /\ ended' = FALSE /\ UNCHANGED file
    /\ UNCHANGED <<request, golden, bundle, made, faults>>

---------------------------------------------------------------------------
(* What judgments turn into *)

\* to_golden_question: the references of the relevant chunks, nothing (a 409) without any.
ToGolden(j) == IF j.refs = {} THEN {} ELSE {[judgment |-> j.id, refs |-> j.refs]}

\* promote_to_golden_question; the dataset's own lost updates are DatasetEdits'.
Promote ==
    /\ \E j \in Range(Load(file)) : golden' = golden \cup ToGolden(j)
    /\ UNCHANGED <<file, ended, request, bundle, made, edits, faults>>

\* bundle_from_judgments: the active ones that rule on something.
Bundled(js) == Only(js, Where(js, LAMBDA j : j.active /\ j.relevant \cup j.irrelevant # {}))

Publish ==
    /\ bundle' = Bundled(Load(file))
    /\ UNCHANGED <<file, ended, request, golden, made, edits, faults>>

\* calibration_material: every two entries, as the questions they are about.
MustNotMatch(b) == UNION {{<<b[i].question, b[k].question>> : k \in (i + 1)..Len(b)} : i \in DOMAIN b}

Next ==
    \/ \E r \in Requests : Create(r) \/ ResolveRelevant(r) \/ AppendLine(r) \/ AppendTorn(r)
    \/ Patch \/ Delete \/ EditByHand \/ Promote \/ Publish

Spec == Init /\ [][Next]_vars

---------------------------------------------------------------------------
(* Properties *)

Readable == Range(Load(file))

\* No two lines of one judgment, whatever is rewritten between the steps of a creation.
TypeOK ==
    /\ \A i, k \in DOMAIN file : (file[i] # Bad /\ file[i].id = file[k].id) => i = k
    /\ IdsIn(Load(file)) \subseteq 1..made
    /\ ended \in BOOLEAN

\* "one bad edit must not cost every judgment already recorded": a rewrite of the file changes
\* or removes the judgment it names and leaves every other one that could be read.
RewritesTouchOne ==
    edits' = edits /\ request' = request =>
        Cardinality(Readable \ Range(Load(file'))) <= 1

-----------------------------------------------------------------------------
(* What the code, its tests or its documents say and the code does not keep (README). *)

\* "Adds one line. Never rewrites what is already there, so an existing judgment cannot be
\* lost": a creation leaves every judgment that could be read.
AppendLosesNothing ==
    [][(\E r \in Requests : request[r].pc = "append" /\ request'[r] = Free) =>
           Readable \subseteq Range(Load(file'))]_vars

\* "the reviewer's verdict is worth recording": a creation that was answered can be read back.
CreatedCanBeRead ==
    [][\A r \in Requests : (request[r].pc = "append" /\ request'[r] = Free /\ faults' = faults) =>
           request[r].id \in IdsIn(Load(file'))]_vars

\* "two corrections in one bundle are by construction about different things": no question is
\* told not to match itself.
DifferentQuestions == \A p \in MustNotMatch(bundle) : p[1] # p[2]
=============================================================================
