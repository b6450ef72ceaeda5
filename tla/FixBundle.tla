------------------------------- MODULE FixBundle -------------------------------
(***************************************************************************)
(* core/bundle: a published correction names text by anchors, and the      *)
(* system that receives it finds them in its own index and derives its own *)
(* similarity threshold.  Every input of a bounded size is tried.          *)
(***************************************************************************)
EXTENDS Integers, Sequences, FiniteSets, Lists

CONSTANTS
    Units,              \* source units: an article, a section
    NoUnit,
    Texts,              \* normalised texts
    Blank,              \* the normalised empty text, whose hash is one like any other
    MaxChunks,          \* bound: chunks of the receiving index
    MaxScore, Margin    \* similarities are 0..MaxScore; how far below the weakest match the threshold is put

Assumptions == NoUnit \notin Units /\ Blank \notin Texts /\ {MaxChunks, MaxScore, Margin} \subseteq Nat

VARIABLES
    received,   \* the last bundle that was received: entry, index and what was made of it
    derived     \* the last threshold: from which scores, and the threshold

vars == <<received, derived>>

None == -100     \* no threshold

\* What a reviewer ruled on; `bare` when the index could not be asked and only an id was recorded.
Judged == [unit : Units, text : Texts, bare : BOOLEAN]

\* JudgedChunk and Anchor.from_chunk: the hash of what was recorded.
Anchor(c) == IF c.bare THEN [unit |-> NoUnit, hash |-> Blank] ELSE [unit |-> c.unit, hash |-> c.text]

First(chunks, Ok(_)) == SelectInSeq(chunks, Ok)

\* Variant with a bug: the unit before the text.
ResolveByUnit(a, chunks) ==
    LET unit == First(chunks, LAMBDA c : c.unit = a.unit /\ a.unit # NoUnit)
        text == First(chunks, LAMBDA c : c.text = a.hash)
    IN  IF unit # 0 THEN [id |-> unit, match |-> "unit"]
        ELSE IF text # 0 THEN [id |-> text, match |-> "exact"] ELSE [id |-> 0, match |-> "unresolved"]

\* resolve_anchors: the first chunk with the text, else the first of the unit.  Every hash
\* is a string that is not empty, that of the empty text as well.
Resolve(a, chunks) ==
    LET text == First(chunks, LAMBDA c : c.text = a.hash)
        unit == First(chunks, LAMBDA c : c.unit = a.unit /\ a.unit # NoUnit)
    IN  IF text # 0 THEN [id |-> text, match |-> "exact"]
        ELSE IF unit # 0 THEN [id |-> unit, match |-> "unit"] ELSE [id |-> 0, match |-> "unresolved"]

\* by_anchor: the last resolution of an anchor with this unit and this text.
Lookup(anchors, chunks, a) ==
    Resolve(anchors[Max({i \in DOMAIN anchors : anchors[i] = a})], chunks)

\* receive_bundle, for an entry; a chunk's id is its place in the index.
Received(relevant, irrelevant, chunks) ==
    LET anchors == [i \in DOMAIN (relevant \o irrelevant) |-> Anchor((relevant \o irrelevant)[i])]
        Ids(cs) == [i \in DOMAIN cs |-> Lookup(anchors, chunks, Anchor(cs[i])).id]
        found == [i \in DOMAIN anchors |-> Resolve(anchors[i], chunks)]
    IN  [relevant |-> relevant, irrelevant |-> irrelevant, chunks |-> chunks, found |-> found,
         relevantIds |-> Ids(relevant), irrelevantIds |-> Ids(irrelevant)]

Nothing == Received(<<>>, <<>>, <<>>)

\* calibrate_threshold: no threshold when the scores overlap, or without either.
Threshold(pos, neg) ==
    IF pos = {} \/ neg = {} \/ Min(pos) <= Max(neg) THEN None ELSE Min(pos) - Margin

---------------------------------------------------------------------------
Init == received = Nothing /\ derived = [pos |-> {}, neg |-> {}, threshold |-> None]

Receive ==
    /\ \E n \in 1..MaxChunks : \E chunks \in [1..n -> [unit : Units \cup {NoUnit}, text : Texts \cup {Blank}]],
          relevant \in BoundedSeq(Judged, 2), irrelevant \in BoundedSeq(Judged, 1) :
          /\ relevant \o irrelevant # <<>>
          /\ received' = Received(relevant, irrelevant, chunks)
    /\ UNCHANGED derived

Calibrate ==
    /\ \E pos, neg \in SUBSET (Margin..MaxScore) :
          derived' = [pos |-> pos, neg |-> neg, threshold |-> Threshold(pos, neg)]
    /\ UNCHANGED received

\* One input after the other would add nothing: a bundle and a threshold are taken from the start.
Next == received = Nothing /\ derived.pos \cup derived.neg = {} /\ (Receive \/ Calibrate)

Spec == Init /\ [][Next]_vars

---------------------------------------------------------------------------
(* Properties *)

AllJudged == received.relevant \o received.irrelevant

\* The ids of the entry, in the order of what was judged.
EntryIds == received.relevantIds \o received.irrelevantIds

\* An index that has a judged chunk.
Holds(chunks, c) == \E i \in DOMAIN chunks : chunks[i] = [unit |-> c.unit, text |-> c.text]

TypeOK ==
    /\ \A i \in DOMAIN received.found : received.found[i].id \in 0..Len(received.chunks)
    /\ derived.threshold \in {None} \cup 0..MaxScore

\* The point of an anchor: of an index that holds the judged chunk, under whatever id and
\* beside whatever others of its unit, the entry names a chunk with the judged text, each of
\* the relevant and irrelevant ones in its place though they were resolved as one list.
TextIsFoundAgain ==
    \A i \in DOMAIN AllJudged :
        LET c == AllJudged[i] IN
        Holds(received.chunks, c) /\ ~c.bare =>
            received.found[i].match = "exact" /\ received.chunks[EntryIds[i]].text = c.text

\* "the loosest value that still admits every intended match"; and none where they overlap.
ThresholdAdmitsTheMatches ==
    derived.threshold # None => \A p \in derived.pos, n \in derived.neg : derived.threshold <= p /\ n < p

-----------------------------------------------------------------------------
(* What the code, its tests or its documents say and the code does not keep (README). *)

\* "`exact` means the normalised text hash matched: the recipient holds the same text".
ExactIsTheSameText ==
    \A i \in DOMAIN AllJudged :
        received.found[i].match = "exact" => received.chunks[received.found[i].id].text = AllJudged[i].text

\* "An anchor names content instead: the document it belongs to, where in the document's
\* structure it sits": an index that holds the chunk resolves its anchor inside its unit.
ExactIsOfItsUnit ==
    \A i \in DOMAIN AllJudged :
        LET c == AllJudged[i] IN
        Holds(received.chunks, c) /\ ~c.bare => received.chunks[received.found[i].id].unit = c.unit

\* "this chunk is relevant, that one is not": two different chunks are not received as one
\* that is both.
NotBothWays ==
    \A i \in DOMAIN received.relevant, j \in DOMAIN received.irrelevant :
        LET r == received.relevant[i]  s == received.irrelevant[j] IN
        (r # s /\ ~r.bare /\ ~s.bare /\ received.relevantIds[i] # 0) =>
            received.relevantIds[i] # received.irrelevantIds[j]

\* "and above the highest among the required non-matches".
ThresholdKeepsOthersOut ==
    derived.threshold # None => \A n \in derived.neg : n < derived.threshold
=============================================================================
