--------------------------- MODULE RunDocumentProofs ---------------------------
(***************************************************************************)
(* Proofs about what a run's document gives back to a reader, for any      *)
(* questions, fragments and lists.                                         *)
(***************************************************************************)
EXTENDS RunDocument, TLAPS, WellFoundedInduction

ListsOK(lists) == DOMAIN lists \subseteq Fields /\ \A f \in DOMAIN lists : lists[f] \in Seq(Ref)

\* The lists of a question as the runner writes them.
Written == [Fields -> Seq(RunnerRef)]

LEMMA FieldsAreNumbers == Fields \subseteq Nat \ {0} /\ 1 \in Fields /\ Heavy = Fields \ {1}
BY FieldsAssumption DEF Fields, Heavy

LEMMA WrittenIsOK == \A lists \in Written : ListsOK(lists) /\ DOMAIN lists = Fields
<1>1. RunnerRef \subseteq Ref
  BY DEF RunnerRef
<1>2. QED
  BY <1>1 DEF Written, ListsOK

\* A place is a list and a position in it.
LEMMA PlaceIs ==
  ASSUME NEW lists, ListsOK(lists)
  PROVE  /\ \A p \in Places(lists) : /\ p = <<p[1], p[2]>> /\ p[1] \in DOMAIN lists
                                     /\ p[1] \in Nat \ {0} /\ p[2] \in 1..Len(lists[p[1]])
                                     /\ p[2] \in Nat \ {0} /\ At(lists, p) \in Ref
         /\ \A f \in DOMAIN lists : \A i \in 1..Len(lists[f]) :
                <<f, i>> \in Places(lists) /\ At(lists, <<f, i>>) = lists[f][i]
<1>1. \A f \in DOMAIN lists : f \in Nat \ {0} /\ lists[f] \in Seq(Ref)
  BY FieldsAreNumbers DEF ListsOK
<1>2. \A f \in DOMAIN lists : /\ DOMAIN lists[f] = 1..Len(lists[f])
                              /\ \A i \in 1..Len(lists[f]) : lists[f][i] \in Ref /\ i \in Nat \ {0}
  BY <1>1
<1>3. \A p \in Places(lists) : \E f \in DOMAIN lists : p \in {f} \X DOMAIN lists[f]
  BY DEF Places
<1>4. \A f \in DOMAIN lists : \A i \in DOMAIN lists[f] : <<f, i>> \in Places(lists)
  BY DEF Places
<1>5. QED
  BY <1>1, <1>2, <1>3, <1>4 DEF At

\* The least-number principle for sets of naturals.
LEMMA LeastNumber ==
  ASSUME NEW S \in SUBSET Nat, S # {} PROVE \E m \in S : \A k \in S : m <= k
<1>1. PICK m \in S : \A k \in S : ~(<<k, m>> \in OpToRel(<, Nat))
  BY NatLessThanWellFounded, WFMin, Zenon
<1>2. \A k, n \in Nat : k < n => <<k, n>> \in OpToRel(<, Nat)
  BY DEF OpToRel
<1>3. ASSUME NEW k \in S, ~(m <= k) PROVE FALSE
  <2>1. k \in Nat /\ m \in Nat /\ k < m
    BY <1>3
  <2>2. <<k, m>> \in OpToRel(<, Nat)
    BY <1>2, <2>1, Zenon
  <2>3. QED
    BY <1>1, <2>2, Zenon
<1>4. QED
  BY <1>3

\* The scan comes to one of the fragments of an id before all others of it.
LEMMA FirstIsFirst ==
  ASSUME NEW lists, ListsOK(lists), NEW chunk, Carriers(lists, chunk) # {}
  PROVE  /\ First(lists, chunk) \in Carriers(lists, chunk)
         /\ \A q \in Carriers(lists, chunk) :
                q = First(lists, chunk) \/ Before(First(lists, chunk), q)
<1> DEFINE C == Carriers(lists, chunk)
           F == {p[1] : p \in C}
<1>1. \A p \in C : p = <<p[1], p[2]>> /\ p[1] \in Nat /\ p[2] \in Nat
  BY PlaceIs DEF Carriers
<1> HIDE DEF C
<1>2. C # {}
  BY DEF C
<1>3. PICK f \in F : \A k \in F : f <= k
  <2>1. F \in SUBSET Nat /\ F # {}
    BY <1>1, <1>2
  <2> HIDE DEF F
  <2>2. QED
    BY <2>1, LeastNumber
<1> DEFINE I == {p[2] : p \in {q \in C : q[1] = f}}
<1>4. PICK i \in I : \A k \in I : i <= k
  <2>1. I \in SUBSET Nat /\ I # {}
    BY <1>1, <1>3
  <2> HIDE DEF I
  <2>2. QED
    BY <2>1, LeastNumber
<1>5. PICK p \in C : p[1] = f /\ p[2] = i
  BY <1>4
<1>6. \A q \in C : q = p \/ Before(p, q)
  <2> SUFFICES ASSUME NEW q \in C, q # p PROVE Before(p, q)
    OBVIOUS
  <2>1. f <= q[1] /\ (q[1] = f => i <= q[2])
    BY <1>3, <1>4
  <2>2. q[1] # f \/ q[2] # i
    BY <1>1, <1>5
  <2>3. QED
    BY <1>1, <1>5, <2>1, <2>2 DEF Before
<1>7. \E x \in C : \A q \in C : q = x \/ Before(x, q)
  BY <1>6
<1>8. QED
  BY <1>7 DEF First, C

\* Nothing else comes before all others.
LEMMA FirstIsOnly ==
  ASSUME NEW lists, ListsOK(lists), NEW chunk, NEW p \in Carriers(lists, chunk),
         \A q \in Carriers(lists, chunk) : q = p \/ Before(p, q)
  PROVE  First(lists, chunk) = p
<1> DEFINE b == First(lists, chunk)
<1>1. b \in Carriers(lists, chunk) /\ (p = b \/ Before(b, p))
  BY FirstIsFirst
<1>2. b = p \/ Before(p, b)
  BY <1>1
<1>3. p[1] \in Nat /\ p[2] \in Nat /\ b[1] \in Nat /\ b[2] \in Nat
  BY <1>1, PlaceIs DEF Carriers
<1> HIDE DEF b
<1>4. QED
  BY <1>1, <1>2, <1>3 DEF Before, b

\* The deduplication keeps every fragment in its place and all its ids, and the text of those
\* that do not repeat one.
LEMMA DedupeKeeps ==
  ASSUME NEW lists \in Written
  PROVE  /\ DOMAIN DedupeTexts(lists) = Fields /\ ListsOK(DedupeTexts(lists))
         /\ \A f \in Fields : /\ Len(DedupeTexts(lists)[f]) = Len(lists[f])
                              /\ DedupeTexts(lists)[f] = <<>> <=> lists[f] = <<>>
         /\ \A f \in Fields : \A i \in 1..Len(lists[f]) :
               IF Repeats(lists, <<f, i>>)
               THEN DedupeTexts(lists)[f][i] = [chunk |-> lists[f][i].chunk, text |-> NoText]
               ELSE DedupeTexts(lists)[f][i] = lists[f][i]
<1> DEFINE short(f, i) == IF Repeats(lists, <<f, i>>) THEN [lists[f][i] EXCEPT !.text = NoText]
                                                      ELSE lists[f][i]
<1>1. DedupeTexts(lists) = [f \in Fields |-> [i \in DOMAIN lists[f] |-> short(f, i)]]
  BY DEF DedupeTexts, OnRefs, At, Written
<1>2. \A f \in Fields : lists[f] \in Seq(RunnerRef) /\ DOMAIN lists[f] = 1..Len(lists[f])
  BY DEF Written
<1>3. \A f \in Fields : \A i \in 1..Len(lists[f]) : lists[f][i] \in RunnerRef
  BY <1>2
<1>4. \A f \in Fields : \A i \in 1..Len(lists[f]) :
         /\ short(f, i) = IF Repeats(lists, <<f, i>>) THEN [chunk |-> lists[f][i].chunk, text |-> NoText]
                                                      ELSE lists[f][i]
         /\ short(f, i) \in Ref
  BY <1>3 DEF RunnerRef, Ref
<1> HIDE DEF short
<1>5. \A f \in Fields : /\ DedupeTexts(lists)[f] = [i \in 1..Len(lists[f]) |-> short(f, i)]
                        /\ Len(lists[f]) \in Nat
  BY <1>1, <1>2
<1>6. \A f \in Fields : /\ DedupeTexts(lists)[f] \in Seq(Ref)
                        /\ Len(DedupeTexts(lists)[f]) = Len(lists[f])
                        /\ \A i \in 1..Len(lists[f]) : DedupeTexts(lists)[f][i] = short(f, i)
  <2> SUFFICES ASSUME NEW f \in Fields, NEW n \in Nat, n = Len(lists[f]),
                      NEW q, q = DedupeTexts(lists)[f]
               PROVE  q \in Seq(Ref) /\ Len(q) = n /\ \A i \in 1..n : q[i] = short(f, i)
    BY <1>5
  <2>1. q = [i \in 1..n |-> short(f, i)]
    BY <1>5
  <2>2. \A i \in 1..n : short(f, i) \in Ref
    BY <1>4
  <2>3. QED
    BY <2>1, <2>2
<1>7. \A f \in Fields : DedupeTexts(lists)[f] = <<>> <=> lists[f] = <<>>
  BY <1>2, <1>6
<1>8. DOMAIN DedupeTexts(lists) = Fields
  BY <1>1
<1>9. QED
  BY <1>4, <1>6, <1>7, <1>8 DEF ListsOK

\* Where the lists M of S are those of a deduplicated question, and nothing that the scan meets
\* before them is of another question, the texts of S come back.
LEMMA RestoreUndoes ==
  ASSUME NEW lists \in Written, NEW M, ListsOK(M), NEW S \in SUBSET DOMAIN M,
         \A f \in S : M[f] = DedupeTexts(lists)[f],
         \A p \in Places(lists), q \in Places(lists) : p[1] \in S /\ Before(q, p) => q[1] \in S,
         \A p \in Places(lists), q \in Places(M) : p[1] \in S /\ Before(q, p) => q[1] \in S
  PROVE  \A f \in S : RestoreTexts(M)[f] = lists[f]
<1> DEFINE D == DedupeTexts(lists)
<1>1. ListsOK(lists) /\ DOMAIN lists = Fields /\ ListsOK(D) /\ DOMAIN D = Fields
  BY WrittenIsOK, DedupeKeeps
<1>2. S \subseteq Fields /\ \A f \in S : Len(M[f]) = Len(lists[f])
  BY DedupeKeeps DEF ListsOK
<1>3. \A p \in Places(lists) : p[1] \in S =>
         /\ p \in Places(M)
         /\ ~Repeats(lists, p) => At(M, p) = At(lists, p)
         /\ Repeats(lists, p) => At(M, p) = [chunk |-> At(lists, p).chunk, text |-> NoText]
  <2> SUFFICES ASSUME NEW p \in Places(lists), p[1] \in S
               PROVE  /\ p \in Places(M)
                      /\ ~Repeats(lists, p) => At(M, p) = At(lists, p)
                      /\ Repeats(lists, p) =>
                            At(M, p) = [chunk |-> At(lists, p).chunk, text |-> NoText]
    OBVIOUS
  <2>1. p = <<p[1], p[2]>> /\ p[1] \in Fields /\ p[2] \in 1..Len(lists[p[1]])
    BY <1>1, PlaceIs
  <2>2. p[1] \in DOMAIN M /\ p[2] \in 1..Len(M[p[1]])
    BY <1>2, <2>1
  <2>3. p \in Places(M)
    BY <2>1, <2>2, PlaceIs
  <2>4. IF Repeats(lists, p)
        THEN D[p[1]][p[2]] = [chunk |-> lists[p[1]][p[2]].chunk, text |-> NoText]
        ELSE D[p[1]][p[2]] = lists[p[1]][p[2]]
    BY <2>1, DedupeKeeps
  <2> HIDE DEF D
  <2>5. M[p[1]] = D[p[1]]
    BY DEF D
  <2>6. QED
    BY <2>3, <2>4, <2>5 DEF At
<1>4. \A q \in Places(M) : q[1] \in S => q \in Places(lists)
  BY <1>1, <1>2, PlaceIs
<1>5. \A p \in Places(lists) : At(lists, p) \in Ref /\ At(lists, p).text # NoText
  <2>1. \A f \in Fields : \A i \in 1..Len(lists[f]) : lists[f][i] \in RunnerRef
    BY DEF Written
  <2>2. QED
    BY <1>1, <2>1, PlaceIs DEF At, RunnerRef
<1> HIDE DEF D
<1>6. ASSUME NEW p \in Places(lists), p[1] \in S, Repeats(lists, p)
      PROVE  /\ Carriers(M, At(lists, p).chunk) # {}
             /\ TextOf(M, At(lists, p).chunk) = At(lists, p).text
  <2> DEFINE c == At(lists, p).chunk
             b == First(lists, c)
  <2>1. p \in Carriers(lists, c)
    BY <1>5 DEF Carriers
  <2>2. /\ b \in Carriers(lists, c)
        /\ \A q \in Carriers(lists, c) : q = b \/ Before(b, q)
    BY <1>1, <2>1, FirstIsFirst
  <2>3. p # b /\ At(lists, p).text = At(lists, b).text
    BY <1>6 DEF Repeats, TextOf
  <2>4. b \in Places(lists) /\ At(lists, b).chunk = c
    BY <2>2 DEF Carriers
  <2>5. b[1] \in S
    BY <1>6, <2>1, <2>2, <2>3, <2>4
  <2>6. ~Repeats(lists, b)
    BY <2>4 DEF Repeats
  <2> HIDE DEF b, c
  <2>7. b \in Places(M) /\ At(M, b) = At(lists, b)
    BY <1>3, <2>4, <2>5, <2>6
  <2>8. b \in Carriers(M, c)
    BY <1>5, <2>4, <2>7 DEF Carriers
  <2>9. \A q \in Carriers(M, c) : q = b \/ Before(b, q)
    <3> SUFFICES ASSUME NEW q \in Carriers(M, c), q # b, ~Before(b, q) PROVE FALSE
      OBVIOUS
    <3>1. /\ q \in Places(M) /\ q = <<q[1], q[2]>> /\ q[1] \in Nat /\ q[2] \in Nat
          /\ At(M, q).chunk = c /\ At(M, q).text # NoText
      BY PlaceIs DEF Carriers
    <3>2. b = <<b[1], b[2]>> /\ b[1] \in Nat /\ b[2] \in Nat
      BY <1>1, <2>4, PlaceIs
    <3>3. q[1] # b[1] \/ q[2] # b[2]
      BY <3>1, <3>2
    <3>4. Before(q, b) /\ ~Before(b, q)
      BY <3>1, <3>2, <3>3 DEF Before
    <3>5. q[1] \in S
      BY <2>4, <2>5, <3>1, <3>4
    <3>6. q \in Places(lists)
      BY <1>4, <3>1, <3>5
    <3>7. At(M, q) = At(lists, q)
      BY <1>3, <3>1, <3>5, <3>6
    <3>8. q \in Carriers(lists, c)
      BY <3>1, <3>6, <3>7 DEF Carriers
    <3>9. QED
      BY <2>2, <3>8
  <2>10. First(M, c) = b
    BY <2>8, <2>9, FirstIsOnly
  <2>11. QED
    BY <2>3, <2>7, <2>8, <2>10 DEF TextOf, c
<1>7. \A f \in S : \A i \in 1..Len(lists[f]) :
         RestoreTexts(M)[f][i] = lists[f][i]
  <2> SUFFICES ASSUME NEW f \in S, NEW i \in 1..Len(lists[f])
               PROVE  RestoreTexts(M)[f][i] = lists[f][i]
    OBVIOUS
  <2> DEFINE p == <<f, i>>
             r == At(lists, p)
             missing == /\ At(M, p).text = NoText /\ At(M, p).chunk # NoChunk
                        /\ Carriers(M, At(M, p).chunk) # {}
  <2>1. p \in Places(lists) /\ p[1] = f /\ r = lists[f][i]
    BY <1>1, <1>2, PlaceIs
  <2>2. i \in DOMAIN M[f]
    <3>1. M[f] \in Seq(Ref)
      BY DEF ListsOK
    <3>2. QED
      BY <1>2, <3>1
  <2>3. RestoreTexts(M)[f][i] = IF missing THEN [At(M, p) EXCEPT !.text = TextOf(M, At(M, p).chunk)]
                                           ELSE At(M, p)
    BY <2>2 DEF RestoreTexts, OnRefs
  <2>4. r \in Ref /\ r.text # NoText
    BY <1>5, <2>1
  <2>5. CASE Repeats(lists, p)
    <3>1. At(M, p) = [chunk |-> r.chunk, text |-> NoText]
      BY <1>3, <2>1, <2>5
    <3>2. missing /\ TextOf(M, At(M, p).chunk) = r.text
      BY <1>6, <2>1, <2>5, <3>1 DEF Repeats
    <3> HIDE DEF p, r, missing
    <3>3. [At(M, p) EXCEPT !.text = r.text] = r
      BY <2>4, <3>1 DEF Ref
    <3>4. QED
      BY <2>1, <2>3, <3>2, <3>3
  <2>6. CASE ~Repeats(lists, p)
    <3>1. At(M, p) = r
      BY <1>3, <2>1, <2>6
    <3> HIDE DEF p, r
    <3>2. QED
      BY <2>1, <2>3, <2>4, <3>1
  <2>7. QED
    BY <2>5, <2>6
<1>8. ASSUME NEW f \in S PROVE RestoreTexts(M)[f] = lists[f]
  <2>1. PICK q : q = RestoreTexts(M)[f]
    OBVIOUS
  <2>2. M[f] \in Seq(Ref) /\ DOMAIN M[f] = 1..Len(lists[f])
    BY <1>2 DEF ListsOK
  <2>3. DOMAIN q = 1..Len(lists[f]) /\ q = [i \in DOMAIN q |-> q[i]]
    BY <2>1, <2>2 DEF RestoreTexts, OnRefs
  <2>4. lists[f] \in Seq(Ref)
    BY <1>1, <1>2 DEF ListsOK
  <2>5. lists[f] = [i \in 1..Len(lists[f]) |-> lists[f][i]]
    BY <2>4
  <2>6. \A i \in 1..Len(lists[f]) : q[i] = lists[f][i]
    BY <1>7, <2>1
  <2>7. QED
    BY <2>1, <2>3, <2>5, <2>6
<1>9. QED
  BY <1>8

\* A restored question keeps its fragments in their places, and their ids.
LEMMA RestoreKeeps ==
  ASSUME NEW M, ListsOK(M)
  PROVE  DOMAIN RestoreTexts(M) = DOMAIN M /\ ListsOK(RestoreTexts(M))
<1> DEFINE whole(f, i) ==
             IF /\ At(M, <<f, i>>).text = NoText
                /\ At(M, <<f, i>>).chunk # NoChunk
                /\ Carriers(M, At(M, <<f, i>>).chunk) # {}
             THEN [At(M, <<f, i>>) EXCEPT !.text = TextOf(M, At(M, <<f, i>>).chunk)]
             ELSE At(M, <<f, i>>)
<1>1. RestoreTexts(M) = [f \in DOMAIN M |-> [i \in DOMAIN M[f] |-> whole(f, i)]]
  BY DEF RestoreTexts, OnRefs
<1>2. ASSUME NEW f \in DOMAIN M, NEW i \in 1..Len(M[f]) PROVE whole(f, i) \in Ref
  <2>1. At(M, <<f, i>>) \in Ref
    BY PlaceIs
  <2>2. ASSUME NEW c, Carriers(M, c) # {} PROVE TextOf(M, c) \in Texts \cup {NoText}
    <3>1. First(M, c) \in Places(M)
      BY <2>2, FirstIsFirst DEF Carriers
    <3>2. At(M, First(M, c)) \in Ref
      BY <3>1, PlaceIs
    <3>3. QED
      BY <3>2 DEF TextOf, Ref
  <2>3. \A r \in Ref : \A t \in Texts \cup {NoText} : [r EXCEPT !.text = t] \in Ref
    BY DEF Ref
  <2>4. QED
    BY <2>1, <2>2, <2>3
<1> HIDE DEF whole
<1>3. ASSUME NEW f \in DOMAIN M PROVE RestoreTexts(M)[f] \in Seq(Ref)
  <2>1. DOMAIN M[f] = 1..Len(M[f]) /\ Len(M[f]) \in Nat
    BY DEF ListsOK
  <2>2. RestoreTexts(M)[f] = [i \in 1..Len(M[f]) |-> whole(f, i)]
    BY <1>1, <2>1
  <2>3. PICK n \in Nat : n = Len(M[f])
    BY <2>1
  <2>4. QED
    BY <1>2, <2>2, <2>3
<1>4. QED
  BY <1>1, <1>3 DEF ListsOK

\* What is left in the run document of a question, and what the window adds to it.
LEMMA LightIs ==
  ASSUME NEW lists \in Written, NEW id, NEW Q, Q = [id |-> id, lists |-> DedupeTexts(lists)]
  PROVE  /\ LightOf(Q).id = id
         /\ LightOf(Q).lists = Restrict(DedupeTexts(lists), Fields \ Held(lists))
         /\ Held(DedupeTexts(lists)) = Held(lists)
         /\ Held(lists) \subseteq Heavy
         /\ \A f \in Fields \ Held(lists) : f # 1 => lists[f] = <<>>
<1>1. DOMAIN DedupeTexts(lists) = Fields /\ DOMAIN lists = Fields
  BY DedupeKeeps, WrittenIsOK
<1>2. Held(DedupeTexts(lists)) = Held(lists)
  BY <1>1, DedupeKeeps DEF Held
<1>3. \A f \in Fields \ Held(lists) : f # 1 => lists[f] = <<>>
  BY <1>1 DEF Held, Heavy
<1>4. PICK D : D = DedupeTexts(lists)
  OBVIOUS
<1>5. LightOf(Q).id = id /\ LightOf(Q).lists = Restrict(D, DOMAIN D \ Held(D))
  BY <1>4 DEF LightOf
<1>6. QED
  BY <1>1, <1>2, <1>3, <1>4, <1>5 DEF Held

LEMMA FillIs ==
  ASSUME NEW lists \in Written, NEW q, NEW id,
         q = LightOf([id |-> id, lists |-> DedupeTexts(lists)]),
         NEW w, DOMAIN w.lists \subseteq Heavy, ListsOK(w.lists)
  PROVE  /\ Fill(q, w).id = id
         /\ ListsOK(Fill(q, w).lists)
         /\ 1 \in DOMAIN Fill(q, w).lists
         /\ Fill(q, w).lists[1] = DedupeTexts(lists)[1]
         /\ w.lists = Restrict(DedupeTexts(lists), Held(lists)) =>
               Fill(q, w).lists = DedupeTexts(lists)
<1>1. PICK D : D = DedupeTexts(lists)
  OBVIOUS
<1>2. PICK Q : Q = q.lists
  OBVIOUS
<1>3. PICK W : W = w.lists
  OBVIOUS
<1>4. PICK taken : taken = {f \in DOMAIN W : f \notin DOMAIN Q \/ Q[f] = <<>>}
  OBVIOUS
<1>5. PICK M : M = [f \in DOMAIN Q \cup taken |-> IF f \in taken THEN W[f] ELSE Q[f]]
  OBVIOUS
<1>6. q = [id |-> id, lists |-> Restrict(D, DOMAIN D \ Held(D))]
  BY <1>1 DEF LightOf
<1>7. Fill(q, w).lists = M /\ Fill(q, w).id = id
  BY <1>2, <1>3, <1>4, <1>5, <1>6 DEF Fill
<1>8. /\ Q = Restrict(D, Fields \ Held(lists)) /\ Held(lists) \subseteq Heavy
      /\ DOMAIN D = Fields /\ ListsOK(D) /\ ListsOK(W) /\ DOMAIN W \subseteq Heavy
  BY <1>1, <1>2, <1>3, LightIs, DedupeKeeps
<1>9. Q = [f \in Fields \ Held(lists) |-> D[f]]
  BY <1>8 DEF Restrict
<1>10. 1 \in Fields /\ 1 \notin Heavy /\ Heavy \subseteq Fields
  BY FieldsAreNumbers
<1>11. 1 \in DOMAIN M /\ M[1] = D[1]
  BY <1>4, <1>5, <1>8, <1>9, <1>10
<1>12. ListsOK(M)
  BY <1>4, <1>5, <1>8, <1>9 DEF ListsOK
<1>13. ASSUME W = Restrict(D, Held(lists)) PROVE M = D
  <2>1. W = [f \in Held(lists) |-> D[f]]
    BY <1>13 DEF Restrict
  <2>2. taken = Held(lists)
    BY <1>4, <1>9, <2>1
  <2>3. DOMAIN M = Fields /\ \A f \in Fields : M[f] = D[f]
    BY <1>5, <1>8, <1>9, <1>10, <2>1, <2>2
  <2>4. M = [f \in Fields |-> M[f]] /\ D = [f \in Fields |-> D[f]]
    <3>1. D = [f \in Fields |-> D[f]]
      BY <1>1, <1>8 DEF DedupeTexts, OnRefs
    <3>2. M = [f \in DOMAIN M |-> M[f]]
      BY <1>5
    <3>3. QED
      BY <2>3, <3>1, <3>2
  <2>5. QED
    BY <2>3, <2>4
<1>14. QED
  BY <1>1, <1>3, <1>7, <1>11, <1>12, <1>13

\* The final context comes back from its own fragments alone, whatever else is there.
LEMMA FinalContextBack ==
  ASSUME NEW lists \in Written, NEW M, ListsOK(M), 1 \in DOMAIN M, M[1] = DedupeTexts(lists)[1]
  PROVE  RestoreTexts(M)[1] = lists[1]
<1>1. ListsOK(lists)
  BY WrittenIsOK
<1>2. PICK S \in SUBSET DOMAIN M : S = {1}
  OBVIOUS
<1>3. (\A p \in Places(lists) : p[1] \in Nat \ {0}) /\ (\A p \in Places(M) : p[1] \in Nat \ {0})
  BY <1>1, PlaceIs
<1>4. \A p \in Places(lists), q \in Places(lists) : p[1] \in S /\ Before(q, p) => q[1] \in S
  BY <1>2, <1>3 DEF Before
<1>5. \A p \in Places(lists), q \in Places(M) : p[1] \in S /\ Before(q, p) => q[1] \in S
  BY <1>2, <1>3 DEF Before
<1>6. \A f \in S : M[f] = DedupeTexts(lists)[f]
  BY <1>2
<1>7. \A f \in S : RestoreTexts(M)[f] = lists[f]
  BY <1>4, <1>5, <1>6, RestoreUndoes
<1>8. QED
  BY <1>2, <1>7

\* With its window, a question comes back whole.
LEMMA WholeBack ==
  ASSUME NEW lists \in Written
  PROVE  RestoreTexts(DedupeTexts(lists)) = lists
<1>1. PICK D : D = DedupeTexts(lists)
  OBVIOUS
<1>2. ListsOK(D) /\ DOMAIN D = Fields /\ ListsOK(lists)
  BY <1>1, DedupeKeeps, WrittenIsOK
<1>3. \A p \in Places(lists) \cup Places(D) : p[1] \in Fields
  BY <1>2, PlaceIs DEF ListsOK
<1>4. \A f \in Fields : RestoreTexts(D)[f] = lists[f]
  BY <1>1, <1>2, <1>3, RestoreUndoes
<1>5. RestoreTexts(D) = [f \in Fields |-> RestoreTexts(D)[f]]
  BY <1>2 DEF RestoreTexts, OnRefs
<1>6. lists = [f \in Fields |-> lists[f]]
  BY DEF Written
<1>7. QED
  BY <1>1, <1>4, <1>5, <1>6

\* Without it, what the run document holds of it comes back as it was.
LEMMA LightBack ==
  ASSUME NEW lists \in Written, NEW M, M = Restrict(DedupeTexts(lists), Fields \ Held(lists))
  PROVE  ListsOK(M) /\ RestoreTexts(M) = Restrict(lists, Fields \ Held(lists))
<1>1. PICK S : S = Fields \ Held(lists)
  OBVIOUS
<1>2. PICK D : D = DedupeTexts(lists)
  OBVIOUS
<1>3. ListsOK(D) /\ DOMAIN D = Fields /\ ListsOK(lists)
  BY <1>2, DedupeKeeps, WrittenIsOK
<1>4. S \subseteq Fields /\ 1 \in S /\ \A f \in S : f # 1 => lists[f] = <<>>
  <2>1. /\ Held(lists) \subseteq Heavy
        /\ \A f \in Fields \ Held(lists) : f # 1 => lists[f] = <<>>
    BY LightIs
  <2>2. QED
    BY <1>1, <2>1, FieldsAreNumbers
<1>5. M = [f \in S |-> D[f]]
  BY <1>1, <1>2 DEF Restrict
<1>6. ListsOK(M) /\ DOMAIN M = S
  BY <1>3, <1>4, <1>5 DEF ListsOK
<1>7. \A q \in Places(M) : q[1] \in S
  BY <1>6, PlaceIs
<1>8. \A p \in Places(lists) : p[1] \in S => p[1] = 1
  <2>1. \A p \in Places(lists) : p[2] \in 1..Len(lists[p[1]])
    BY <1>3, PlaceIs
  <2>2. QED
    BY <1>4, <2>1
<1>9. \A p, q \in Places(lists) : p[1] \in S /\ Before(q, p) => q[1] \in S
  <2>1. \A p \in Places(lists) : p[1] \in Nat \ {0}
    BY <1>3, PlaceIs
  <2>2. QED
    BY <1>4, <1>8, <2>1 DEF Before
<1>10. \A f \in S : RestoreTexts(M)[f] = lists[f]
  <2>1. \A f \in S : M[f] = DedupeTexts(lists)[f]
    BY <1>2, <1>5
  <2>2. S \in SUBSET DOMAIN M
    BY <1>6
  <2>3. \A p \in Places(lists), q \in Places(lists) : p[1] \in S /\ Before(q, p) => q[1] \in S
    BY <1>9
  <2>4. \A p \in Places(lists), q \in Places(M) : p[1] \in S /\ Before(q, p) => q[1] \in S
    BY <1>7
  <2>5. ListsOK(M)
    BY <1>6
  <2>6. QED
    BY <2>1, <2>2, <2>3, <2>4, <2>5, RestoreUndoes, Zenon
<1>11. RestoreTexts(M) = [f \in S |-> RestoreTexts(M)[f]]
  BY <1>6 DEF RestoreTexts, OnRefs
<1>12. QED
  BY <1>1, <1>6, <1>10, <1>11 DEF Restrict

---------------------------------------------------------------------------
(* The invariant: what the database holds is the deduplicated run, with    *)
(* the windows of its first questions.                                     *)

Slim(question) == [id |-> question.id, lists |-> DedupeTexts(question.lists)]

RunOK == run \in Seq([id : Ids \cup {NoId}, lists : Written])

IsStored(questions, documents, docs) ==
    /\ documents = [n \in DOMAIN questions |-> LightOf(Slim(questions[n]))]
    /\ \E k \in 0..Len(questions) :
          docs = {WindowOf(Slim(questions[n]), n) :
                     n \in {m \in 1..k : Held(Slim(questions[m]).lists) # {}}}

StoredOK == IsStored(run, light, windows)

ServedOK ==
    /\ DOMAIN served = DOMAIN run
    /\ \A n \in DOMAIN served : QuestionOK(served[n])
    /\ \A n \in DOMAIN run : served[n].lists[1] = run[n].lists[1]
    /\ DistinctIds => \A n \in DOMAIN run : served[n].lists = Restrict(run[n].lists, Surviving(n))

DocumentInv ==
    /\ stage \in {"running", "stored", "served"}
    /\ RunOK
    /\ stage = "running" => light = <<>> /\ windows = {}
    /\ stage # "running" => StoredOK
    /\ stage # "served" => served = <<>>
    /\ stage = "served" => ServedOK

LEMMA RunIs ==
  ASSUME RunOK
  PROVE  /\ Len(run) \in Nat /\ DOMAIN run = 1..Len(run)
         /\ \A n \in DOMAIN run : run[n] \in [id : Ids \cup {NoId}, lists : Written]
<1>1. ASSUME NEW T, NEW s \in Seq(T)
      PROVE  /\ Len(s) \in Nat /\ DOMAIN s = 1..Len(s)
             /\ \A n \in DOMAIN s : s[n] \in T
  OBVIOUS
<1>2. QED
  BY <1>1 DEF RunOK

\* What a window of the database is.
LEMMA WindowIs ==
  ASSUME RunOK, StoredOK, NEW w \in windows
  PROVE  /\ w.position \in DOMAIN run
         /\ w = WindowOf(Slim(run[w.position]), w.position)
         /\ w.id = run[w.position].id
         /\ w.lists = Restrict(DedupeTexts(run[w.position].lists), Held(run[w.position].lists))
         /\ QuestionOK(w)
         /\ ListsOK(w.lists) /\ DOMAIN w.lists \subseteq Heavy
<1>1. PICK k \in 0..Len(run) :
         windows = {WindowOf(Slim(run[n]), n) : n \in {m \in 1..k : Held(Slim(run[m]).lists) # {}}}
  BY DEF StoredOK, IsStored
<1>2. PICK n \in 1..k : w = WindowOf(Slim(run[n]), n)
  BY <1>1
<1>3. n \in DOMAIN run /\ run[n] \in [id : Ids \cup {NoId}, lists : Written]
  BY <1>1, <1>2, RunIs
<1>4. PICK id \in Ids \cup {NoId} : id = run[n].id
  BY <1>3
<1>5. PICK lists \in Written : lists = run[n].lists
  BY <1>3
<1>6. PICK D : D = DedupeTexts(lists)
  OBVIOUS
<1>7. /\ Held(D) = Held(lists) /\ Held(lists) \subseteq Heavy /\ Heavy \subseteq Fields
      /\ ListsOK(D) /\ DOMAIN D = Fields
  BY <1>6, LightIs, DedupeKeeps, FieldsAreNumbers
<1>8. w = [id |-> id, position |-> n, lists |-> Restrict(D, Held(lists))]
  BY <1>2, <1>4, <1>5, <1>6, <1>7 DEF WindowOf, Slim
<1>9. Restrict(D, Held(lists)) = [f \in Held(lists) |-> D[f]]
  BY DEF Restrict
<1>10. ListsOK(w.lists) /\ DOMAIN w.lists \subseteq Heavy
  BY <1>7, <1>8, <1>9 DEF ListsOK
<1>11. QuestionOK(w)
  BY <1>8, <1>10 DEF QuestionOK, ListsOK
<1>12. w.position = n
  BY <1>8
<1>13. w = WindowOf(Slim(run[w.position]), w.position)
  BY <1>2, <1>12
<1>14. QED
  BY <1>3, <1>4, <1>5, <1>6, <1>8, <1>10, <1>11, <1>12, <1>13

\* Where ids are distinct, the window a question finds is its own.
LEMMA FoundIsOwn ==
  ASSUME RunOK, StoredOK, DistinctIds, NEW n \in DOMAIN run, NEW byId \in Indexes(windows)
  PROVE  /\ \A w \in Found(light[n], n, windows, byId) : w \in windows /\ w.position = n
         /\ Found(light[n], n, windows, byId) = {} <=> ~\E w \in windows : w.position = n
<1>1. light[n].id = run[n].id
  <2>1. light[n] = LightOf(Slim(run[n])) /\ run[n].lists \in Written
    BY RunIs DEF StoredOK, IsStored
  <2>2. PICK lists \in Written : lists = run[n].lists
    BY <2>1
  <2>3. PICK id : id = run[n].id
    OBVIOUS
  <2>4. light[n] = LightOf([id |-> id, lists |-> DedupeTexts(lists)])
    BY <2>1, <2>2, <2>3 DEF Slim
  <2>5. PICK Q : Q = [id |-> id, lists |-> DedupeTexts(lists)]
    OBVIOUS
  <2>6. LightOf(Q).id = id
    BY <2>5, LightIs
  <2>7. QED
    BY <2>3, <2>4, <2>5, <2>6
<1>2. PICK id : id = run[n].id
  OBVIOUS
<1>3. \A w \in windows : w.position \in DOMAIN run /\ w.id = run[w.position].id
  BY WindowIs
<1>4. /\ \A i \in DOMAIN byId : byId[i] \in windows /\ byId[i].id = i /\ i # NoId
      /\ \A w \in windows : w.id # NoId => w.id \in DOMAIN byId
  BY DEF Indexes
<1>5. CASE id \in DOMAIN byId
  <2>1. Found(light[n], n, windows, byId) = {byId[id]}
    BY <1>1, <1>2, <1>5 DEF Found
  <2>2. byId[id].position = n
    BY <1>2, <1>3, <1>4, <1>5 DEF DistinctIds
  <2>3. QED
    BY <1>4, <1>5, <2>1, <2>2
<1>6. CASE id \notin DOMAIN byId
  BY <1>1, <1>2, <1>6 DEF Found
<1>7. QED
  BY <1>5, <1>6

\* Whatever the ids are, a question is given windows of the run, or none.
LEMMA FoundIsWindow ==
  ASSUME NEW n, NEW byId \in Indexes(windows)
  PROVE  Found(light[n], n, windows, byId) \subseteq windows
BY DEF Found, Indexes

\* A question of the run document with the window it found, restored.
LEMMA ReadGives ==
  ASSUME RunOK, StoredOK, NEW n \in DOMAIN run, NEW byId \in Indexes(windows),
         NEW r, r = [MergeWindows(light, windows, byId)[n] EXCEPT !.lists = RestoreTexts(@)]
  PROVE  /\ QuestionOK(r)
         /\ r.lists[1] = run[n].lists[1]
         /\ DistinctIds => r.lists = Restrict(run[n].lists, Surviving(n))
<1>1. run[n] \in [id : Ids \cup {NoId}, lists : Written]
  BY RunIs
<1>2. PICK lists \in Written : lists = run[n].lists
  BY <1>1
<1>3. PICK id \in Ids \cup {NoId} : id = run[n].id
  BY <1>1
<1>4. PICK q : q = light[n]
  OBVIOUS
<1>5. PICK found : found = Found(q, n, windows, byId)
  OBVIOUS
<1>6. q = LightOf([id |-> id, lists |-> DedupeTexts(lists)])
  BY <1>2, <1>3, <1>4 DEF StoredOK, IsStored, Slim
<1>7. q = [id |-> id, lists |-> Restrict(DedupeTexts(lists), Fields \ Held(lists))]
  <2>1. PICK D : D = DedupeTexts(lists)
    OBVIOUS
  <2>2. q = [id |-> id, lists |-> Restrict(D, DOMAIN D \ Held(D))]
    BY <1>6, <2>1 DEF LightOf
  <2>3. DOMAIN D = Fields /\ Held(D) = Held(lists)
    BY <2>1, DedupeKeeps, LightIs
  <2>4. QED
    BY <2>1, <2>2, <2>3
<1>8. PICK m : m = IF found = {} THEN q ELSE Fill(q, CHOOSE w \in found : TRUE)
  OBVIOUS
<1>9. MergeWindows(light, windows, byId)[n] = m
  <2>1. DOMAIN light = DOMAIN run
    BY DEF StoredOK, IsStored
  <2>2. QED
    BY <1>4, <1>5, <1>8, <2>1 DEF MergeWindows
<1>10. found \subseteq windows
  BY <1>4, <1>5, FoundIsWindow
<1>11. Held(lists) \subseteq Heavy /\ 1 \in Fields /\ 1 \notin Heavy /\ DOMAIN lists = Fields
  BY LightIs, FieldsAreNumbers, WrittenIsOK
<1>12. CASE found = {}
  <2>1. m = q
    BY <1>8, <1>12
  <2>2. PICK M : M = Restrict(DedupeTexts(lists), Fields \ Held(lists))
    OBVIOUS
  <2>3. ListsOK(M) /\ RestoreTexts(M) = Restrict(lists, Fields \ Held(lists))
    BY <2>2, LightBack
  <2>4. PICK T : T = RestoreTexts(M)
    OBVIOUS
  <2>5. ListsOK(T)
    BY <2>3, <2>4, RestoreKeeps
  <2>6. r = [id |-> id, lists |-> T]
    BY <1>7, <1>9, <2>1, <2>2, <2>4
  <2>7. T = [f \in Fields \ Held(lists) |-> lists[f]]
    BY <2>3, <2>4 DEF Restrict
  <2>8. DistinctIds => Surviving(n) = Fields \ Held(lists)
    BY <1>2, <1>4, <1>5, <1>12, FoundIsOwn DEF Surviving
  <2>9. QuestionOK(r)
    BY <2>5, <2>6 DEF QuestionOK, ListsOK
  <2>10. r.lists[1] = lists[1]
    BY <1>11, <2>6, <2>7
  <2>11. QED
    BY <1>2, <2>3, <2>4, <2>6, <2>8, <2>9, <2>10
<1>13. CASE found # {}
  <2>1. PICK w : w = CHOOSE v \in found : TRUE
    OBVIOUS
  <2>2. w \in found /\ m = Fill(q, w)
    BY <1>8, <1>13, <2>1
  <2>3. /\ w \in windows /\ ListsOK(w.lists) /\ DOMAIN w.lists \subseteq Heavy
        /\ w.lists = Restrict(DedupeTexts(run[w.position].lists), Held(run[w.position].lists))
    BY <1>10, <2>2, WindowIs
  <2>4. PICK M : M = m.lists
    OBVIOUS
  <2>5. /\ m.id = id /\ ListsOK(M) /\ 1 \in DOMAIN M /\ M[1] = DedupeTexts(lists)[1]
        /\ w.lists = Restrict(DedupeTexts(lists), Held(lists)) => M = DedupeTexts(lists)
    BY <1>6, <2>2, <2>3, <2>4, FillIs
  <2>6. PICK T : T = RestoreTexts(M)
    OBVIOUS
  <2>7. ListsOK(T) /\ T[1] = lists[1]
    BY <2>5, <2>6, RestoreKeeps, FinalContextBack
  <2>8. r.id = id /\ r.lists = T
    <3>1. m = [id |-> id, lists |-> M]
      BY <1>7, <2>2, <2>4 DEF Fill
    <3>2. QED
      BY <1>9, <2>6, <3>1
  <2>9. QuestionOK(r)
    BY <2>7, <2>8 DEF QuestionOK, ListsOK
  <2>10. ASSUME DistinctIds PROVE T = Restrict(lists, Surviving(n))
    <3>1. w.position = n
      BY <1>4, <1>5, <2>2, <2>10, FoundIsOwn
    <3>2. M = DedupeTexts(lists)
      BY <1>2, <2>3, <2>5, <3>1
    <3>3. T = lists
      BY <2>6, <3>2, WholeBack
    <3>4. Surviving(n) = Fields
      BY <2>3, <3>1 DEF Surviving
    <3>5. lists = [f \in Fields |-> lists[f]]
      BY DEF Written
    <3>6. QED
      BY <3>3, <3>4, <3>5 DEF Restrict
  <2>11. QED
    BY <1>2, <2>7, <2>8, <2>9, <2>10
<1>14. QED
  BY <1>12, <1>13

\* A runner's lists are written lists.
LEMMA ListsOfAreWritten ==
  ASSUME NEW count \in [Fields -> 0..MaxRefs], NEW ref \in [Slots(count) -> RunnerRef]
  PROVE  ListsOf(count, ref) \in Written
<1>1. \A f \in Fields : count[f] \in Nat
  BY BoundsAssumption
<1>2. ASSUME NEW f \in Fields PROVE [i \in 1..count[f] |-> ref[<<f, i>>]] \in Seq(RunnerRef)
  <2>1. PICK k \in Nat : k = count[f]
    BY <1>1
  <2>2. \A i \in 1..k : <<f, i>> \in Slots(count)
    BY <2>1 DEF Slots
  <2>3. \A i \in 1..k : ref[<<f, i>>] \in RunnerRef
    BY <2>2
  <2>4. PICK R : R = RunnerRef
    OBVIOUS
  <2>5. PICK list : list = [i \in 1..k |-> ref[<<f, i>>]]
    OBVIOUS
  <2>6. list = [i \in 1..k |-> list[i]] /\ \A i \in 1..k : list[i] \in R
    BY <2>3, <2>4, <2>5
  <2>7. list \in Seq(R)
    BY <2>6
  <2>8. QED
    BY <2>1, <2>4, <2>5, <2>7
<1>3. QED
  BY <1>2 DEF ListsOf, Written

LEMMA DocumentInvInit == Init => DocumentInv
<1> SUFFICES ASSUME Init PROVE DocumentInv
  OBVIOUS
<1>1. RunOK
  BY DEF Init, RunOK
<1>2. QED
  BY <1>1 DEF Init, DocumentInv

LEMMA DocumentInvNext == DocumentInv /\ [Next]_vars => DocumentInv'
<1> SUFFICES ASSUME DocumentInv, [Next]_vars PROVE DocumentInv'
  OBVIOUS
<1>1. CASE AnswerQuestion
  <2>1. PICK id \in Ids \cup {NoId}, count \in [Fields -> 0..MaxRefs] :
           \E ref \in [Slots(count) -> RunnerRef] :
              run' = Append(run, [id |-> id, lists |-> ListsOf(count, ref)])
    BY <1>1 DEF AnswerQuestion
  <2>2. PICK ref \in [Slots(count) -> RunnerRef] :
           run' = Append(run, [id |-> id, lists |-> ListsOf(count, ref)])
    BY <2>1
  <2>3. PICK lists \in Written : run' = Append(run, [id |-> id, lists |-> lists])
    BY <2>2, ListsOfAreWritten
  <2>4. PICK T : T = [id : Ids \cup {NoId}, lists : Written]
    OBVIOUS
  <2>5. PICK question \in T : run' = Append(run, question)
    BY <2>3, <2>4
  <2>6. run' \in Seq(T)
    BY <2>4, <2>5 DEF DocumentInv, RunOK
  <2>7. RunOK'
    BY <2>4, <2>6 DEF RunOK
  <2>8. stage = "running" /\ UNCHANGED <<stage, light, windows, served>>
    BY <1>1 DEF AnswerQuestion
  <2>9. QED
    BY <2>7, <2>8 DEF DocumentInv
<1>2. CASE Save
  <2>1. stage = "running" /\ stage' = "stored" /\ UNCHANGED <<run, served>>
    BY <1>2 DEF Save
  <2>2. RunOK /\ served = <<>>
    BY <2>1 DEF DocumentInv
  <2>3. PICK slim : slim = [n \in DOMAIN run |-> [run[n] EXCEPT !.lists = DedupeTexts(@)]]
    OBVIOUS
  <2>4. /\ light' = [n \in DOMAIN slim |-> LightOf(slim[n])]
        /\ \E k \in 0..Len(slim) :
             windows' = {WindowOf(slim[n], n) : n \in {m \in 1..k : Held(slim[m].lists) # {}}}
    BY ZenonT(40), <1>2, <2>3 DEF Save
  <2>5. /\ DOMAIN slim = DOMAIN run /\ DOMAIN run = 1..Len(run) /\ Len(run) \in Nat
        /\ Len(slim) = Len(run)
    BY <2>2, <2>3, RunIs
  <2>6. \A n \in DOMAIN run : slim[n] = Slim(run[n])
    <3>1. \A n \in DOMAIN run : run[n] = [id |-> run[n].id, lists |-> run[n].lists]
      BY <2>2, RunIs
    <3>2. \A n \in DOMAIN run : slim[n] = [run[n] EXCEPT !.lists = DedupeTexts(run[n].lists)]
      BY <2>3
    <3>3. QED
      BY <3>1, <3>2 DEF Slim
  <2>7. light' = [n \in DOMAIN run |-> LightOf(Slim(run[n]))]
    BY <2>4, <2>5, <2>6
  <2>8. PICK k \in 0..Len(run) :
           windows' = {WindowOf(slim[n], n) : n \in {m \in 1..k : Held(slim[m].lists) # {}}}
    BY <2>4, <2>5
  <2>9. windows' = {WindowOf(Slim(run[n]), n) : n \in {m \in 1..k : Held(Slim(run[m]).lists) # {}}}
    <3>1. \A n \in 1..k : slim[n] = Slim(run[n])
      BY <2>5, <2>6, <2>8
    <3>2. QED
      BY <2>8, <3>1
  <2>10. StoredOK'
    <3>1. IsStored(run, light', windows')
      BY <2>7, <2>8, <2>9 DEF IsStored
    <3>2. QED
      BY <2>1, <3>1, Zenon DEF StoredOK
  <2>11. RunOK'
    BY <2>1, <2>2 DEF RunOK
  <2>12. QED
    BY <2>1, <2>2, <2>10, <2>11 DEF DocumentInv
<1>3. CASE Read
  <2>1. stage = "stored" /\ stage' = "served" /\ UNCHANGED <<run, light, windows>>
    BY <1>3 DEF Read
  <2>2. RunOK /\ StoredOK
    BY <2>1 DEF DocumentInv
  <2>3. PICK byId \in Indexes(windows) :
          served' = [n \in DOMAIN light |->
              [MergeWindows(light, windows, byId)[n] EXCEPT !.lists = RestoreTexts(@)]]
    BY <1>3 DEF Read
  <2>4. DOMAIN light = DOMAIN run
    BY <2>2 DEF StoredOK, IsStored
  <2>5. \A n \in DOMAIN run :
           served'[n] = [MergeWindows(light, windows, byId)[n] EXCEPT !.lists = RestoreTexts(@)]
    BY <2>3, <2>4
  <2>6. \A n \in DOMAIN run :
           /\ QuestionOK(served'[n])
           /\ served'[n].lists[1] = run[n].lists[1]
           /\ DistinctIds => served'[n].lists = Restrict(run[n].lists, Surviving(n))
    BY <2>2, <2>5, ReadGives
  <2>7. DOMAIN served' = DOMAIN run
    BY <2>3, <2>4
  <2>8. DistinctIds' = DistinctIds /\ \A n : Surviving(n)' = Surviving(n)
    BY <2>1 DEF DistinctIds, Surviving
  <2>9. ServedOK'
    BY <2>1, <2>6, <2>7, <2>8 DEF ServedOK, QuestionOK
  <2>10. StoredOK' /\ RunOK'
    BY <2>1, <2>2, Zenon DEF RunOK, StoredOK
  <2>11. QED
    BY <2>1, <2>9, <2>10 DEF DocumentInv
<1>4. CASE UNCHANGED vars
  <2>1. run' = run /\ stage' = stage /\ light' = light /\ windows' = windows /\ served' = served
    BY <1>4 DEF vars
  <2>2. RunOK' <=> RunOK
    BY <2>1 DEF RunOK
  <2>3. StoredOK => StoredOK'
    BY <2>1, Zenon DEF StoredOK
  <2>4. ServedOK => ServedOK'
    BY <2>1 DEF ServedOK, DistinctIds, Surviving, QuestionOK
  <2>5. QED
    BY <2>1, <2>2, <2>3, <2>4 DEF DocumentInv
<1>5. QED
  BY <1>1, <1>2, <1>3, <1>4 DEF Next

LEMMA DocumentInvHolds == Spec => []DocumentInv
<1>1. QED
  BY DocumentInvInit, DocumentInvNext, PTL DEF Spec

---------------------------------------------------------------------------

\* The run document never holds what grows with the width of a retrieval: whatever a question
\* retrieved, its record keeps no fragment but those of the final context (_split_windows).
THEOREM RunDocumentIsTyped == Spec => []TypeOK
<1>1. DocumentInv => TypeOK
  <2> SUFFICES ASSUME DocumentInv PROVE TypeOK
    OBVIOUS
  <2>1. \A n \in DOMAIN run : run[n] \in [id : Ids \cup {NoId}, lists : Written]
    BY RunIs DEF DocumentInv
  <2>2. ASSUME NEW n \in DOMAIN run PROVE QuestionOK(run[n])
    BY <2>1, WrittenIsOK DEF QuestionOK, ListsOK
  <2>3. ASSUME stage = "running" PROVE light = <<>> /\ windows = {} /\ served = <<>>
    BY <2>3 DEF DocumentInv
  <2>4. ASSUME stage # "running", NEW n \in DOMAIN light
        PROVE  /\ QuestionOK(light[n])
               /\ \A f \in DOMAIN light[n].lists : f \in Heavy => light[n].lists[f] = <<>>
    <3>1. StoredOK
      BY <2>4 DEF DocumentInv
    <3>2. n \in DOMAIN run /\ light[n] = LightOf(Slim(run[n]))
      BY <2>4, <3>1 DEF StoredOK, IsStored
    <3>3. PICK lists \in Written : lists = run[n].lists
      BY <2>1, <3>2
    <3>4. PICK id \in Ids \cup {NoId} : id = run[n].id
      BY <2>1, <3>2
    <3>5. PICK Q : Q = [id |-> id, lists |-> DedupeTexts(lists)]
      OBVIOUS
    <3>6. light[n] = LightOf(Q)
      BY <3>2, <3>3, <3>4, <3>5 DEF Slim
    <3>7. PICK D : D = DedupeTexts(lists)
      OBVIOUS
    <3>8. light[n].id = id /\ light[n].lists = Restrict(D, Fields \ Held(lists))
      BY <3>5, <3>6, <3>7, LightIs
    <3>9. ListsOK(D) /\ DOMAIN D = Fields
      BY <3>7, DedupeKeeps
    <3>10. \A f \in Fields \ Held(lists) : f \in Heavy => D[f] = <<>>
      <4>1. \A f \in Fields \ Held(lists) : f # 1 => lists[f] = <<>>
        BY LightIs
      <4>2. QED
        BY <3>7, <4>1, DedupeKeeps DEF Heavy
    <3>11. light[n].lists = [f \in Fields \ Held(lists) |-> D[f]]
      BY <3>8 DEF Restrict
    <3>12. QED
      BY <3>8, <3>9, <3>10, <3>11 DEF QuestionOK, ListsOK
  <2>5. ASSUME stage # "running", NEW w \in windows PROVE QuestionOK(w) /\ w.position \in DOMAIN run
    BY <2>5, WindowIs DEF DocumentInv
  <2>6. \A n \in DOMAIN served : QuestionOK(served[n])
    BY DEF DocumentInv, ServedOK
  <2>7. QED
    BY <2>2, <2>3, <2>4, <2>5, <2>6 DEF TypeOK, DocumentInv
<1>2. QED
  BY <1>1, DocumentInvHolds, PTL

\* Where questions have ids of their own or none, a reader gets every stored list back, key for
\* key and text for text, for any number of lists and any texts, wherever the database stopped
\* taking windows and in whatever order it returns them (_merge_windows, _restore_texts).
THEOREM StoredWindowsComeBack == Spec => []WindowsComeBack
<1>1. DocumentInv => WindowsComeBack
  BY DEF DocumentInv, ServedOK, WindowsComeBack, ServedExactly
<1>2. QED
  BY <1>1, DocumentInvHolds, PTL

\* The context an answer was generated from is served as it was, even where ids repeat and a
\* question is given the windows of another.
THEOREM FinalContextIsServed == Spec => []FinalContextSurvives
<1>1. DocumentInv => FinalContextSurvives
  BY DEF DocumentInv, ServedOK, FinalContextSurvives
<1>2. QED
  BY <1>1, DocumentInvHolds, PTL

=============================================================================
