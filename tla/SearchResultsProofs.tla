------------------------- MODULE SearchResultsProofs --------------------------
(***************************************************************************)
(* Theorems about the answers SearchResults gets from the pipelines of     *)
(* SearchRanking, for every index, every response and every limit.         *)
(***************************************************************************)
EXTENDS SearchResults, Counting, TLAPS

-----------------------------------------------------------------------------
(* Places.  Reading order is a strict order, and what is collected at some *)
(* places is what stands there, each once, in that order.                  *)
ReadingOrder(P) == {pq \in P \X P : Earlier(pq[1], pq[2])}

LEMMA ReadingOrderIsStrict ==
    ASSUME NEW P, P \subseteq Nat \X Nat
    PROVE  StrictOrder(P, ReadingOrder(P))
<1>1. \A x, y \in P : <<x, y>> \in ReadingOrder(P) <=> Earlier(x, y)
  BY DEF ReadingOrder
<1>2. \A x \in P : x[1] \in Nat /\ x[2] \in Nat /\ x = <<x[1], x[2]>>
  OBVIOUS
<1>3. \A x \in P : ~Earlier(x, x)
  BY <1>2 DEF Earlier
<1>4. \A x, y \in P : x # y => Earlier(x, y) \/ Earlier(y, x)
  BY <1>2 DEF Earlier
<1>5. \A x, y, z \in P : Earlier(x, y) /\ Earlier(y, z) => Earlier(x, z)
  BY <1>2 DEF Earlier
<1> QED BY <1>1, <1>3, <1>4, <1>5 DEF StrictOrder

Lists(X) == Seq(Seq(X))

LEMMA PlacesAre ==
    ASSUME NEW X, NEW lists \in Lists(X)
    PROVE  /\ Places(lists) \subseteq Nat \X Nat
           /\ IsFiniteSet(Places(lists))
           /\ \A p \in Places(lists) : At(lists, p) \in X
           /\ \A p : p \in Places(lists) <=>
                 \E l \in DOMAIN lists : \E r \in DOMAIN lists[l] : p = <<l, r>>
<1> DEFINE columns == [l \in DOMAIN lists |-> {l} \X DOMAIN lists[l]]
           count == [l \in DOMAIN lists |-> Len(lists[l])]
<1>1. PICK n \in Nat : DOMAIN lists = 1..n
  BY DEF Lists
<1>2. \A l \in 1..n : lists[l] \in Seq(X)
  BY <1>1 DEF Lists
<1>3. \A p : p \in Places(lists) <=>
         \E l \in DOMAIN lists : \E r \in DOMAIN lists[l] : p = <<l, r>>
  BY DEF Places
<1>4. \A l \in 1..n : DOMAIN lists[l] = 1..Len(lists[l]) /\ Len(lists[l]) \in Nat
  BY <1>2
<1>5. Places(lists) \subseteq Nat \X Nat
  <2> SUFFICES ASSUME NEW p \in Places(lists) PROVE p \in Nat \X Nat
    OBVIOUS
  <2>1. PICK l \in 1..n : \E r \in DOMAIN lists[l] : p = <<l, r>>
    BY <1>1, <1>3
  <2>2. PICK r \in 1..Len(lists[l]) : p = <<l, r>>
    BY <1>4, <2>1
  <2>3. l \in Nat /\ r \in Nat
    BY <1>4
  <2> QED BY <2>2, <2>3
<1>6. ASSUME NEW p \in Places(lists) PROVE At(lists, p) \in X
  <2>1. PICK l \in 1..n : \E r \in DOMAIN lists[l] : p = <<l, r>>
    BY <1>1, <1>3
  <2>2. PICK r \in DOMAIN lists[l] : p = <<l, r>>
    BY <2>1
  <2>3. lists[l][r] \in X
    BY <1>2
  <2> QED BY <2>2, <2>3 DEF At
<1>7. IsFiniteSet(Places(lists))
  <2> DEFINE R == {columns[l] : l \in 1..n}
  <2>1. columns \in Surjection(1..n, R)
    BY <1>1 DEF Surjection
  <2>2. IsFiniteSet(1..n)
    BY FS_Interval
  <2>3. IsFiniteSet(R)
    <3> HIDE DEF columns, R
    <3> QED BY <2>1, <2>2, FS_Surjection
  <2>4. ASSUME NEW T \in R PROVE IsFiniteSet(T)
    <3>1. PICK l \in 1..n : T = {l} \X DOMAIN lists[l]
      BY <1>1, <2>4
    <3>2. IsFiniteSet({l}) /\ IsFiniteSet(DOMAIN lists[l])
      <4>1. Len(lists[l]) \in Int /\ DOMAIN lists[l] = 1..Len(lists[l])
        BY <1>4
      <4>2. IsFiniteSet(1..Len(lists[l]))
        BY <4>1, FS_Interval
      <4> QED BY <4>1, <4>2, FS_Singleton
    <3> QED BY <3>1, <3>2, FS_Product
  <2>5. Places(lists) = UNION R
    BY <1>1 DEF Places
  <2> HIDE DEF R
  <2> QED BY <2>3, <2>4, <2>5, FS_UNION
<1> QED BY <1>3, <1>5, <1>6, <1>7

LEMMA RankedInReadingOrder ==
    ASSUME NEW P, P \subseteq Nat \X Nat, IsFiniteSet(P)
    PROVE  Sorts(Ranked(P, Earlier), P, ReadingOrder(P))
<1>1. \A x \in P : {y \in P : Earlier(y, x)} = Before(P, ReadingOrder(P), x)
  BY DEF Before, ReadingOrder
<1> DEFINE ranked(n) == CHOOSE x \in P : Cardinality({y \in P : Earlier(y, x)}) = n - 1
           rankedBy(n) ==
              CHOOSE x \in P : Cardinality(Before(P, ReadingOrder(P), x)) = n - 1
<1>2. \A n \in 1..Cardinality(P) : ranked(n) = rankedBy(n)
  BY <1>1
<1>3. Ranked(P, Earlier) = RankedBy(P, ReadingOrder(P))
  <2>1. Ranked(P, Earlier) = [n \in 1..Cardinality(P) |-> ranked(n)]
    BY DEF Ranked
  <2>2. RankedBy(P, ReadingOrder(P)) = [n \in 1..Cardinality(P) |-> rankedBy(n)]
    BY DEF RankedBy
  <2> HIDE DEF ranked, rankedBy
  <2> QED BY <1>2, <2>1, <2>2
<1> QED BY <1>3, ReadingOrderIsStrict, RankedSorts

(* order says where each element of what is collected was found. *)
Gathers(s, lists, P, order) ==
    /\ order \in [1..Cardinality(P) -> P]
    /\ \A p \in P : \E n \in 1..Cardinality(P) : order[n] = p
    /\ \A m, n \in 1..Cardinality(P) : m < n => Earlier(order[m], order[n])
    /\ s = [n \in 1..Cardinality(P) |-> At(lists, order[n])]

LEMMA CollectGathers ==
    ASSUME NEW X, NEW lists \in Lists(X), NEW P \in SUBSET Places(lists)
    PROVE  /\ Cardinality(P) \in Nat
           /\ Collect(lists, P) \in Seq(X)
           /\ \E order : Gathers(Collect(lists, P), lists, P, order)
<1> DEFINE order == Ranked(P, Earlier)
           s == Collect(lists, P)
<1>1. P \subseteq Nat \X Nat /\ IsFiniteSet(P)
  BY PlacesAre, FS_Subset
<1>2. Sorts(order, P, ReadingOrder(P))
  BY <1>1, RankedInReadingOrder
<1>3. Cardinality(P) \in Nat
  BY <1>1, FS_CardinalityType
<1>4. DOMAIN order = 1..Cardinality(P) /\ s = [n \in DOMAIN order |-> At(lists, order[n])]
  BY DEF Ranked, Collect
<1> HIDE DEF order, s
<1>5. /\ order \in [1..Cardinality(P) -> P]
      /\ \A p \in P : \E n \in 1..Cardinality(P) : order[n] = p
  BY <1>2 DEF Sorts
<1>6. \A m, n \in 1..Cardinality(P) : m < n => Earlier(order[m], order[n])
  BY <1>2 DEF Sorts, ReadingOrder
<1>7. s = [n \in 1..Cardinality(P) |-> At(lists, order[n])]
  BY <1>4
<1>8. Gathers(s, lists, P, order)
  BY <1>5, <1>6, <1>7 DEF Gathers
<1>9. s \in Seq(X)
  <2>1. \A n \in 1..Cardinality(P) : At(lists, order[n]) \in X
    BY <1>5, PlacesAre
  <2> QED BY <1>3, <1>7, <2>1
<1> QED BY <1>3, <1>8, <1>9 DEF s

-----------------------------------------------------------------------------
(* What the lists hold: chunks of documents of the index.                  *)
DocIds == {doc.id : doc \in Documents}
Parts == {"hl", "fb"} \X Nat
ChunkOf == [id : DocIds \X Parts, parent : DocIds, score : Scores, size : Nat]
Made == {c \in ChunkOf : c.parent = c.id[1]}

LEMMA MadeIs ==
    ASSUME NEW c \in Made
    PROVE  /\ c.parent \in DocIds /\ c.parent # NoParent /\ c.parent = c.id[1]
           /\ c.score \in Nat
           /\ c.size \in Nat
BY DocumentsAssumption, ScoresAssumption DEF Made, ChunkOf, DocIds

(* The parents of a list are those of its chunks. *)
LEMMA ParentsAre ==
    ASSUME NEW s \in Seq(Made)
    PROVE  \A p : p \in Parents(s) <=> \E i \in 1..Len(s) : s[i].parent = p
<1>1. DOMAIN s = 1..Len(s) /\ \A i \in 1..Len(s) : s[i] \in Made
  OBVIOUS
<1> QED BY <1>1, MadeIs DEF Parents

(* What is left of a list: elements of it, each place at most once.        *)
PartOf(s, t) ==
    \E at \in [1..Len(s) -> 1..Len(t)] :
        /\ \A m, n \in 1..Len(s) : at[m] = at[n] => m = n
        /\ \A n \in 1..Len(s) : s[n] = t[at[n]]

LEMMA SelectPart ==
    ASSUME NEW X, NEW chunks \in Seq(X), NEW K \in SUBSET DOMAIN chunks
    PROVE  /\ PartOf(Select(chunks, K), chunks)
           /\ \A i \in K : \E n \in 1..Len(Select(chunks, K)) : Select(chunks, K)[n] = chunks[i]
<1> DEFINE s == Select(chunks, K)
<1>1. s \in Seq(X) /\ \E at : Picks(s, chunks, K, at)
  BY SelectPicks
<1> HIDE DEF s
<1>2. PICK at : Picks(s, chunks, K, at)
  BY <1>1
<1>3. K \subseteq 1..Len(chunks) /\ Len(s) \in Nat
  BY <1>1
<1>4. at \in [1..Len(s) -> 1..Len(chunks)] /\ \A n \in 1..Len(s) : at[n] \in Nat
  BY <1>2, <1>3 DEF Picks
<1>5. ASSUME NEW m \in 1..Len(s), NEW n \in 1..Len(s), at[m] = at[n] PROVE m = n
  <2>1. ~(at[m] < at[n]) /\ ~(at[n] < at[m])
    BY <1>4, <1>5
  <2>2. ~(m < n) /\ ~(n < m)
    BY <1>2, <2>1 DEF Picks
  <2> QED BY <2>2
<1>6. PartOf(s, chunks)
  BY <1>2, <1>4, <1>5 DEF PartOf, Picks
<1>7. \A i \in K : \E n \in 1..Len(s) : s[n] = chunks[i]
  BY <1>2 DEF Picks
<1> QED BY <1>6, <1>7 DEF s

(* _deduplicate_by_parent leaves one chunk of each document of the list.   *)
DistinctParents(s) == \A m, n \in 1..Len(s) : s[m].parent = s[n].parent => m = n

LEMMA DeduplicateLeaves ==
    ASSUME NEW chunks \in Seq(Made)
    PROVE  /\ DeduplicateByParent(chunks) \in Seq(Made)
           /\ PartOf(DeduplicateByParent(chunks), chunks)
           /\ DistinctParents(DeduplicateByParent(chunks))
           /\ Parents(DeduplicateByParent(chunks)) = Parents(chunks)
<1> DEFINE s == DeduplicateByParent(chunks)
           K == {i \in DOMAIN chunks : FirstOfParent(chunks, i)}
<1>1. s = Select(chunks, K) /\ K \in SUBSET DOMAIN chunks
  BY DEF DeduplicateByParent
<1> HIDE DEF s
<1>2. s \in Seq(Made) /\ PartOf(s, chunks) /\ \E at : Picks(s, chunks, K, at)
  <2> HIDE DEF K
  <2> QED BY <1>1, SelectPicks, SelectPart
<1>3. PICK at : Picks(s, chunks, K, at)
  BY <1>2
<1>4. \A n \in 1..Len(s) : at[n] \in K /\ s[n] = chunks[at[n]]
  BY <1>3 DEF Picks
<1>5. DOMAIN chunks = 1..Len(chunks) /\ \A i \in 1..Len(chunks) : chunks[i] \in Made
  OBVIOUS
<1>6. ASSUME NEW m \in 1..Len(s), NEW n \in 1..Len(s), s[m].parent = s[n].parent, m < n
      PROVE  FALSE
  <2>1. at[m] < at[n] /\ at[m] \in K /\ at[n] \in K
    BY <1>3, <1>6 DEF Picks
  <2>2. chunks[at[n]].parent = chunks[at[m]].parent
    BY <1>4, <1>6
  <2>3. chunks[at[n]].parent # NoParent
    BY <1>5, <2>1, MadeIs
  <2>4. at[m] \in 1..at[n] - 1
    BY <1>5, <2>1
  <2> QED BY <2>1, <2>2, <2>3, <2>4 DEF FirstOfParent
<1>7. DistinctParents(s)
  <2>1. \A m, n \in 1..Len(s) : m = n \/ m < n \/ n < m
    BY <1>2
  <2> QED BY <1>6, <2>1 DEF DistinctParents
<1>8. Parents(s) \subseteq Parents(chunks)
  BY <1>2, <1>4, <1>5, ParentsAre
<1>9. ASSUME NEW p \in Parents(chunks) PROVE p \in Parents(s)
  <2> DEFINE Q == {i \in 1..Len(chunks) : chunks[i].parent = p}
  <2>1. Q \subseteq Nat /\ Q # {}
    BY ParentsAre
  <2>2. PICK i \in Q : \A j \in Q : i <= j
    <3> HIDE DEF Q
    <3> QED BY <2>1, LeastNumber
  <2>3. i \in K
    <3>1. ASSUME NEW j \in 1..i - 1 PROVE chunks[j].parent # chunks[i].parent
      <4>1. j \in 1..Len(chunks) /\ ~(i <= j)
        OBVIOUS
      <4> QED BY <2>2, <4>1
    <3> QED BY <1>5, <3>1 DEF FirstOfParent
  <2>4. PICK n \in 1..Len(s) : at[n] = i
    BY <1>3, <2>3 DEF Picks
  <2>5. s[n].parent = p
    BY <1>4, <2>4
  <2> QED BY <1>2, <2>5, ParentsAre
<1> QED BY <1>2, <1>7, <1>8, <1>9 DEF s

-----------------------------------------------------------------------------
(* Votes are numbers, and more of them where a list ranks higher.          *)
Vote(r) == Scale \div (RRF_K + r - 1)
Given(list, id) == [r \in DOMAIN list |-> IF list[r].id = id THEN Vote(r) ELSE 0]

LEMMA VoteNumber ==
    ASSUME NEW r \in Nat \ {0} PROVE Vote(r) \in Nat
<1>1. RRF_K + r - 1 \in Nat \ {0} /\ Scale \in Nat
  BY ScaleAssumption
<1> HIDE DEF Vote
<1>2. \A d \in Nat \ {0}, n \in Nat : n \div d \in Nat
  OBVIOUS
<1> QED BY <1>1, <1>2 DEF Vote

LEMMA VotesInNumber ==
    ASSUME NEW X, NEW list \in Seq(X), NEW id
    PROVE  /\ IsFiniteSet(DOMAIN list)
           /\ Given(list, id) \in [DOMAIN list -> Nat]
           /\ VotesIn(list, id) = SumFunction(Given(list, id))
           /\ VotesIn(list, id) \in Nat
<1>1. DOMAIN list = 1..Len(list) /\ Len(list) \in Nat
  OBVIOUS
<1>2. IsFiniteSet(DOMAIN list)
  BY <1>1, FS_Interval
<1>3. \A r \in DOMAIN list : Vote(r) \in Nat
  BY <1>1, VoteNumber
<1>4. Given(list, id) \in [DOMAIN list -> Nat]
  BY <1>3 DEF Given
<1>5. VotesIn(list, id) = SumFunction(Given(list, id))
  BY DEF VotesIn, Given, Vote
<1> QED BY <1>2, <1>4, <1>5, SumNumber

LEMMA VotesNumber ==
    ASSUME NEW X, NEW lists \in Lists(X), NEW id
    PROVE  /\ IsFiniteSet(DOMAIN lists)
           /\ [l \in DOMAIN lists |-> VotesIn(lists[l], id)] \in [DOMAIN lists -> Nat]
           /\ Votes(lists, id) \in Nat
<1>1. PICK n \in Nat : DOMAIN lists = 1..n
  BY DEF Lists
<1>2. IsFiniteSet(DOMAIN lists)
  BY <1>1, FS_Interval
<1>3. \A l \in DOMAIN lists : VotesIn(lists[l], id) \in Nat
  <2> TAKE l \in DOMAIN lists
  <2>1. lists[l] \in Seq(X)
    BY DEF Lists
  <2> QED BY <2>1, VotesInNumber
<1>4. [l \in DOMAIN lists |-> VotesIn(lists[l], id)] \in [DOMAIN lists -> Nat]
  BY <1>3
<1>5. Votes(lists, id) \in Nat
  BY <1>2, <1>4, SumNumber DEF Votes
<1> QED BY <1>2, <1>4, <1>5

-----------------------------------------------------------------------------
(* Fusion.  Every id that occurs has one entry of the table, which is      *)
(* strictly ordered by votes and entry.                                    *)
Entry(lists, id) ==
    CHOOSE p \in Occurrences(lists, id) :
        \A q \in Occurrences(lists, id) : p = q \/ Earlier(p, q)

LEMMA EntryExists ==
    ASSUME NEW X, NEW lists \in Lists(X), NEW place \in Places(lists),
           NEW id, id = At(lists, place).id
    PROVE  Entry(lists, id) \in Places(lists) /\ At(lists, Entry(lists, id)).id = id
<1> DEFINE O == Occurrences(lists, id)
<1>1. O \in SUBSET Places(lists) /\ O # {} /\ \A p \in O : At(lists, p).id = id
  BY DEF Occurrences
<1>2. O \subseteq Nat \X Nat /\ IsFiniteSet(O)
  BY <1>1, PlacesAre, FS_Subset
<1>3. StrictOrder(O, ReadingOrder(O))
  BY <1>2, ReadingOrderIsStrict
<1>4. \E p \in O : \A q \in O : p = q \/ <<p, q>> \in ReadingOrder(O)
  <2> HIDE DEF O
  <2> QED BY <1>1, <1>2, <1>3, FirstExists
<1>5. \E p \in O : \A q \in O : p = q \/ Earlier(p, q)
  BY <1>4 DEF ReadingOrder
<1>6. Entry(lists, id) \in O
  BY <1>5 DEF Entry
<1> QED BY <1>1, <1>6

BiggerThan(lists, P) ==
    {pq \in P \X P : \/ At(lists, pq[1]).size > At(lists, pq[2]).size
                     \/ /\ At(lists, pq[1]).size = At(lists, pq[2]).size
                        /\ Earlier(pq[1], pq[2])}

LEMMA LongestExists ==
    ASSUME NEW lists \in Lists(Made), NEW place \in Places(lists),
           NEW id, id = At(lists, place).id
    PROVE  \E p \in Occurrences(lists, id) : Longest(lists, id) = At(lists, p)
<1> DEFINE O == Occurrences(lists, id)
           R == BiggerThan(lists, O)
           size(p) == At(lists, p).size
<1>1. O \in SUBSET Places(lists) /\ O # {}
  BY DEF Occurrences
<1>2. O \subseteq Nat \X Nat /\ IsFiniteSet(O)
  BY <1>1, PlacesAre, FS_Subset
<1>3. StrictOrder(O, ReadingOrder(O))
  BY <1>2, ReadingOrderIsStrict
<1>4. \A p \in O : size(p) \in Nat
  <2> TAKE p \in O
  <2>1. At(lists, p) \in Made
    BY <1>1, PlacesAre
  <2> QED BY <2>1, MadeIs
<1>5. /\ \A p \in O : ~Earlier(p, p)
      /\ \A p, q \in O : p # q => Earlier(p, q) \/ Earlier(q, p)
      /\ \A p, q, r \in O : Earlier(p, q) /\ Earlier(q, r) => Earlier(p, r)
  <2> HIDE DEF O
  <2>1. \A p, q \in O : <<p, q>> \in ReadingOrder(O) <=> Earlier(p, q)
    BY DEF ReadingOrder
  <2> QED BY <1>3, <2>1 DEF StrictOrder
<1>6. \A p, q \in O : <<p, q>> \in R <=>
         size(p) > size(q) \/ (size(p) = size(q) /\ Earlier(p, q))
  BY DEF BiggerThan
<1> HIDE DEF O, R, size
<1>7. StrictOrder(O, R)
  BY <1>4, <1>5, <1>6 DEF StrictOrder
<1>8. \E p \in O : \A q \in O : p = q \/ <<p, q>> \in R
  BY <1>1, <1>2, <1>7, FirstExists
<1>9. \E p \in O : \A q \in O :
         size(p) > size(q) \/ (size(p) = size(q) /\ (p = q \/ Earlier(p, q)))
  BY <1>4, <1>6, <1>8
<1> DEFINE longest == CHOOSE p \in O : \A q \in O :
         size(p) > size(q) \/ (size(p) = size(q) /\ (p = q \/ Earlier(p, q)))
<1>10. longest \in O
  BY <1>9
<1>11. Longest(lists, id) = At(lists, longest)
  BY DEF Longest, O, size
<1> QED BY <1>10, <1>11 DEF O

(* The ids of the lists are those at their places. *)
LEMMA IdsAre ==
    ASSUME NEW X, NEW lists \in Lists(X)
    PROVE  \A id : id \in UNION {Ids(lists[l]) : l \in DOMAIN lists} <=>
              \E p \in Places(lists) : At(lists, p).id = id
<1>1. \A p : p \in Places(lists) <=>
         \E l \in DOMAIN lists : \E r \in DOMAIN lists[l] : p = <<l, r>>
  BY PlacesAre
<1>2. ASSUME NEW p \in Places(lists)
      PROVE  At(lists, p).id \in UNION {Ids(lists[l]) : l \in DOMAIN lists}
  <2>1. PICK l \in DOMAIN lists : \E r \in DOMAIN lists[l] : p = <<l, r>>
    BY <1>1
  <2>2. PICK r \in DOMAIN lists[l] : p = <<l, r>>
    BY <2>1
  <2>3. At(lists, p) = lists[l][r]
    BY <2>2 DEF At
  <2> QED BY <2>3 DEF Ids
<1>3. ASSUME NEW id \in UNION {Ids(lists[l]) : l \in DOMAIN lists}
      PROVE  \E p \in Places(lists) : At(lists, p).id = id
  <2>1. PICK l \in DOMAIN lists : id \in Ids(lists[l])
    OBVIOUS
  <2>2. PICK r \in DOMAIN lists[l] : id = lists[l][r].id
    BY <2>1 DEF Ids
  <2>3. <<l, r>> \in Places(lists) /\ At(lists, <<l, r>>) = lists[l][r]
    BY <1>1 DEF At
  <2> QED BY <2>2, <2>3
<1> QED BY <1>2, <1>3

Scored(lists, id) == [id |-> id, votes |-> Votes(lists, id), entry |-> Entry(lists, id)]
ByVotes(T) == {ab \in T \X T : Ahead(ab[1], ab[2])}

LEMMA TableIs ==
    ASSUME NEW X, NEW lists \in Lists(X)
    PROVE  /\ \A row : row \in ScoreTable(lists) <=>
                 \E p \in Places(lists) : row = Scored(lists, At(lists, p).id)
           /\ IsFiniteSet(ScoreTable(lists))
           /\ StrictOrder(ScoreTable(lists), ByVotes(ScoreTable(lists)))
<1> DEFINE ids == UNION {Ids(lists[l]) : l \in DOMAIN lists}
           T == ScoreTable(lists)
<1>1. T = {Scored(lists, id) : id \in ids}
  BY DEF ScoreTable, Scored, Entry
<1>2. \A id : id \in ids <=> \E p \in Places(lists) : At(lists, p).id = id
  BY IdsAre
<1> HIDE DEF ids, T
<1>3. \A row : row \in T <=> \E p \in Places(lists) : row = Scored(lists, At(lists, p).id)
  BY <1>1, <1>2
<1>4. IsFiniteSet(T)
  <2> DEFINE rows == [p \in Places(lists) |-> Scored(lists, At(lists, p).id)]
  <2>1. rows \in Surjection(Places(lists), T)
    <3> HIDE DEF Scored
    <3> QED BY <1>3 DEF Surjection
  <2>2. IsFiniteSet(Places(lists))
    BY PlacesAre
  <2> HIDE DEF rows
  <2> QED BY <2>1, <2>2, FS_Surjection
<1>5. \A row \in T : /\ row.votes \in Nat
                     /\ row.entry \in Places(lists)
                     /\ row.id = At(lists, row.entry).id
                     /\ row = Scored(lists, row.id)
  <2> TAKE row \in T
  <2>1. PICK p \in Places(lists) : row = Scored(lists, At(lists, p).id)
    BY <1>3
  <2>2. row.id = At(lists, p).id /\ row.votes = Votes(lists, row.id) /\ row.entry = Entry(lists, row.id)
    BY <2>1 DEF Scored
  <2> QED BY <2>1, <2>2, EntryExists, VotesNumber
<1>6. \A a, b \in T : a # b => a.entry # b.entry
  BY <1>5
<1>7. StrictOrder(Places(lists), ReadingOrder(Places(lists)))
  BY PlacesAre, ReadingOrderIsStrict
<1>8. /\ \A p \in Places(lists) : ~Earlier(p, p)
      /\ \A p, q \in Places(lists) : p # q => Earlier(p, q) \/ Earlier(q, p)
      /\ \A p, q, r \in Places(lists) : Earlier(p, q) /\ Earlier(q, r) => Earlier(p, r)
  BY <1>7 DEF StrictOrder, ReadingOrder
<1>9. \A a, b \in T : <<a, b>> \in ByVotes(T) <=> Ahead(a, b)
  BY DEF ByVotes
<1>10. \A a \in T : ~Ahead(a, a)
  BY <1>5, <1>8 DEF Ahead
<1>11. \A a, b \in T : a # b => Ahead(a, b) \/ Ahead(b, a)
  BY <1>5, <1>6, <1>8 DEF Ahead
<1>12. \A a, b, c \in T : Ahead(a, b) /\ Ahead(b, c) => Ahead(a, c)
  BY <1>5, <1>8 DEF Ahead
<1>13. StrictOrder(T, ByVotes(T))
  BY <1>9, <1>10, <1>11, <1>12 DEF StrictOrder
<1> QED BY <1>3, <1>4, <1>13 DEF T

LEMMA TableSorts ==
    ASSUME NEW X, NEW lists \in Lists(X)
    PROVE  Sorts(Ranked(ScoreTable(lists), Ahead), ScoreTable(lists),
                 ByVotes(ScoreTable(lists)))
<1> DEFINE T == ScoreTable(lists)
           ranked == Ranked(T, Ahead)
           some(n) == CHOOSE x \in T : Cardinality({y \in T : Ahead(y, x)}) = n - 1
           other(n) == CHOOSE x \in T : Cardinality(Before(T, ByVotes(T), x)) = n - 1
<1>1. IsFiniteSet(T) /\ StrictOrder(T, ByVotes(T))
  BY TableIs
<1> HIDE DEF T
<1>2. \A x \in T : {y \in T : Ahead(y, x)} = Before(T, ByVotes(T), x)
  BY DEF Before, ByVotes
<1>3. \A n \in 1..Cardinality(T) : some(n) = other(n)
  BY <1>2
<1>4. ranked = [n \in 1..Cardinality(T) |-> some(n)]
  BY DEF Ranked
<1>5. RankedBy(T, ByVotes(T)) = [n \in 1..Cardinality(T) |-> other(n)]
  BY DEF RankedBy
<1>6. ranked = RankedBy(T, ByVotes(T))
  <2> HIDE DEF some, other, ranked
  <2> QED BY <1>3, <1>4, <1>5
<1> QED BY <1>1, <1>6, RankedSorts DEF T

(* What a fused list is: one version of every chunk of the lists, those    *)
(* with more votes first.                                                  *)
Fuses(f, lists) ==
    /\ f \in Seq(Made)
    /\ \A n \in 1..Len(f) : \E p \in Places(lists) : f[n] = At(lists, p)
    /\ \A p \in Places(lists) : \E n \in 1..Len(f) : f[n].id = At(lists, p).id
    /\ \A m, n \in 1..Len(f) : f[m].id = f[n].id => m = n
    /\ \A m, n \in 1..Len(f) : Votes(lists, f[m].id) > Votes(lists, f[n].id) => m < n

LEMMA FusionFuses ==
    ASSUME NEW lists \in Lists(Made)
    PROVE  Fuses(ReciprocalRankFusion(lists), lists)
<1> DEFINE T == ScoreTable(lists)
           N == Cardinality(T)
           ranked == Ranked(T, Ahead)
           f == ReciprocalRankFusion(lists)
<1>1. /\ \A row : row \in T <=> \E p \in Places(lists) : row = Scored(lists, At(lists, p).id)
      /\ IsFiniteSet(T)
      /\ StrictOrder(T, ByVotes(T))
  BY TableIs
<1>2. N \in Nat
  BY <1>1, FS_CardinalityType
<1>3. Sorts(ranked, T, ByVotes(T))
  BY TableSorts
<1>4. f = [n \in DOMAIN ranked |-> Longest(lists, ranked[n].id)]
  BY DEF ReciprocalRankFusion
<1> HIDE DEF T, ranked, f
<1>5. /\ ranked \in [1..N -> T]
      /\ \A row \in T : \E n \in 1..N : ranked[n] = row
      /\ \A m, n \in 1..N : m < n => Ahead(ranked[m], ranked[n])
      /\ \A m, n \in 1..N : m < n => ranked[m] # ranked[n]
  BY <1>1, <1>3 DEF Sorts, ByVotes, StrictOrder
<1>6. ASSUME NEW n \in 1..N
      PROVE  /\ ranked[n] = Scored(lists, ranked[n].id)
             /\ \E p \in Places(lists) : f[n] = At(lists, p) /\ At(lists, p).id = ranked[n].id
  <2>1. PICK q \in Places(lists) : ranked[n] = Scored(lists, At(lists, q).id)
    BY <1>1, <1>5
  <2>2. ranked[n].id = At(lists, q).id
    BY <2>1 DEF Scored
  <2>3. \E p \in Occurrences(lists, ranked[n].id) : Longest(lists, ranked[n].id) = At(lists, p)
    BY <2>2, LongestExists
  <2>4. f[n] = Longest(lists, ranked[n].id)
    BY <1>4, <1>5
  <2> QED BY <2>1, <2>2, <2>3, <2>4 DEF Occurrences
<1>7. \A n \in 1..N : f[n] \in Made /\ f[n].id = ranked[n].id
  BY <1>6, PlacesAre
<1>8. f = [n \in 1..N |-> f[n]]
  BY <1>4, <1>5
<1>9. f \in Seq(Made) /\ Len(f) = N
  BY <1>2, <1>7, <1>8
<1>10. ASSUME NEW p \in Places(lists) PROVE \E n \in 1..N : f[n].id = At(lists, p).id
  <2>1. Scored(lists, At(lists, p).id) \in T
    BY <1>1
  <2>2. PICK n \in 1..N : ranked[n] = Scored(lists, At(lists, p).id)
    BY <1>5, <2>1
  <2> QED BY <1>7, <2>2 DEF Scored
<1>11. ASSUME NEW m \in 1..N, NEW n \in 1..N, f[m].id = f[n].id PROVE m = n
  <2>1. ranked[m] = ranked[n]
    BY <1>6, <1>7, <1>11
  <2>2. ~(m < n) /\ ~(n < m)
    BY <1>5, <2>1
  <2> QED BY <1>2, <2>2
<1>12. ASSUME NEW m \in 1..N, NEW n \in 1..N,
              Votes(lists, f[m].id) > Votes(lists, f[n].id)
       PROVE  m < n
  <2>1. ranked[m].votes > ranked[n].votes /\ ranked[m].votes \in Nat /\ ranked[n].votes \in Nat
    <3>1. ranked[m] = Scored(lists, f[m].id) /\ ranked[n] = Scored(lists, f[n].id)
      BY <1>6, <1>7
    <3>2. ranked[m].votes = Votes(lists, f[m].id) /\ ranked[n].votes = Votes(lists, f[n].id)
      BY <3>1 DEF Scored
    <3>3. Votes(lists, f[m].id) \in Nat /\ Votes(lists, f[n].id) \in Nat
      BY VotesNumber
    <3> QED BY <1>12, <3>2, <3>3
  <2>2. ~Ahead(ranked[n], ranked[m]) /\ ranked[m] # ranked[n]
    BY <2>1 DEF Ahead
  <2>3. ~(n < m) /\ m # n
    BY <1>5, <2>2
  <2> QED BY <1>2, <2>3
<1> HIDE DEF N
<1>13. Fuses(f, lists)
  BY <1>6, <1>9, <1>10, <1>11, <1>12 DEF Fuses
<1> QED BY <1>13 DEF f

-----------------------------------------------------------------------------
(* The score gate and the cut. *)
LEMMA MaxIs ==
    ASSUME NEW V, V \subseteq Nat, V # {}, IsFiniteSet(V)
    PROVE  Max(V) \in V /\ \A v \in V : Max(V) >= v
<1> DEFINE R == {vw \in V \X V : vw[1] > vw[2]}
<1>1. \A v, w \in V : <<v, w>> \in R <=> v > w
  OBVIOUS
<1>2. StrictOrder(V, R)
  <2> HIDE DEF R
  <2> QED BY <1>1 DEF StrictOrder
<1>3. \E v \in V : \A w \in V : v = w \/ <<v, w>> \in R
  <2> HIDE DEF R
  <2> QED BY <1>2, FirstExists
<1>4. \E v \in V : \A w \in V : v >= w
  <2>1. PICK v \in V : \A w \in V : v = w \/ <<v, w>> \in R
    BY <1>3
  <2>2. ASSUME NEW w \in V PROVE v >= w
    <3>1. v \in Nat /\ w \in Nat /\ (v = w \/ v > w)
      BY <1>1, <2>1
    <3> QED BY <3>1
  <2> QED BY <2>2
<1> QED BY <1>4 DEF Max

LEMMA PartOfItself ==
    ASSUME NEW X, NEW s \in Seq(X) PROVE PartOf(s, s)
<1> DEFINE at == [n \in 1..Len(s) |-> n]
<1>1. at \in [1..Len(s) -> 1..Len(s)]
  OBVIOUS
<1>2. \A m, n \in 1..Len(s) : at[m] = at[n] => m = n
  OBVIOUS
<1>3. \A n \in 1..Len(s) : s[n] = s[at[n]]
  OBVIOUS
<1> HIDE DEF at
<1> QED BY <1>1, <1>2, <1>3 DEF PartOf

LEMMA PartOfPart ==
    ASSUME NEW s, NEW t, NEW u, PartOf(s, t), PartOf(t, u)
    PROVE  PartOf(s, u)
<1>1. PICK at \in [1..Len(s) -> 1..Len(t)] :
         /\ \A m, n \in 1..Len(s) : at[m] = at[n] => m = n
         /\ \A n \in 1..Len(s) : s[n] = t[at[n]]
  BY DEF PartOf
<1>2. PICK to \in [1..Len(t) -> 1..Len(u)] :
         /\ \A m, n \in 1..Len(t) : to[m] = to[n] => m = n
         /\ \A n \in 1..Len(t) : t[n] = u[to[n]]
  BY DEF PartOf
<1> DEFINE both == [n \in 1..Len(s) |-> to[at[n]]]
<1>3. both \in [1..Len(s) -> 1..Len(u)]
  BY <1>1, <1>2
<1>4. \A m, n \in 1..Len(s) : both[m] = both[n] => m = n
  BY <1>1, <1>2
<1>5. \A n \in 1..Len(s) : s[n] = u[both[n]]
  BY <1>1, <1>2
<1> HIDE DEF both
<1> QED BY <1>3, <1>4, <1>5 DEF PartOf

LEMMA PartKeepsDistinct ==
    ASSUME NEW s, NEW t, PartOf(s, t), DistinctParents(t)
    PROVE  DistinctParents(s)
<1>1. PICK at \in [1..Len(s) -> 1..Len(t)] :
         /\ \A m, n \in 1..Len(s) : at[m] = at[n] => m = n
         /\ \A n \in 1..Len(s) : s[n] = t[at[n]]
  BY DEF PartOf
<1> QED BY <1>1 DEF DistinctParents

LEMMA FilterLeaves ==
    ASSUME NEW chunks \in Seq(Made)
    PROVE  /\ FilterByScore(chunks) \in Seq(Made)
           /\ PartOf(FilterByScore(chunks), chunks)
           /\ Len(chunks) > 0 => Len(FilterByScore(chunks)) > 0
<1> DEFINE s == FilterByScore(chunks)
           scored == {i \in DOMAIN chunks : chunks[i].score # NoScore}
           scores == {chunks[i].score : i \in scored}
           top == Max({0} \cup scores)
           K == {i \in DOMAIN chunks : i \in scored => 100 * chunks[i].score >= 45 * top}
<1>1. s = IF top <= 0 THEN chunks ELSE Select(chunks, K)
  BY DEF FilterByScore
<1>2. DOMAIN chunks = 1..Len(chunks) /\ Len(chunks) \in Nat /\ \A i \in DOMAIN chunks : chunks[i] \in Made
  OBVIOUS
<1>3. scored \subseteq 1..Len(chunks) /\ \A i \in scored : chunks[i].score \in Nat
  BY <1>2, MadeIs
<1>4. IsFiniteSet(scores) /\ scores \subseteq Nat
  <2> DEFINE score == [i \in scored |-> chunks[i].score]
  <2>1. IsFiniteSet(scored)
    <3>1. IsFiniteSet(1..Len(chunks))
      BY <1>2, FS_Interval
    <3> HIDE DEF scored
    <3> QED BY <1>3, <3>1, FS_Subset
  <2>2. score \in Surjection(scored, scores)
    BY DEF Surjection
  <2>3. IsFiniteSet(scores)
    <3> HIDE DEF score, scored, scores
    <3> QED BY <2>1, <2>2, FS_Surjection
  <2> QED BY <1>3, <2>3
<1>5. top \in {0} \cup scores
  <2>1. IsFiniteSet({0} \cup scores)
    <3> HIDE DEF scores
    <3> QED BY <1>4, FS_AddElement
  <2> DEFINE V == {0} \cup scores
  <2>2. V \subseteq Nat /\ V # {}
    BY <1>4
  <2> HIDE DEF V
  <2>3. Max(V) \in V
    BY <2>1, <2>2, MaxIs DEF V
  <2> QED BY <2>3 DEF V
<1>6. top \in Nat
  <2> HIDE DEF scores, top
  <2> QED BY <1>4, <1>5
<1>7. CASE top <= 0
  <2>1. s = chunks
    BY <1>1, <1>7
  <2> HIDE DEF s
  <2> QED BY <2>1, PartOfItself DEF s
<1>8. CASE ~(top <= 0)
  <2>1. s = Select(chunks, K) /\ K \in SUBSET DOMAIN chunks
    BY <1>1, <1>8
  <2>2. PICK i \in scored : top = chunks[i].score
    <3> HIDE DEF top
    <3> QED BY <1>5, <1>6, <1>8
  <2>3. i \in K
    <3> HIDE DEF top
    <3> QED BY <1>3, <1>6, <2>2
  <2>4. s \in Seq(Made) /\ PartOf(s, chunks) /\ \E n \in 1..Len(s) : s[n] = chunks[i]
    <3> HIDE DEF s, K
    <3> QED BY <2>1, <2>3, SelectPicks, SelectPart
  <2>5. Len(s) > 0
    <3> HIDE DEF s
    <3>1. Len(s) \in Nat
      BY <2>4
    <3> QED BY <2>4, <3>1
  <2> QED BY <2>4, <2>5
<1> QED BY <1>7, <1>8

LEMMA TopNIs ==
    ASSUME NEW X, NEW s \in Seq(X), NEW limit \in Nat \ {0}
    PROVE  /\ TopN(s, limit) \in Seq(X)
           /\ Len(TopN(s, limit)) = IF Len(s) <= limit THEN Len(s) ELSE limit
           /\ \A i \in 1..Len(TopN(s, limit)) : i \in 1..Len(s) /\ TopN(s, limit)[i] = s[i]
           /\ PartOf(TopN(s, limit), s)
<1> DEFINE t == TopN(s, limit)
           m == Min({limit, Len(s)})
<1>1. Len(s) \in Nat
  OBVIOUS
<1>2. \E x \in {limit, Len(s)} : \A y \in {limit, Len(s)} : x =< y
  BY <1>1
<1>3. m \in {limit, Len(s)} /\ \A y \in {limit, Len(s)} : m =< y
  BY <1>2 DEF Min
<1>4. m = IF Len(s) <= limit THEN Len(s) ELSE limit
  <2> HIDE DEF m
  <2> QED BY <1>1, <1>3
<1>5. m \in 0..Len(s)
  <2> HIDE DEF m
  <2> QED BY <1>1, <1>4
<1>6. t = SubSeq(s, 1, m)
  BY DEF TopN
<1> HIDE DEF t, m
<1>7. t \in Seq(X) /\ Len(t) = m /\ \A i \in 1..m : t[i] = s[i]
  BY <1>1, <1>5, <1>6
<1>8. \A i \in 1..Len(t) : i \in 1..Len(s) /\ t[i] = s[i]
  BY <1>1, <1>5, <1>7
<1>9. PartOf(t, s)
  <2> DEFINE at == [n \in 1..Len(t) |-> n]
  <2>1. at \in [1..Len(t) -> 1..Len(s)]
    BY <1>8
  <2>2. \A i, n \in 1..Len(t) : at[i] = at[n] => i = n
    OBVIOUS
  <2>3. \A n \in 1..Len(t) : t[n] = s[at[n]]
    BY <1>8
  <2> HIDE DEF at
  <2> QED BY <2>1, <2>2, <2>3 DEF PartOf
<1> QED BY <1>4, <1>7, <1>8, <1>9 DEF t

-----------------------------------------------------------------------------
(* Documents become chunks of their own. *)
Snippets == {s \in Seq(Nat) : Len(s) <= MaxSnippets}
DocRow == [id : DocIds, kind : {doc.kind : doc \in Documents}, score : Scores,
           snippets : Snippets, fallback : Nat]

LEMMA PartsAre ==
    ASSUME NEW doc \in DocRow
    PROVE  /\ PartsOf(doc) \in Seq(Made)
           /\ Len(PartsOf(doc)) <= MaxSnippets
           /\ \A i \in DOMAIN PartsOf(doc) : PartsOf(doc)[i].id[1] = doc.id
           /\ \A i, j \in DOMAIN PartsOf(doc) : PartsOf(doc)[i].id = PartsOf(doc)[j].id => i = j
<1>1. ASSUME NEW suffix \in Parts, NEW size \in Nat
      PROVE  Chunk(doc, suffix, size) \in Made /\ Chunk(doc, suffix, size).id[1] = doc.id
  BY DEF Chunk, Made, ChunkOf, DocRow
<1>2. /\ <<"fb", 0>> \in Parts /\ doc.fallback \in Nat
      /\ doc.snippets \in Seq(Nat) /\ Len(doc.snippets) <= MaxSnippets
  BY DEF Parts, DocRow, Snippets
<1>3. ASSUME NEW i \in DOMAIN doc.snippets
      PROVE  <<"hl", i - 1>> \in Parts /\ doc.snippets[i] \in Nat
  <2>1. i - 1 \in Nat /\ doc.snippets[i] \in Nat
    BY <1>2
  <2> QED BY <2>1 DEF Parts
<1>4. CASE doc.kind \in {"Cve", "Erratum"} \/ doc.snippets = <<>>
  <2>1. PartsOf(doc) = <<Chunk(doc, <<"fb", 0>>, doc.fallback)>>
    BY <1>4 DEF PartsOf
  <2>2. /\ Chunk(doc, <<"fb", 0>>, doc.fallback) \in Made
        /\ Chunk(doc, <<"fb", 0>>, doc.fallback).id[1] = doc.id
    BY <1>1, <1>2
  <2>3. PICK c \in Made : c = Chunk(doc, <<"fb", 0>>, doc.fallback) /\ c.id[1] = doc.id
    BY <2>2
  <2>4. PartsOf(doc) = <<c>>
    BY <2>1, <2>3
  <2>5. Len(PartsOf(doc)) = 1 /\ DOMAIN PartsOf(doc) = {1} /\ PartsOf(doc)[1] = c
    BY <2>4
  <2>6. 1 <= MaxSnippets
    BY RanksAssumption
  <2> QED BY <2>3, <2>4, <2>5, <2>6
<1>5. CASE ~(doc.kind \in {"Cve", "Erratum"} \/ doc.snippets = <<>>)
  <2> DEFINE part(i) == Chunk(doc, <<"hl", i - 1>>, doc.snippets[i])
  <2>1. PartsOf(doc) = [i \in DOMAIN doc.snippets |-> part(i)]
    BY <1>5 DEF PartsOf
  <2>2. \A i \in DOMAIN doc.snippets : part(i) \in Made /\ part(i).id[1] = doc.id
    BY <1>1, <1>3
  <2>3. DOMAIN doc.snippets = 1..Len(doc.snippets) /\ Len(doc.snippets) \in Nat
    BY <1>2
  <2>4. \A i, j \in DOMAIN doc.snippets : part(i).id = part(j).id => i = j
    <3> SUFFICES ASSUME NEW i \in DOMAIN doc.snippets, NEW j \in DOMAIN doc.snippets,
                        part(i).id = part(j).id
                 PROVE  i = j
      OBVIOUS
    <3>1. i - 1 = j - 1
      BY DEF Chunk
    <3> QED BY <2>3, <3>1
  <2> HIDE DEF part
  <2>5. PartsOf(doc) \in Seq(Made) /\ Len(PartsOf(doc)) = Len(doc.snippets)
    BY <2>1, <2>2, <2>3
  <2>6. \A i \in DOMAIN PartsOf(doc) : i \in DOMAIN doc.snippets /\ PartsOf(doc)[i] = part(i)
    BY <2>1
  <2> QED BY <1>2, <2>2, <2>4, <2>5, <2>6
<1> QED BY <1>4, <1>5

(* A list of chunks in which no id comes twice, and no rank is too high to *)
(* be told from the others.                                                *)
Rankable(list) ==
    /\ list \in Seq(Made)
    /\ \A i, j \in 1..Len(list) : list[i].id = list[j].id => i = j
    /\ Len(list) <= MaxRank + 1

Once(rows) == \A i, j \in 1..Len(rows) : rows[i].id = rows[j].id => i = j
Answer(rows) == rows \in Seq(DocRow) /\ Once(rows) /\ Len(rows) <= MaxRows

LEMMA ChunksAre ==
    ASSUME NEW docs, Answer(docs)
    PROVE  Rankable(DocsToChunks(docs))
<1> DEFINE parts == [i \in DOMAIN docs |-> PartsOf(docs[i])]
           P == {p \in Places(parts) : At(parts, p).size > 0}
           chunks == DocsToChunks(docs)
           N == Cardinality(P)
<1>1. chunks = Collect(parts, P)
  BY DEF DocsToChunks
<1>2. /\ DOMAIN docs = 1..Len(docs) /\ Len(docs) \in Nat /\ Len(docs) <= MaxRows
      /\ \A i \in DOMAIN docs : docs[i] \in DocRow
  BY DEF Answer
<1>3. \A i \in DOMAIN docs :
         /\ parts[i] \in Seq(Made)
         /\ Len(parts[i]) <= MaxSnippets
         /\ \A r \in DOMAIN parts[i] : parts[i][r].id[1] = docs[i].id
         /\ \A r, s \in DOMAIN parts[i] : parts[i][r].id = parts[i][s].id => r = s
  BY <1>2, PartsAre
<1>4. DOMAIN parts = DOMAIN docs
  OBVIOUS
<1>5. parts \in Lists(Made)
  BY <1>2, <1>3 DEF Lists
<1>6. P \in SUBSET Places(parts)
  OBVIOUS
<1> HIDE DEF P, parts, chunks
<1>7. N \in Nat /\ chunks \in Seq(Made) /\ \E order : Gathers(chunks, parts, P, order)
  BY <1>1, <1>5, <1>6, CollectGathers
<1>8. PICK order : Gathers(chunks, parts, P, order)
  BY <1>7
<1>9. chunks = [n \in 1..N |-> At(parts, order[n])]
  BY <1>8 DEF Gathers
<1>10. Len(chunks) = N
  <2> HIDE DEF N
  <2> QED BY <1>7, <1>9
<1>11. ASSUME NEW p \in P
       PROVE  \E i \in DOMAIN docs : \E r \in DOMAIN parts[i] :
                 p = <<i, r>> /\ At(parts, p) = parts[i][r]
  <2>1. p \in Places(parts)
    BY <1>6
  <2>2. PICK i \in DOMAIN parts : \E r \in DOMAIN parts[i] : p = <<i, r>>
    BY <1>5, <2>1, PlacesAre
  <2>3. PICK r \in DOMAIN parts[i] : p = <<i, r>>
    BY <2>2
  <2> QED BY <1>4, <2>3 DEF At
<1>12. \A p, q \in P : At(parts, p).id = At(parts, q).id => p = q
  <2> SUFFICES ASSUME NEW p \in P, NEW q \in P, At(parts, p).id = At(parts, q).id
               PROVE  p = q
    OBVIOUS
  <2>1. PICK i \in DOMAIN docs : \E r \in DOMAIN parts[i] :
                 p = <<i, r>> /\ At(parts, p) = parts[i][r]
    BY <1>11
  <2>2. PICK r \in DOMAIN parts[i] : p = <<i, r>> /\ At(parts, p) = parts[i][r]
    BY <2>1
  <2>3. PICK j \in DOMAIN docs : \E s \in DOMAIN parts[j] :
                 q = <<j, s>> /\ At(parts, q) = parts[j][s]
    BY <1>11
  <2>4. PICK s \in DOMAIN parts[j] : q = <<j, s>> /\ At(parts, q) = parts[j][s]
    BY <2>3
  <2>5. docs[i].id = docs[j].id
    BY <1>3, <2>2, <2>4
  <2>6. i = j
    BY <1>2, <2>5 DEF Answer, Once
  <2> QED BY <1>3, <2>2, <2>4, <2>6
<1>13. ASSUME NEW m \in 1..N, NEW n \in 1..N, chunks[m].id = chunks[n].id PROVE m = n
  <2>1. order[m] \in P /\ order[n] \in P
    BY <1>8 DEF Gathers
  <2>2. order[m] = order[n]
    BY <1>9, <1>12, <1>13, <2>1
  <2>3. order[m] \in Nat \X Nat
    BY <1>5, <1>6, <2>1, PlacesAre
  <2>4. ~Earlier(order[m], order[n]) /\ ~Earlier(order[n], order[m])
    BY <2>2, <2>3 DEF Earlier
  <2>5. ~(m < n) /\ ~(n < m)
    BY <1>8, <2>4 DEF Gathers
  <2> HIDE DEF N
  <2> QED BY <1>7, <2>5
<1>14. N <= Len(docs) * MaxSnippets
  <2> DEFINE grid == (1..Len(docs)) \X (1..MaxSnippets)
  <2>1. IsFiniteSet(1..Len(docs)) /\ Cardinality(1..Len(docs)) = Len(docs)
    BY <1>2, FS_Interval
  <2>2. IsFiniteSet(1..MaxSnippets) /\ Cardinality(1..MaxSnippets) = MaxSnippets
    BY RanksAssumption, FS_Interval
  <2>3. IsFiniteSet(grid) /\ Cardinality(grid) = Len(docs) * MaxSnippets
    <3>1. PICK A, B : A = 1..Len(docs) /\ B = 1..MaxSnippets
      OBVIOUS
    <3>2. IsFiniteSet(A \X B) /\ Cardinality(A \X B) = Cardinality(A) * Cardinality(B)
      <4>1. IsFiniteSet(A) /\ IsFiniteSet(B)
        BY <2>1, <2>2, <3>1
      <4> QED BY ONLY <4>1, FS_Product
    <3> QED BY <2>1, <2>2, <3>1, <3>2
  <2>4. P \in SUBSET grid
    <3> SUFFICES ASSUME NEW p \in P PROVE p \in grid
      OBVIOUS
    <3>1. PICK i \in DOMAIN docs : \E r \in DOMAIN parts[i] : p = <<i, r>>
      BY <1>11
    <3>2. PICK r \in DOMAIN parts[i] : p = <<i, r>>
      BY <3>1
    <3>3. r \in 1..Len(parts[i]) /\ Len(parts[i]) <= MaxSnippets /\ Len(parts[i]) \in Nat
      BY <1>3
    <3>4. r \in 1..MaxSnippets
      BY <3>3, RanksAssumption
    <3> QED BY <1>2, <3>2, <3>4
  <2> HIDE DEF grid
  <2>5. N <= Cardinality(grid)
    BY <2>3, <2>4, FS_Subset
  <2> QED BY <2>3, <2>5
<1>15. N <= MaxRank + 1
  <2>1. \A a, b, c \in Nat : a <= b => a * c <= b * c
    OBVIOUS
  <2>2. Len(docs) * MaxSnippets <= MaxRows * MaxSnippets
    BY <1>2, <2>1, RanksAssumption
  <2>3. Len(docs) * MaxSnippets \in Nat /\ MaxRows * MaxSnippets \in Nat /\ MaxRank \in Nat
    BY <1>2, RanksAssumption, ScaleAssumption
  <2> HIDE DEF N
  <2> QED BY <1>7, <1>14, <2>2, <2>3, RanksAssumption
<1> HIDE DEF N
<1>16. Rankable(chunks)
  BY <1>7, <1>10, <1>13, <1>15 DEF Rankable
<1> QED BY <1>16 DEF chunks

-----------------------------------------------------------------------------
(* What a query shows, of the chunks its two requests returned.            *)
Shows(c, pool, limit) ==
    /\ c \in Seq(Made)
    /\ DistinctParents(c)
    /\ Len(c) <= limit
    /\ \A n \in 1..Len(c) : c[n] \in pool
    /\ Len(c) = 0 <=> pool = {}

(* A fused list is empty only if the lists are. *)
LEMMA FusedFrom ==
    ASSUME NEW lists \in Lists(Made), NEW f, Fuses(f, lists), NEW pool,
           \A c : c \in pool <=> \E p \in Places(lists) : c = At(lists, p)
    PROVE  /\ \A n \in 1..Len(f) : f[n] \in pool
           /\ Len(f) = 0 <=> pool = {}
<1>1. \A n \in 1..Len(f) : f[n] \in pool
  BY DEF Fuses
<1>2. Len(f) \in Nat
  BY DEF Fuses
<1>3. ASSUME pool # {} PROVE Len(f) # 0
  <2>1. PICK p \in Places(lists) : TRUE
    BY <1>3
  <2>2. PICK n \in 1..Len(f) : f[n].id = At(lists, p).id
    BY <2>1 DEF Fuses
  <2> QED BY <1>2, <2>2
<1>4. ASSUME Len(f) # 0 PROVE pool # {}
  <2>1. 1 \in 1..Len(f)
    BY <1>2, <1>4
  <2> QED BY <1>1, <2>1
<1> QED BY <1>1, <1>3, <1>4

LEMMA DeduplicateKeepsSome ==
    ASSUME NEW s \in Seq(Made)
    PROVE  Len(DeduplicateByParent(s)) = 0 <=> Len(s) = 0
<1> DEFINE t == DeduplicateByParent(s)
<1>1. t \in Seq(Made) /\ PartOf(t, s) /\ Parents(t) = Parents(s)
  BY DeduplicateLeaves
<1> HIDE DEF t
<1>2. Len(s) \in Nat /\ Len(t) \in Nat
  BY <1>1
<1>3. ASSUME Len(s) # 0 PROVE Len(t) # 0
  <2>1. 1 \in 1..Len(s)
    BY <1>2, <1>3
  <2>2. s[1].parent \in Parents(s)
    BY <2>1, ParentsAre
  <2>3. PICK i \in 1..Len(t) : t[i].parent = s[1].parent
    BY <1>1, <2>2, ParentsAre
  <2> QED BY <1>2, <2>3
<1>4. ASSUME Len(t) # 0 PROVE Len(s) # 0
  <2>1. 1 \in 1..Len(t)
    BY <1>2, <1>4
  <2>2. PICK i \in 1..Len(s) : TRUE
    BY <1>1, <2>1 DEF PartOf
  <2> QED BY <1>2, <2>2
<1> QED BY <1>3, <1>4 DEF t

LEMMA PartComesFrom ==
    ASSUME NEW s, NEW t, PartOf(s, t), NEW pool, \A n \in 1..Len(t) : t[n] \in pool
    PROVE  \A n \in 1..Len(s) : s[n] \in pool
BY DEF PartOf

(* The chunks of two lists are what stands at their places.                *)
LEMMA PlacesOfPair ==
    ASSUME NEW s \in Seq(Made), NEW t \in Seq(Made)
    PROVE  /\ <<s, t>> \in Lists(Made)
           /\ \A c : c \in ToSet(s) \cup ToSet(t) <=>
                 \E p \in Places(<<s, t>>) : c = At(<<s, t>>, p)
<1> DEFINE lists == <<s, t>>
<1>1. lists \in Lists(Made) /\ DOMAIN lists = {1, 2} /\ lists[1] = s /\ lists[2] = t
  BY DEF Lists
<1> HIDE DEF lists
<1>2. \A p : p \in Places(lists) <=>
         \E l \in DOMAIN lists : \E r \in DOMAIN lists[l] : p = <<l, r>>
  BY <1>1, PlacesAre
<1>3. \A c : c \in ToSet(s) \cup ToSet(t) <=>
         \E l \in {1, 2} : \E r \in DOMAIN lists[l] : c = lists[l][r]
  BY <1>1 DEF ToSet
<1>4. ASSUME NEW c, c \in ToSet(s) \cup ToSet(t)
      PROVE  \E p \in Places(lists) : c = At(lists, p)
  <2>1. PICK l \in {1, 2} : \E r \in DOMAIN lists[l] : c = lists[l][r]
    BY <1>3, <1>4
  <2>2. PICK r \in DOMAIN lists[l] : c = lists[l][r]
    BY <2>1
  <2>3. <<l, r>> \in Places(lists) /\ At(lists, <<l, r>>) = lists[l][r]
    BY <1>1, <1>2 DEF At
  <2> QED BY <2>2, <2>3
<1>5. ASSUME NEW p \in Places(lists) PROVE At(lists, p) \in ToSet(s) \cup ToSet(t)
  <2>1. PICK l \in {1, 2} : \E r \in DOMAIN lists[l] : p = <<l, r>>
    BY <1>1, <1>2
  <2>2. PICK r \in DOMAIN lists[l] : p = <<l, r>>
    BY <2>1
  <2>3. At(lists, p) = lists[l][r]
    BY <2>2 DEF At
  <2> QED BY <1>3, <2>3
<1>6. \A c : c \in ToSet(s) \cup ToSet(t) <=> \E p \in Places(lists) : c = At(lists, p)
  BY <1>4, <1>5
<1> QED BY <1>1, <1>6 DEF lists

LEMMA OneQueryShows ==
    ASSUME NEW response, NEW limit \in Nat \ {0},
           Answer(response.main), Answer(response.dep)
    PROVE  Shows(PortalSearchOf(response, limit).chunks,
                 ToSet(DocsToChunks(response.main)) \cup ToSet(DocsToChunks(response.dep)),
                 limit)
<1> DEFINE main == DocsToChunks(response.main)
           dep == DocsToChunks(response.dep)
           pool == ToSet(main) \cup ToSet(dep)
           fused == ReciprocalRankFusion(<<main, dep>>)
           once == DeduplicateByParent(fused)
           good == FilterByScore(once)
           top == TopN(good, limit)
<1>1. main \in Seq(Made) /\ dep \in Seq(Made)
  BY ChunksAre DEF Rankable
<1>2. PortalSearchOf(response, limit).chunks = top
  BY DEF PortalSearchOf
<1> HIDE DEF main, dep
<1>3. /\ <<main, dep>> \in Lists(Made)
      /\ \A c : c \in pool <=> \E p \in Places(<<main, dep>>) : c = At(<<main, dep>>, p)
  BY <1>1, PlacesOfPair
<1>4. Fuses(fused, <<main, dep>>)
  BY <1>3, FusionFuses
<1> HIDE DEF pool, fused
<1>5. fused \in Seq(Made)
  BY <1>4 DEF Fuses
<1>6. (\A n \in 1..Len(fused) : fused[n] \in pool) /\ (Len(fused) = 0 <=> pool = {})
  BY <1>3, <1>4, FusedFrom
<1>7. /\ once \in Seq(Made) /\ PartOf(once, fused) /\ DistinctParents(once)
      /\ Len(once) = 0 <=> Len(fused) = 0
  BY <1>5, DeduplicateLeaves, DeduplicateKeepsSome
<1> HIDE DEF once
<1>8. good \in Seq(Made) /\ PartOf(good, once) /\ (Len(once) > 0 => Len(good) > 0)
  BY <1>7, FilterLeaves
<1> HIDE DEF good
<1>9. /\ top \in Seq(Made) /\ PartOf(top, good)
      /\ Len(top) = IF Len(good) <= limit THEN Len(good) ELSE limit
  BY <1>8, TopNIs
<1> HIDE DEF top
<1>10. DistinctParents(top)
  BY <1>7, <1>8, <1>9, PartKeepsDistinct
<1>11. \A n \in 1..Len(top) : top[n] \in pool
  <2>1. \A n \in 1..Len(once) : once[n] \in pool
    BY <1>6, <1>7, PartComesFrom
  <2>2. \A n \in 1..Len(good) : good[n] \in pool
    BY <1>8, <2>1, PartComesFrom
  <2> QED BY <1>9, <2>2, PartComesFrom
<1>12. Len(once) \in Nat /\ Len(good) \in Nat /\ Len(top) \in Nat
  BY <1>7, <1>8, <1>9
<1>13. Len(top) <= limit
  BY <1>9, <1>12
<1>14. ASSUME pool # {} PROVE Len(top) # 0
  BY <1>6, <1>7, <1>8, <1>9, <1>12, <1>14
<1>15. ASSUME Len(top) # 0 PROVE pool # {}
  <2>1. 1 \in 1..Len(top)
    BY <1>12, <1>15
  <2> QED BY <1>11, <2>1
<1>16. Shows(top, pool, limit)
  BY <1>9, <1>10, <1>11, <1>13, <1>14, <1>15 DEF Shows
<1> QED BY <1>2, <1>16 DEF pool, main, dep

-----------------------------------------------------------------------------
(* The responses: documents of the index, each once.                       *)
Response == {r \in [main : Seq(DocRow), dep : Seq(DocRow)] : Answer(r.main) /\ Answer(r.dep)}

IInv == responses \in [1..Queries -> Response]

LEMMA OneRowMore ==
    ASSUME NEW rows, Answer(rows), Len(rows) < MaxRows, NEW row \in DocRow,
           \A i \in DOMAIN rows : rows[i].id # row.id
    PROVE  Append(rows, row) \in Seq(DocRow) /\ Answer(Append(rows, row))
<1> DEFINE longer == Append(rows, row)
<1>1. /\ longer \in Seq(DocRow) /\ Len(longer) = Len(rows) + 1 /\ Len(rows) \in Nat
      /\ \A i \in 1..Len(rows) : longer[i] = rows[i]
      /\ longer[Len(rows) + 1] = row
      /\ DOMAIN rows = 1..Len(rows)
  BY DEF Answer
<1> HIDE DEF longer
<1>2. \A i \in 1..Len(longer) : i \in 1..Len(rows) \/ i = Len(rows) + 1
  BY <1>1
<1>3. Once(longer)
  BY <1>1, <1>2 DEF Answer, Once
<1>4. Len(longer) <= MaxRows
  BY <1>1, RanksAssumption
<1> QED BY <1>1, <1>3, <1>4 DEF Answer, longer

LEMMA InitTypes == Init => IInv
<1> SUFFICES ASSUME Init PROVE IInv
  OBVIOUS
<1>1. Answer(<<>>)
  <2>1. <<>> \in Seq(DocRow) /\ Len(<<>>) = 0
    OBVIOUS
  <2> QED BY <2>1, RanksAssumption DEF Answer, Once
<1>2. [main |-> <<>>, dep |-> <<>>] \in Response
  BY <1>1 DEF Response, Answer
<1> QED BY <1>2 DEF Init, IInv

LEMMA StepTypes == IInv /\ [Next]_responses => IInv'
<1> SUFFICES ASSUME IInv, [Next]_responses PROVE IInv'
  OBVIOUS
<1>1. CASE UNCHANGED responses
  BY <1>1 DEF IInv
<1>2. ASSUME NEW q \in 1..Queries, NEW side \in {"main", "dep"}, NEW doc \in Documents,
             NEW score \in Scores, NEW text \in Texts, Receive(q, side, doc, score, text)
      PROVE  IInv'
  <2> DEFINE rows == responses[q][side]
             row == [id |-> doc.id, kind |-> doc.kind, score |-> score,
                     snippets |-> text.snippets, fallback |-> text.fallback]
             longer == Append(rows, row)
  <2>1. row \in DocRow /\ row.id = doc.id
    BY TextsAssumption DEF DocRow, DocIds, Snippets
  <2>2. responses[q] \in Response /\ Answer(rows)
    BY DEF IInv, Response
  <2>3. /\ Len(rows) < MaxRows
        /\ \A i \in DOMAIN rows : rows[i].id # row.id
        /\ responses' = [responses EXCEPT ![q][side] = longer]
    BY <1>2 DEF Receive
  <2> HIDE DEF row, rows
  <2>4. longer \in Seq(DocRow) /\ Answer(longer)
    BY <2>1, <2>2, <2>3, OneRowMore
  <2>5. PICK r : r = [responses[q] EXCEPT ![side] = longer]
    OBVIOUS
  <2> HIDE DEF longer
  <2>6. r \in Response
    BY <2>2, <2>4, <2>5 DEF Response
  <2>7. responses' = [responses EXCEPT ![q] = r]
    BY <2>3, <2>5
  <2> QED BY <2>6, <2>7 DEF IInv
<1> QED BY <1>1, <1>2 DEF Next

(* Solr's responses hold documents of the index, each once.                *)
THEOREM TypeCorrect == Spec => []IInv
BY InitTypes, StepTypes, PTL DEF Spec

-----------------------------------------------------------------------------
(* What a call of n queries shows. *)
Pool(q) == ToSet(MainChunks(q)) \cup ToSet(DepChunks(q))

LEMMA QueryShows ==
    ASSUME IInv, NEW q \in 1..Queries, NEW limit \in 1..MaxLimit
    PROVE  Shows(PortalSearchOf(responses[q], limit).chunks, Pool(q), limit)
<1>1. Answer(responses[q].main) /\ Answer(responses[q].dep)
  BY DEF IInv, Response
<1>2. limit \in Nat \ {0}
  BY QueriesAssumption
<1> QED BY <1>1, <1>2, OneQueryShows DEF Pool, MainChunks, DepChunks

(* The lists several queries are fused from, and what becomes of them.     *)
LEMMA ManyQueries ==
    ASSUME IInv, NEW n \in 1..Queries, n # 1, NEW limit \in 1..MaxLimit
    PROVE  /\ FusedLists(n, limit) \in Lists(Made)
           /\ DOMAIN FusedLists(n, limit) = 1..n
           /\ \A q \in 1..n : Shows(FusedLists(n, limit)[q], Pool(q), limit)
           /\ Result(n, limit).chunks =
                 TopN(DeduplicateByParent(ReciprocalRankFusion(FusedLists(n, limit))), limit)
<1> DEFINE some == SubSeq(responses, 1, n)
           results == [q \in DOMAIN some |-> PortalSearchOf(some[q], limit)]
           lists == [q \in DOMAIN results |-> results[q].chunks]
           search(r) == PortalSearchOf(r, limit)
<1>1. n \in Nat /\ 1..n \subseteq 1..Queries
  BY QueriesAssumption
<1>2. responses \in Seq(Response) /\ Len(responses) = Queries
  BY QueriesAssumption DEF IInv
<1>3. DOMAIN some = 1..n /\ \A q \in 1..n : some[q] = responses[q]
  BY <1>1, <1>2
<1> HIDE DEF some
<1>4. lists = [q \in 1..n |-> search(responses[q]).chunks]
  <2> HIDE DEF search
  <2>1. results = [q \in 1..n |-> search(responses[q])]
    BY <1>3 DEF search
  <2> HIDE DEF results
  <2> QED BY <2>1
<1>5. FusedLists(n, limit) = lists
  BY <1>4 DEF FusedLists
<1>6. Result(n, limit).chunks = TopN(DeduplicateByParent(ReciprocalRankFusion(lists)), limit)
  BY DEF Result, MultiQuerySearchOf, some
<1> HIDE DEF lists, search
<1>7. \A q \in 1..n : lists[q] = search(responses[q]).chunks
  BY <1>4
<1>8. ASSUME NEW q \in 1..n PROVE Shows(lists[q], Pool(q), limit)
  <2>1. q \in 1..Queries
    BY <1>1
  <2> QED BY <1>7, <2>1, QueryShows DEF search
<1>9. lists \in Lists(Made) /\ DOMAIN lists = 1..n
  <2>1. \A q \in 1..n : lists[q] \in Seq(Made)
    BY <1>8 DEF Shows
  <2>2. DOMAIN lists = 1..n /\ lists = [q \in 1..n |-> lists[q]]
    BY <1>4
  <2> QED BY <1>1, <2>1, <2>2 DEF Lists
<1> QED BY <1>5, <1>6, <1>8, <1>9

LEMMA AnswerShows ==
    ASSUME IInv, NEW n \in 1..Queries, NEW limit \in 1..MaxLimit
    PROVE  Shows(Result(n, limit).chunks, AllChunks(n), limit)
<1>1. AllChunks(n) = UNION {Pool(q) : q \in 1..n}
  BY DEF AllChunks, Pool
<1>2. CASE n = 1
  <2>1. AllChunks(n) = Pool(1)
    BY <1>1, <1>2
  <2>2. Result(n, limit).chunks = PortalSearchOf(responses[1], limit).chunks
    BY <1>2 DEF Result
  <2> QED BY <1>2, <2>1, <2>2, QueryShows
<1>3. CASE n # 1
  <2> DEFINE lists == FusedLists(n, limit)
             fused == ReciprocalRankFusion(lists)
             once == DeduplicateByParent(fused)
             top == TopN(once, limit)
             pool == {At(lists, p) : p \in Places(lists)}
  <2>1. /\ lists \in Lists(Made) /\ DOMAIN lists = 1..n
        /\ \A q \in 1..n : Shows(lists[q], Pool(q), limit)
        /\ Result(n, limit).chunks = top
    BY <1>3, ManyQueries
  <2> HIDE DEF lists
  <2>2. \A p : p \in Places(lists) <=>
           \E l \in DOMAIN lists : \E r \in DOMAIN lists[l] : p = <<l, r>>
    BY <2>1, PlacesAre
  <2>3. \A q \in 1..n : DOMAIN lists[q] = 1..Len(lists[q])
    BY <2>1 DEF Lists
  <2>4. pool \subseteq AllChunks(n)
    <3> SUFFICES ASSUME NEW p \in Places(lists) PROVE At(lists, p) \in AllChunks(n)
      OBVIOUS
    <3>1. PICK l \in 1..n : \E r \in DOMAIN lists[l] : p = <<l, r>>
      BY <2>1, <2>2
    <3>2. PICK r \in 1..Len(lists[l]) : p = <<l, r>>
      BY <2>3, <3>1
    <3>3. At(lists, p) = lists[l][r]
      BY <3>2 DEF At
    <3> QED BY <1>1, <2>1, <3>3 DEF Shows
  <2>5. AllChunks(n) # {} => pool # {}
    <3> SUFFICES ASSUME AllChunks(n) # {} PROVE pool # {}
      OBVIOUS
    <3>1. PICK q \in 1..n : Pool(q) # {}
      BY <1>1
    <3>2. Len(lists[q]) # 0 /\ Len(lists[q]) \in Nat
      BY <2>1, <3>1 DEF Shows
    <3>3. 1 \in DOMAIN lists[q]
      BY <2>3, <3>2
    <3>4. <<q, 1>> \in Places(lists)
      BY <2>1, <2>2, <3>3
    <3> QED BY <3>4
  <2>6. Fuses(fused, lists)
    BY <2>1, FusionFuses
  <2>7. \A c : c \in pool <=> \E p \in Places(lists) : c = At(lists, p)
    OBVIOUS
  <2> HIDE DEF fused, pool
  <2>8. (\A i \in 1..Len(fused) : fused[i] \in pool) /\ (Len(fused) = 0 <=> pool = {})
    BY <2>1, <2>6, <2>7, FusedFrom
  <2>9. fused \in Seq(Made)
    BY <2>6 DEF Fuses
  <2>10. /\ once \in Seq(Made) /\ PartOf(once, fused) /\ DistinctParents(once)
         /\ Len(once) = 0 <=> Len(fused) = 0
    BY <2>9, DeduplicateLeaves, DeduplicateKeepsSome
  <2> HIDE DEF once
  <2>11. limit \in Nat \ {0}
    BY QueriesAssumption
  <2>12. /\ top \in Seq(Made) /\ PartOf(top, once)
         /\ Len(top) = IF Len(once) <= limit THEN Len(once) ELSE limit
    BY <2>10, <2>11, TopNIs
  <2> HIDE DEF top
  <2>13. DistinctParents(top)
    BY <2>10, <2>12, PartKeepsDistinct
  <2>14. \A i \in 1..Len(top) : top[i] \in AllChunks(n)
    <3>1. \A i \in 1..Len(once) : once[i] \in pool
      BY <2>8, <2>10, PartComesFrom
    <3>2. \A i \in 1..Len(top) : top[i] \in pool
      BY <2>12, <3>1, PartComesFrom
    <3> QED BY <2>4, <3>2
  <2>15. Len(top) \in Nat /\ Len(once) \in Nat
    BY <2>10, <2>12
  <2>16. Len(top) <= limit /\ (Len(top) = 0 <=> Len(once) = 0)
    BY <2>11, <2>12, <2>15
  <2>17. Len(top) = 0 <=> AllChunks(n) = {}
    BY <2>4, <2>5, <2>8, <2>10, <2>16
  <2>18. Shows(top, AllChunks(n), limit)
    BY <2>12, <2>13, <2>14, <2>16, <2>17 DEF Shows
  <2> QED BY <2>1, <2>18
<1> QED BY <1>2, <1>3

(* The score gate and the cut never empty an answer: "No results found" is *)
(* the answer only if no response holds a chunk.                           *)
THEOREM EmptyCorrect == Spec => []EmptyOnlyIfNothingFound
<1>1. IInv => EmptyOnlyIfNothingFound
  <2> SUFFICES ASSUME IInv, NEW n \in 1..Queries, NEW limit \in 1..MaxLimit
               PROVE  Result(n, limit).chunks = <<>> <=> AllChunks(n) = {}
    BY DEF EmptyOnlyIfNothingFound
  <2>1. PICK c : c = Result(n, limit).chunks
    OBVIOUS
  <2>2. Shows(c, AllChunks(n), limit)
    BY <2>1, AnswerShows
  <2>3. c \in Seq(Made) /\ (Len(c) = 0 <=> AllChunks(n) = {})
    BY <2>2 DEF Shows
  <2>4. c = <<>> <=> Len(c) = 0
    BY <2>3
  <2> QED BY <2>1, <2>3, <2>4
<1> QED BY <1>1, TypeCorrect, PTL

(* Whatever comes back from whichever request, an answer shows at most one *)
(* chunk of a document, only chunks that came back, and no more than asked.*)
THEOREM PlacesCorrect == Spec => []OnePlacePerDocument
<1>1. IInv => OnePlacePerDocument
  <2> SUFFICES ASSUME IInv, NEW n \in 1..Queries, NEW limit \in 1..MaxLimit
               PROVE  LET chunks == Result(n, limit).chunks
                      IN  /\ \A i, j \in DOMAIN chunks :
                                chunks[i].parent = chunks[j].parent => i = j
                          /\ ToSet(chunks) \subseteq AllChunks(n)
                          /\ Len(chunks) <= limit
    BY DEF OnePlacePerDocument
  <2>1. PICK c : c = Result(n, limit).chunks
    OBVIOUS
  <2>2. Shows(c, AllChunks(n), limit)
    BY <2>1, AnswerShows
  <2>3. DOMAIN c = 1..Len(c)
    BY <2>2 DEF Shows
  <2> QED BY <2>1, <2>2, <2>3 DEF Shows, DistinctParents, ToSet
<1> QED BY <1>1, TypeCorrect, PTL

-----------------------------------------------------------------------------
(* What a multi-query search loses. *)
LEMMA FusionKeepsParents ==
    ASSUME NEW lists \in Lists(Made), NEW f, Fuses(f, lists), NEW l \in DOMAIN lists
    PROVE  Parents(lists[l]) \subseteq Parents(f)
<1> SUFFICES ASSUME NEW p \in Parents(lists[l]) PROVE p \in Parents(f)
  OBVIOUS
<1>1. lists[l] \in Seq(Made) /\ f \in Seq(Made)
  BY DEF Lists, Fuses
<1>2. PICK i \in 1..Len(lists[l]) : lists[l][i].parent = p
  BY <1>1, ParentsAre
<1>3. <<l, i>> \in Places(lists) /\ At(lists, <<l, i>>) = lists[l][i]
  BY <1>1, PlacesAre DEF At
<1>4. PICK n \in 1..Len(f) : f[n].id = lists[l][i].id
  BY <1>3 DEF Fuses
<1>5. f[n] \in Made /\ lists[l][i] \in Made
  BY <1>1
<1>6. f[n].parent = p
  BY <1>2, <1>4, <1>5, MadeIs
<1> QED BY <1>1, <1>6, ParentsAre

LEMMA CutFills ==
    ASSUME NEW s \in Seq(Made), DistinctParents(s), NEW limit \in Nat \ {0}
    PROVE  \/ Cardinality(Parents(TopN(s, limit))) = limit
           \/ Parents(TopN(s, limit)) = Parents(s)
<1> DEFINE t == TopN(s, limit)
<1>1. /\ t \in Seq(Made) /\ Len(s) \in Nat
      /\ Len(t) = IF Len(s) <= limit THEN Len(s) ELSE limit
      /\ \A i \in 1..Len(t) : i \in 1..Len(s) /\ t[i] = s[i]
  BY TopNIs
<1> HIDE DEF t
<1>2. CASE Len(s) <= limit
  <2>1. Len(t) = Len(s) /\ \A i \in 1..Len(s) : t[i] = s[i]
    BY <1>1, <1>2
  <2>2. \A p : p \in Parents(t) <=> p \in Parents(s)
    BY <1>1, <2>1, ParentsAre
  <2> QED BY <2>2 DEF t
<1>3. CASE ~(Len(s) <= limit)
  <2> DEFINE parent == [i \in 1..limit |-> t[i].parent]
  <2>1. Len(t) = limit
    BY <1>1, <1>3
  <2>2. \A p : p \in Parents(t) <=> \E i \in 1..limit : t[i].parent = p
    BY <1>1, <2>1, ParentsAre
  <2>3. \A i, j \in 1..limit : t[i].parent = t[j].parent => i = j
    BY <1>1, <2>1 DEF DistinctParents
  <2>4. parent \in Bijection(1..limit, Parents(t))
    BY <2>2, <2>3 DEF Bijection, Injection, IsInjective, Surjection
  <2>5. IsFiniteSet(1..limit) /\ Cardinality(1..limit) = limit
    BY FS_Interval
  <2> HIDE DEF parent
  <2>6. Cardinality(Parents(t)) = limit
    <3>1. PICK A : A = 1..limit
      OBVIOUS
    <3>2. IsFiniteSet(A) /\ Cardinality(A) = limit /\ parent \in Bijection(A, Parents(t))
      BY <2>4, <2>5, <3>1
    <3>3. Cardinality(Parents(t)) = Cardinality(A)
      BY ONLY <3>2, FS_Bijection DEF ExistsBijection
    <3> QED BY <3>2, <3>3
  <2> QED BY <2>6 DEF t
<1> QED BY <1>2, <1>3

(* Whatever a query of a multi-query search would show is in the answer,   *)
(* unless the answer is full.                                              *)
THEOREM DocumentsCorrect == Spec => []FusionLosesNoDocument
<1>1. IInv => FusionLosesNoDocument
  <2> SUFFICES ASSUME IInv, NEW n \in 1..Queries, NEW limit \in 1..MaxLimit, n # 1
               PROVE  \/ Cardinality(Parents(Result(n, limit).chunks)) = limit
                      \/ \A l \in DOMAIN FusedLists(n, limit) :
                            Parents(FusedLists(n, limit)[l]) \subseteq
                                Parents(Result(n, limit).chunks)
    BY DEF FusionLosesNoDocument
  <2> DEFINE lists == FusedLists(n, limit)
             fused == ReciprocalRankFusion(lists)
             once == DeduplicateByParent(fused)
             top == TopN(once, limit)
  <2>1. lists \in Lists(Made) /\ Result(n, limit).chunks = top
    BY ManyQueries
  <2> HIDE DEF lists
  <2>2. Fuses(fused, lists)
    BY <2>1, FusionFuses
  <2> HIDE DEF fused
  <2>3. \A l \in DOMAIN lists : Parents(lists[l]) \subseteq Parents(fused)
    BY <2>1, <2>2, FusionKeepsParents
  <2>4. fused \in Seq(Made)
    BY <2>2 DEF Fuses
  <2>5. once \in Seq(Made) /\ DistinctParents(once) /\ Parents(once) = Parents(fused)
    BY <2>4, DeduplicateLeaves
  <2> HIDE DEF once
  <2>6. limit \in Nat \ {0}
    BY QueriesAssumption
  <2>7. Cardinality(Parents(top)) = limit \/ Parents(top) = Parents(once)
    BY <2>5, <2>6, CutFills
  <2> HIDE DEF top
  <2> QED BY <2>1, <2>3, <2>5, <2>7 DEF lists
<1> QED BY <1>1, TypeCorrect, PTL

-----------------------------------------------------------------------------
(* Consensus.  A higher rank is a greater vote, the divisions being exact. *)
LEMMA VoteDecreases ==
    ASSUME NEW r \in 1..MaxRank + 1, NEW s \in 1..MaxRank + 1, r < s
    PROVE  Vote(r) > Vote(s)
<1> DEFINE d == RRF_K + r - 1
           e == RRF_K + s - 1
<1>1. /\ r - 1 \in 0..MaxRank /\ s - 1 \in 0..MaxRank
      /\ d = RRF_K + (r - 1) /\ e = RRF_K + (s - 1)
      /\ d \in Nat \ {0} /\ e \in Nat \ {0} /\ d < e
  BY ScaleAssumption
<1>2. Scale % d = 0 /\ Scale % e = 0 /\ Scale \in Nat \ {0}
  BY <1>1, ScaleAssumption
<1>3. Vote(r) = Scale \div d /\ Vote(s) = Scale \div e
  BY DEF Vote
<1>4. Vote(r) \in Nat /\ Vote(s) \in Nat
  BY VoteNumber
<1> HIDE DEF d, e
<1>5. ASSUME NEW m \in Nat, NEW n \in Nat \ {0}, NEW q, m % n = 0, q = m \div n
      PROVE  m = n * q
  BY <1>5
<1>6. PICK x, y : x = Vote(r) /\ y = Vote(s)
  OBVIOUS
<1>7. Scale = d * x /\ Scale = e * y
  <2>1. x = Scale \div d /\ y = Scale \div e
    BY <1>3, <1>6
  <2> QED BY <1>1, <1>2, <1>5, <2>1
<1>8. x \in Nat /\ y \in Nat /\ y # 0
  BY <1>1, <1>2, <1>4, <1>6, <1>7
<1>9. ASSUME x <= y PROVE FALSE
  <2>1. d * x <= d * y
    BY <1>1, <1>8, <1>9
  <2>2. e * y = d * y + (e - d) * y /\ (e - d) * y > 0
    BY <1>1, <1>8
  <2> QED BY <1>1, <1>7, <1>8, <2>1, <2>2
<1> QED BY <1>6, <1>8, <1>9

(* What a list without repetitions gives to an id. *)
LEMMA OneVote ==
    ASSUME NEW list, Rankable(list), NEW id
    PROVE  /\ \A r \in 1..Len(list) : list[r].id = id => VotesIn(list, id) = Vote(r)
           /\ id \notin Ids(list) => VotesIn(list, id) = 0
<1> DEFINE given == Given(list, id)
           S == DOMAIN list
<1>1. /\ IsFiniteSet(S) /\ given \in [S -> Nat]
      /\ VotesIn(list, id) = SumFunction(given)
      /\ S = 1..Len(list)
  BY VotesInNumber DEF Rankable
<1>2. \A r \in S : given[r] = IF list[r].id = id THEN Vote(r) ELSE 0
  BY DEF Given
<1> HIDE DEF given
<1>3. ASSUME NEW r \in S, list[r].id = id PROVE VotesIn(list, id) = Vote(r)
  <2>1. \A x \in S : x # r => given[x] = 0
    BY <1>1, <1>2, <1>3 DEF Rankable
  <2>2. SumFunction(given) = given[r]
    <3> HIDE DEF S
    <3> QED BY <1>1, <2>1, SumSingle
  <2> QED BY <1>1, <1>2, <1>3, <2>2
<1>4. ASSUME id \notin Ids(list) PROVE VotesIn(list, id) = 0
  <2>1. \A x \in S : given[x] = 0
    BY <1>2, <1>4 DEF Ids
  <2>2. Sums(given)[S] = 0 /\ DOMAIN given = S
    <3> HIDE DEF S
    <3>1. S \in SUBSET S
      OBVIOUS
    <3> QED BY <1>1, <2>1, <3>1, SumsOfNothing
  <2> QED BY <1>1, <2>2, SumIsTotal
<1> QED BY <1>1, <1>3, <1>4

LEMMA RankInIs ==
    ASSUME NEW X, NEW list \in Seq(X), NEW id \in Ids(list)
    PROVE  RankIn(list, id) \in 1..Len(list) /\ list[RankIn(list, id)].id = id
<1>1. \E i \in DOMAIN list : list[i].id = id
  BY DEF Ids
<1>2. DOMAIN list = 1..Len(list)
  OBVIOUS
<1> QED BY <1>1, <1>2 DEF RankIn

Prefer(lists, a, b) ==
    \A l \in DOMAIN lists :
        b \in Ids(lists[l]) =>
            a \in Ids(lists[l]) /\ RankIn(lists[l], a) < RankIn(lists[l], b)

LEMMA AgreementVotes ==
    ASSUME NEW lists \in Lists(Made), \A l \in DOMAIN lists : Rankable(lists[l]),
           NEW a, NEW b, Prefer(lists, a, b), NEW l \in DOMAIN lists, b \in Ids(lists[l])
    PROVE  Votes(lists, a) > Votes(lists, b)
<1> DEFINE for(id) == [k \in DOMAIN lists |-> VotesIn(lists[k], id)]
           S == DOMAIN lists
<1>1. /\ IsFiniteSet(S) /\ for(a) \in [S -> Nat] /\ for(b) \in [S -> Nat]
      /\ Votes(lists, a) \in Nat /\ Votes(lists, b) \in Nat
  BY VotesNumber
<1>2. Votes(lists, a) = SumFunction(for(a)) /\ Votes(lists, b) = SumFunction(for(b))
  BY DEF Votes
<1>3. ASSUME NEW k \in S, b \in Ids(lists[k]) PROVE VotesIn(lists[k], b) < VotesIn(lists[k], a)
  <2>1. lists[k] \in Seq(Made) /\ Rankable(lists[k]) /\ Len(lists[k]) <= MaxRank + 1
    BY DEF Rankable
  <2>2. a \in Ids(lists[k]) /\ RankIn(lists[k], a) < RankIn(lists[k], b)
    BY <1>3 DEF Prefer
  <2>3. PICK r, s : r = RankIn(lists[k], a) /\ s = RankIn(lists[k], b)
    OBVIOUS
  <2>4. /\ r \in 1..Len(lists[k]) /\ lists[k][r].id = a
        /\ s \in 1..Len(lists[k]) /\ lists[k][s].id = b
    BY <1>3, <2>1, <2>2, <2>3, RankInIs
  <2>5. VotesIn(lists[k], a) = Vote(r) /\ VotesIn(lists[k], b) = Vote(s)
    BY <2>1, <2>4, OneVote
  <2>6. Len(lists[k]) \in Nat /\ MaxRank \in Nat
    BY <2>1, ScaleAssumption
  <2>7. r \in 1..MaxRank + 1 /\ s \in 1..MaxRank + 1 /\ r < s
    BY <2>1, <2>2, <2>3, <2>4, <2>6
  <2>8. Vote(r) > Vote(s) /\ Vote(r) \in Nat /\ Vote(s) \in Nat
    BY <2>7, VoteDecreases, VoteNumber
  <2> QED BY <2>5, <2>8
<1>4. \A k \in S : for(a)[k] = VotesIn(lists[k], a) /\ for(b)[k] = VotesIn(lists[k], b)
  OBVIOUS
<1> HIDE DEF for
<1>5. ASSUME NEW k \in S PROVE for(b)[k] <= for(a)[k]
  <2>1. for(a)[k] \in Nat /\ for(b)[k] \in Nat
    BY <1>1
  <2>2. CASE b \in Ids(lists[k])
    BY <1>3, <1>4, <2>1, <2>2
  <2>3. CASE b \notin Ids(lists[k])
    <3>1. VotesIn(lists[k], b) = 0
      BY <2>3, OneVote
    <3> QED BY <1>4, <2>1, <3>1
  <2> QED BY <2>2, <2>3
<1>6. \E k \in S : for(b)[k] < for(a)[k]
  BY <1>3, <1>4
<1>7. SumFunction(for(b)) < SumFunction(for(a))
  <2>1. PICK f, g : f = for(b) /\ g = for(a)
    OBVIOUS
  <2>2. /\ f \in [S -> Nat] /\ g \in [S -> Nat] /\ \A k \in S : f[k] <= g[k]
        /\ \E k \in S : f[k] < g[k]
    BY <1>1, <1>5, <1>6, <2>1
  <2> HIDE DEF S
  <2>3. SumFunction(f) < SumFunction(g)
    BY <1>1, <2>2, SumMonotone
  <2> QED BY <2>1, <2>3
<1> QED BY <1>1, <1>2, <1>7

LEMMA AgreementRanks ==
    ASSUME NEW lists \in Lists(Made), \A l \in DOMAIN lists : Rankable(lists[l]),
           NEW f, Fuses(f, lists), NEW a \in Ids(f), NEW b \in Ids(f), Prefer(lists, a, b)
    PROVE  RankIn(f, a) < RankIn(f, b)
<1>1. PICK m, n : m = RankIn(f, a) /\ n = RankIn(f, b)
  OBVIOUS
<1>2. m \in 1..Len(f) /\ f[m].id = a /\ n \in 1..Len(f) /\ f[n].id = b
  BY <1>1, RankInIs DEF Fuses
<1>3. PICK p \in Places(lists) : f[n] = At(lists, p)
  BY <1>2 DEF Fuses
<1>4. PICK l \in DOMAIN lists : \E r \in DOMAIN lists[l] : p = <<l, r>>
  BY PlacesAre
<1>5. b \in Ids(lists[l])
  BY <1>2, <1>3, <1>4 DEF At, Ids
<1>6. Votes(lists, f[m].id) > Votes(lists, f[n].id)
  BY <1>2, <1>5, AgreementVotes
<1> QED BY <1>1, <1>2, <1>6 DEF Fuses

LEMMA FusedListsRank ==
    ASSUME IInv, NEW n \in 1..Queries, NEW limit \in 1..MaxLimit
    PROVE  /\ FusedLists(n, limit) \in Lists(Made)
           /\ \A l \in DOMAIN FusedLists(n, limit) : Rankable(FusedLists(n, limit)[l])
<1>1. CASE n = 1
  <2>1. FusedLists(n, limit) = <<MainChunks(1), DepChunks(1)>>
    BY <1>1 DEF FusedLists
  <2>2. Answer(responses[1].main) /\ Answer(responses[1].dep)
    BY <1>1 DEF IInv, Response
  <2>3. Rankable(MainChunks(1)) /\ Rankable(DepChunks(1))
    BY <2>2, ChunksAre DEF MainChunks, DepChunks
  <2>4. MainChunks(1) \in Seq(Made) /\ DepChunks(1) \in Seq(Made)
    BY <2>3 DEF Rankable
  <2> QED BY <2>1, <2>3, <2>4 DEF Lists
<1>2. CASE n # 1
  <2> DEFINE lists == FusedLists(n, limit)
  <2>1. /\ lists \in Lists(Made) /\ DOMAIN lists = 1..n
        /\ \A q \in 1..n : Shows(lists[q], Pool(q), limit)
    BY <1>2, ManyQueries
  <2> HIDE DEF lists
  <2>2. ASSUME NEW q \in 1..n PROVE Rankable(lists[q])
    <3>1. PICK c : c = lists[q]
      OBVIOUS
    <3>2. c \in Seq(Made) /\ DistinctParents(c) /\ Len(c) <= limit /\ Len(c) \in Nat
      BY <2>1, <3>1 DEF Shows
    <3>3. \A i \in 1..Len(c) : c[i] \in Made
      BY <3>2
    <3>4. \A i, j \in 1..Len(c) : c[i].id = c[j].id => i = j
      BY <3>2, <3>3, MadeIs DEF DistinctParents
    <3>5. Len(c) <= MaxRank + 1
      BY <3>2, RanksAssumption, QueriesAssumption, ScaleAssumption
    <3> QED BY <3>1, <3>2, <3>4, <3>5 DEF Rankable
  <2> QED BY <2>1, <2>2 DEF lists
<1> QED BY <1>1, <1>2

(* Fusing keeps what all the lists agree on: the ranks of a search and of  *)
(* its deprecation request, or of several queries, never turn round a      *)
(* preference that none of the lists contradicts.                          *)
THEOREM ConsensusCorrect == Spec => []AgreementPrevails
<1>1. IInv => AgreementPrevails
  <2> SUFFICES ASSUME IInv, NEW n \in 1..Queries, NEW limit \in 1..MaxLimit,
                      NEW a \in Ids(ReciprocalRankFusion(FusedLists(n, limit))),
                      NEW b \in Ids(ReciprocalRankFusion(FusedLists(n, limit))),
                      Prefer(FusedLists(n, limit), a, b)
               PROVE  RankIn(ReciprocalRankFusion(FusedLists(n, limit)), a) <
                      RankIn(ReciprocalRankFusion(FusedLists(n, limit)), b)
    BY DEF AgreementPrevails, Prefer
  <2>1. PICK lists : lists = FusedLists(n, limit)
    OBVIOUS
  <2>2. lists \in Lists(Made) /\ \A l \in DOMAIN lists : Rankable(lists[l])
    BY <2>1, FusedListsRank
  <2>3. Fuses(ReciprocalRankFusion(lists), lists)
    BY <2>2, FusionFuses
  <2> QED BY <2>1, <2>2, <2>3, AgreementRanks
<1> QED BY <1>1, TypeCorrect, PTL

-----------------------------------------------------------------------------
(* Interleaving.  A chunk stands behind as many as are ahead of it.        *)
LEMMA FusedPlace ==
    ASSUME NEW lists \in Lists(Made), NEW p \in Places(lists),
           NEW row, row = Scored(lists, At(lists, p).id),
           NEW n, n = Cardinality(Before(ScoreTable(lists), ByVotes(ScoreTable(lists)), row))
    PROVE  ReciprocalRankFusion(lists)[n + 1] = Longest(lists, row.id)
<1> DEFINE T == ScoreTable(lists)
           N == Cardinality(T)
           ranked == Ranked(T, Ahead)
           f == ReciprocalRankFusion(lists)
<1>1. row \in T /\ IsFiniteSet(T)
  BY TableIs
<1>2. Sorts(ranked, T, ByVotes(T))
  BY TableSorts
<1>3. N \in Nat
  BY <1>1, FS_CardinalityType
<1>4. f = [i \in DOMAIN ranked |-> Longest(lists, ranked[i].id)]
  BY DEF ReciprocalRankFusion
<1> HIDE DEF f, ranked, T
<1>5. PICK k \in 1..N : ranked[k] = row
  BY <1>1, <1>2 DEF Sorts
<1>6. n = k - 1 /\ k \in DOMAIN ranked
  BY <1>2, <1>5 DEF Sorts, T
<1>7. n + 1 = k
  <2> HIDE DEF N
  <2> QED BY <1>3, <1>5, <1>6
<1> QED BY <1>4, <1>5, <1>6, <1>7 DEF f

(* Lists that share no chunk. *)
Apart(lists) ==
    /\ lists \in Lists(Made)
    /\ \A l \in DOMAIN lists : Rankable(lists[l])
    /\ \A p, q \in Places(lists) : At(lists, p).id = At(lists, q).id => p = q

LEMMA ApartScored ==
    ASSUME NEW lists, Apart(lists), NEW p \in Places(lists),
           NEW id, id = At(lists, p).id
    PROVE  /\ p[2] \in 1..MaxRank + 1
           /\ Scored(lists, id) = [id |-> id, votes |-> Vote(p[2]), entry |-> p]
           /\ Longest(lists, id) = At(lists, p)
<1>1. /\ lists \in Lists(Made)
      /\ \A q : q \in Places(lists) <=> \E k \in DOMAIN lists : \E r \in DOMAIN lists[k] : q = <<k, r>>
  BY PlacesAre DEF Apart
<1>2. PICK l \in DOMAIN lists : \E r \in DOMAIN lists[l] : p = <<l, r>>
  BY <1>1
<1>3. PICK r \in DOMAIN lists[l] : p = <<l, r>>
  BY <1>2
<1>4. /\ lists[l] \in Seq(Made) /\ Rankable(lists[l]) /\ lists[l][r].id = id
      /\ Len(lists[l]) <= MaxRank + 1
  BY <1>1, <1>3 DEF Apart, Rankable, At
<1>5. r \in 1..Len(lists[l]) /\ Len(lists[l]) \in Nat
  BY <1>4
<1>6. r \in 1..MaxRank + 1
  BY <1>4, <1>5, ScaleAssumption
<1>7. Occurrences(lists, id) = {p}
  BY DEF Occurrences, Apart
<1>8. Entry(lists, id) = p
  <2>1. Entry(lists, id) \in {p}
    BY <1>1, EntryExists, <1>7 DEF Entry
  <2> QED BY <2>1
<1>9. Longest(lists, id) = At(lists, p)
  BY <1>1, <1>7, LongestExists
<1>10. VotesIn(lists[l], id) = Vote(r)
  BY <1>4, <1>5, OneVote
<1>11. ASSUME NEW k \in DOMAIN lists, k # l PROVE VotesIn(lists[k], id) = 0
  <2>1. id \notin Ids(lists[k])
    <3> SUFFICES ASSUME NEW s \in DOMAIN lists[k], lists[k][s].id = id PROVE FALSE
      BY DEF Ids
    <3>1. <<k, s>> \in Places(lists) /\ At(lists, <<k, s>>).id = id
      BY <1>1 DEF At
    <3>2. <<k, s>> = p
      BY <3>1 DEF Apart
    <3> QED BY <1>3, <1>11, <3>2
  <2> QED BY <2>1, OneVote DEF Apart
<1>12. Votes(lists, id) = Vote(r)
  <2> DEFINE for == [k \in DOMAIN lists |-> VotesIn(lists[k], id)]
             S == DOMAIN lists
  <2>1. IsFiniteSet(S) /\ for \in [S -> Nat] /\ l \in S
    BY <1>1, VotesNumber
  <2>2. for[l] = Vote(r) /\ \A k \in S : k # l => for[k] = 0
    BY <1>10, <1>11
  <2>3. Votes(lists, id) = SumFunction(for)
    BY DEF Votes
  <2> HIDE DEF for, S
  <2> QED BY <2>1, <2>2, <2>3, SumSingle
<1> QED BY <1>3, <1>6, <1>8, <1>9, <1>12 DEF Scored

Quicker(q, p) == q[2] < p[2] \/ (q[2] = p[2] /\ q[1] < p[1])

LEMMA ApartPlace ==
    ASSUME NEW lists, Apart(lists), NEW p \in Places(lists),
           NEW n, n = Cardinality({q \in Places(lists) : Quicker(q, p)})
    PROVE  ReciprocalRankFusion(lists)[n + 1] = At(lists, p)
<1> DEFINE T == ScoreTable(lists)
           row(q) == Scored(lists, At(lists, q).id)
           before == Before(T, ByVotes(T), row(p))
           quicker == {q \in Places(lists) : Quicker(q, p)}
           rows == [q \in quicker |-> row(q)]
<1>1. lists \in Lists(Made)
  BY DEF Apart
<1>2. Places(lists) \subseteq Nat \X Nat /\ IsFiniteSet(Places(lists))
  BY <1>1, PlacesAre
<1>3. \A r : r \in T <=> \E q \in Places(lists) : r = row(q)
  BY <1>1, TableIs
<1>4. \A q \in Places(lists) : /\ row(q).votes = Vote(q[2])
                               /\ row(q).entry = q
                               /\ q[2] \in 1..MaxRank + 1
                               /\ q[1] \in Nat /\ q[2] \in Nat
  BY <1>2, ApartScored
<1>5. \A q \in Places(lists) : Ahead(row(q), row(p)) <=> Quicker(q, p)
  <2> SUFFICES ASSUME NEW q \in Places(lists)
               PROVE  Ahead(row(q), row(p)) <=> Quicker(q, p)
    OBVIOUS
  <2>1. PICK a, b : a = q[2] /\ b = p[2]
    OBVIOUS
  <2>2. /\ a \in 1..MaxRank + 1 /\ b \in 1..MaxRank + 1
        /\ a \in Nat \ {0} /\ b \in Nat \ {0} /\ q[1] \in Nat /\ p[1] \in Nat
    BY <1>4, <2>1
  <2>3. Vote(a) \in Nat /\ Vote(b) \in Nat
    BY <2>2, VoteNumber
  <2>4. Vote(a) > Vote(b) <=> a < b
    BY <2>2, <2>3, VoteDecreases
  <2>5. Vote(a) = Vote(b) <=> a = b
    BY <2>2, <2>3, VoteDecreases
  <2>6. Ahead(row(q), row(p)) <=> Vote(a) > Vote(b) \/ (Vote(a) = Vote(b) /\ Earlier(q, p))
    BY <1>4, <2>1 DEF Ahead
  <2>7. a = b => (Earlier(q, p) <=> q[1] < p[1])
    BY <2>1, <2>2 DEF Earlier
  <2> HIDE DEF row
  <2> QED BY <2>1, <2>4, <2>5, <2>6, <2>7 DEF Quicker
<1> HIDE DEF T, row
<1>6. \A r : r \in before <=> \E q \in quicker : r = row(q)
  BY <1>3, <1>5 DEF Before, ByVotes
<1>7. \A q, r \in quicker : row(q) = row(r) => q = r
  <2> SUFFICES ASSUME NEW q \in quicker, NEW r \in quicker, row(q) = row(r) PROVE q = r
    OBVIOUS
  <2>1. row(q).entry = q /\ row(r).entry = r
    BY <1>4
  <2> QED BY <2>1
<1> HIDE DEF before, quicker
<1>8. rows \in Bijection(quicker, before)
  BY <1>6, <1>7 DEF Bijection, Injection, IsInjective, Surjection
<1>9. IsFiniteSet(quicker)
  BY <1>2, FS_Subset DEF quicker
<1> HIDE DEF rows
<1>10. Cardinality(before) = Cardinality(quicker)
  <2>1. ExistsBijection(quicker, before)
    BY <1>8 DEF ExistsBijection
  <2> QED BY ONLY <1>9, <2>1, FS_Bijection
<1>11. n = Cardinality(Before(T, ByVotes(T), row(p)))
  BY <1>10 DEF before, quicker
<1>12. ReciprocalRankFusion(lists)[n + 1] = Longest(lists, row(p).id)
  BY <1>1, <1>11, FusedPlace DEF T, row
<1> QED BY <1>12, ApartScored DEF row, Scored

(* As many are ahead as stand above, in both lists. *)
LEMMA TwoColumns ==
    ASSUME NEW a \in Nat, NEW b \in Nat,
           NEW n, n = Cardinality(({1} \X (1..a)) \cup ({2} \X (1..b)))
    PROVE  n = a + b
<1> DEFINE left == [i \in 1..a |-> <<1, i>>]
           right == [i \in 1..b |-> <<2, i>>]
           A == {1} \X (1..a)
           B == {2} \X (1..b)
<1>1. ASSUME NEW c, NEW m \in Nat,
             NEW f, f = [i \in 1..m |-> <<c, i>>], NEW C, C = {c} \X (1..m)
      PROVE  f \in Bijection(1..m, C)
  <2>1. f \in [1..m -> C] /\ \A i, j \in 1..m : f[i] = f[j] => i = j
    BY <1>1
  <2>2. \A x \in C : \E i \in 1..m : f[i] = x
    BY <1>1
  <2> QED BY <2>1, <2>2 DEF Bijection, Injection, IsInjective, Surjection
<1>2. A \cap B = {}
  OBVIOUS
<1>3. /\ IsFiniteSet(1..a) /\ Cardinality(1..a) = a
      /\ IsFiniteSet(1..b) /\ Cardinality(1..b) = b
  BY FS_Interval
<1>4. ExistsBijection(1..a, A) /\ ExistsBijection(1..b, B)
  <2>1. left \in Bijection(1..a, A) /\ right \in Bijection(1..b, B)
    BY <1>1
  <2> HIDE DEF left, right, A, B
  <2> QED BY <2>1 DEF ExistsBijection
<1> HIDE DEF left, right, A, B
<1>5. IsFiniteSet(A) /\ Cardinality(A) = a /\ IsFiniteSet(B) /\ Cardinality(B) = b
  BY <1>3, <1>4, FS_Bijection
<1>6. Cardinality(A \cup B) = Cardinality(A) + Cardinality(B) - Cardinality(A \cap B)
  BY ONLY <1>5, FS_Union
<1>7. Cardinality(A \cap B) = 0
  BY <1>2, FS_EmptySet
<1> QED BY <1>5, <1>6, <1>7 DEF A, B

LEMMA MinOfTwo ==
    ASSUME NEW a \in Nat, NEW b \in Nat
    PROVE  Min({a, b}) = IF a <= b THEN a ELSE b
<1> DEFINE m == Min({a, b})
<1>1. \E x \in {a, b} : \A y \in {a, b} : x =< y
  OBVIOUS
<1>2. m \in {a, b} /\ \A y \in {a, b} : m =< y
  BY <1>1 DEF Min
<1> HIDE DEF m
<1> QED BY <1>2 DEF m

LEMMA PairInterleaves ==
    ASSUME NEW s, NEW t, Rankable(s), Rankable(t), Ids(s) \cap Ids(t) = {},
           NEW f, f = ReciprocalRankFusion(<<s, t>>)
    PROVE  /\ \A i \in DOMAIN s : f[i + Min({Len(t), i - 1})] = s[i]
           /\ \A i \in DOMAIN t : f[i + Min({Len(s), i})] = t[i]
<1> DEFINE lists == <<s, t>>
<1>1. s \in Seq(Made) /\ t \in Seq(Made)
  BY DEF Rankable
<1>2. lists \in Lists(Made) /\ DOMAIN lists = {1, 2} /\ lists[1] = s /\ lists[2] = t
  BY <1>1 DEF Lists
<1> HIDE DEF lists
<1>3. \A p : p \in Places(lists) <=>
         (\E r \in DOMAIN s : p = <<1, r>>) \/ (\E r \in DOMAIN t : p = <<2, r>>)
  BY <1>2, PlacesAre
<1>4. /\ DOMAIN s = 1..Len(s) /\ Len(s) \in Nat
      /\ DOMAIN t = 1..Len(t) /\ Len(t) \in Nat
  BY <1>1
<1>5. /\ \A r : At(lists, <<1, r>>) = s[r]
      /\ \A r : At(lists, <<2, r>>) = t[r]
  BY <1>2 DEF At
<1>6. Apart(lists)
  <2>1. ASSUME NEW p \in Places(lists), NEW q \in Places(lists),
               At(lists, p).id = At(lists, q).id
        PROVE  p = q
    <3>1. \A i \in DOMAIN s, j \in DOMAIN t : s[i].id # t[j].id
      BY DEF Ids
    <3>2. CASE \E i \in DOMAIN s : p = <<1, i>>
      <4>1. PICK i \in DOMAIN s : p = <<1, i>> /\ At(lists, p) = s[i]
        BY <1>5, <3>2
      <4>2. PICK j \in DOMAIN s : q = <<1, j>> /\ At(lists, q) = s[j]
        BY <1>3, <1>5, <2>1, <3>1, <4>1
      <4> QED BY <1>4, <2>1, <4>1, <4>2 DEF Rankable
    <3>3. CASE \E i \in DOMAIN t : p = <<2, i>>
      <4>1. PICK i \in DOMAIN t : p = <<2, i>> /\ At(lists, p) = t[i]
        BY <1>5, <3>3
      <4>2. PICK j \in DOMAIN t : q = <<2, j>> /\ At(lists, q) = t[j]
        BY <1>3, <1>5, <2>1, <3>1, <4>1
      <4> QED BY <1>4, <2>1, <4>1, <4>2 DEF Rankable
    <3> QED BY <1>3, <3>2, <3>3
  <2> QED BY <1>2, <2>1 DEF Apart
<1>7. ASSUME NEW i \in DOMAIN s PROVE f[i + Min({Len(t), i - 1})] = s[i]
  <2> DEFINE b == Min({Len(t), i - 1})
             p == <<1, i>>
  <2>1. i - 1 \in Nat
    BY <1>4
  <2>2. b = IF Len(t) <= i - 1 THEN Len(t) ELSE i - 1
    BY <1>4, <2>1, MinOfTwo
  <2> HIDE DEF b
  <2>3. b \in Nat
    BY <1>4, <2>1, <2>2
  <2>4. {q \in Places(lists) : Quicker(q, p)} = ({1} \X (1..i - 1)) \cup ({2} \X (1..b))
    <3>1. \A r \in Nat : r \in 1..b <=> r \in DOMAIN t /\ r < i
      BY <1>4, <2>1, <2>2
    <3>2. \A r \in Nat : r \in 1..i - 1 <=> r \in DOMAIN s /\ r < i
      BY <1>4, <2>1
    <3>3. \A q \in Places(lists) : Quicker(q, p) <=> q[2] < i
      <4> SUFFICES ASSUME NEW q \in Places(lists) PROVE Quicker(q, p) <=> q[2] < i
        OBVIOUS
      <4>1. q[1] \in {1, 2}
        BY <1>3
      <4> QED BY <4>1 DEF Quicker
    <3>4. \A q : q \in ({1} \X (1..i - 1)) \cup ({2} \X (1..b)) <=>
             (\E r \in 1..i - 1 : q = <<1, r>>) \/ (\E r \in 1..b : q = <<2, r>>)
      OBVIOUS
    <3>5. \A q : q \in Places(lists) /\ q[2] < i <=>
             (\E r \in 1..i - 1 : q = <<1, r>>) \/ (\E r \in 1..b : q = <<2, r>>)
      <4>1. DOMAIN s \subseteq Nat /\ DOMAIN t \subseteq Nat
        BY <1>4
      <4> QED BY <1>3, <3>1, <3>2, <4>1
    <3> QED BY <3>3, <3>4, <3>5
  <2>5. p \in Places(lists)
    BY <1>3
  <2>6. PICK n : n = Cardinality({q \in Places(lists) : Quicker(q, p)})
    OBVIOUS
  <2>7. n = (i - 1) + b
    BY <2>1, <2>3, <2>4, <2>6, TwoColumns
  <2>8. f[n + 1] = At(lists, p)
    BY <1>6, <2>5, <2>6, ApartPlace DEF lists
  <2>9. n + 1 = i + b
    BY <1>4, <2>3, <2>7
  <2> QED BY <1>5, <2>8, <2>9 DEF b
<1>8. ASSUME NEW i \in DOMAIN t PROVE f[i + Min({Len(s), i})] = t[i]
  <2> DEFINE a == Min({Len(s), i})
             p == <<2, i>>
  <2>1. i - 1 \in Nat /\ i \in Nat
    BY <1>4
  <2>2. a = IF Len(s) <= i THEN Len(s) ELSE i
    BY <1>4, <2>1, MinOfTwo
  <2> HIDE DEF a
  <2>3. a \in Nat
    BY <1>4, <2>1, <2>2
  <2>4. {q \in Places(lists) : Quicker(q, p)} = ({1} \X (1..a)) \cup ({2} \X (1..i - 1))
    <3>1. \A r \in Nat : r \in 1..a <=> r \in DOMAIN s /\ r <= i
      BY <1>4, <2>1, <2>2
    <3>2. \A r \in Nat : r \in 1..i - 1 <=> r \in DOMAIN t /\ r < i
      BY <1>4, <2>1
    <3>3. \A r \in Nat : Quicker(<<1, r>>, p) <=> r <= i
      BY <2>1 DEF Quicker
    <3>4. \A r \in Nat : Quicker(<<2, r>>, p) <=> r < i
      BY <2>1 DEF Quicker
    <3>5. \A q : q \in ({1} \X (1..a)) \cup ({2} \X (1..i - 1)) <=>
             (\E r \in 1..a : q = <<1, r>>) \/ (\E r \in 1..i - 1 : q = <<2, r>>)
      OBVIOUS
    <3>6. \A q : q \in Places(lists) /\ Quicker(q, p) <=>
             (\E r \in 1..a : q = <<1, r>>) \/ (\E r \in 1..i - 1 : q = <<2, r>>)
      <4>1. DOMAIN s \subseteq Nat /\ DOMAIN t \subseteq Nat
        BY <1>4
      <4>2. 1..a \subseteq Nat /\ 1..i - 1 \subseteq Nat
        OBVIOUS
      <4> HIDE DEF p
      <4> QED BY <1>3, <3>1, <3>2, <3>3, <3>4, <4>1, <4>2
    <3> HIDE DEF p
    <3> QED BY <3>5, <3>6
  <2>5. p \in Places(lists)
    BY <1>3
  <2>6. PICK n : n = Cardinality({q \in Places(lists) : Quicker(q, p)})
    OBVIOUS
  <2>7. n = a + (i - 1)
    BY <2>1, <2>3, <2>4, <2>6, TwoColumns
  <2>8. f[n + 1] = At(lists, p)
    BY <1>6, <2>5, <2>6, ApartPlace DEF lists
  <2>9. n + 1 = i + a
    BY <2>1, <2>3, <2>7
  <2> QED BY <1>5, <2>8, <2>9 DEF a
<1> QED BY <1>7, <1>8

(* A deprecation request that finds other documents than the search takes  *)
(* every second place of the fused list, for as long as both have chunks.  *)
THEOREM InterleavingCorrect == Spec => []DisjointListsInterleave
<1>1. IInv => DisjointListsInterleave
  <2> DEFINE main == MainChunks(1)
             dep == DepChunks(1)
             fused == ReciprocalRankFusion(<<main, dep>>)
             Place(list, other, i) ==
                i + Min({Len(other), IF list = main THEN i - 1 ELSE i})
  <2>1. IInv => Answer(responses[1].main) /\ Answer(responses[1].dep)
    BY QueriesAssumption DEF IInv, Response
  <2>2. IInv => Rankable(main) /\ Rankable(dep)
    BY <2>1, ChunksAre DEF MainChunks, DepChunks
  <2> SUFFICES ASSUME IInv, Ids(main) \cap Ids(dep) = {}
               PROVE  /\ \A i \in DOMAIN main : fused[Place(main, dep, i)] = main[i]
                      /\ main # dep =>
                            \A i \in DOMAIN dep : fused[Place(dep, main, i)] = dep[i]
    BY DEF DisjointListsInterleave
  <2> HIDE DEF main, dep
  <2>3. /\ \A i \in DOMAIN main : fused[i + Min({Len(dep), i - 1})] = main[i]
        /\ \A i \in DOMAIN dep : fused[i + Min({Len(main), i})] = dep[i]
    BY <2>2, PairInterleaves
  <2> HIDE DEF fused
  <2> QED BY <2>3
<1> QED BY <1>1, TypeCorrect, PTL
=============================================================================
