---------------------------- MODULE SearchResults ----------------------------
(***************************************************************************)
(* The responses Solr gives to the requests of one search_portal call, one *)
(* document at a time, and what the pipelines of SearchRanking make of     *)
(* them.  Every prefix of a response is a response Solr can give, so the   *)
(* properties are stated of every state.                                   *)
(***************************************************************************)
EXTENDS SearchRanking

CONSTANTS
    Documents,     \* the index: [id, kind] of each document
    Scores,        \* Solr scores a document can get
    Texts,         \* [snippets, fallback] a document can come with
    MaxSnippets,   \* hl.snippets (3, and 2 of the deprecation request)
    Queries,       \* bound: queries of a call
    MaxRows,       \* bound: rows of a response (10 and 3 in the code)
    MaxTotal,      \* bound: rows of all responses if several queries have some
    MaxLimit,      \* bound: max_results considered
    EXCLUDE_KBASE  \* CONFIG.exclude_kbase

ASSUME DocumentsAssumption == \A doc \in Documents : doc.id # NoParent
ASSUME ScoresAssumption == Scores \subseteq Nat
ASSUME TextsAssumption ==
    \A text \in Texts : /\ text.snippets \in Seq(Nat) /\ Len(text.snippets) <= MaxSnippets
                        /\ text.fallback \in Nat
ASSUME QueriesAssumption == Queries \in Nat \ {0} /\ MaxLimit \in Nat
ASSUME RanksAssumption ==
    /\ MaxRows \in Nat /\ MaxSnippets \in Nat \ {0}
    /\ MaxRows * MaxSnippets <= MaxRank + 1 /\ MaxLimit <= MaxRank + 1

VARIABLE responses  \* responses[q].main and responses[q].dep

KbaseKinds == {"solution", "article"}

(* The fq of _build_main_query and _build_deprecation_query. *)
Admits(side, doc) ==
    IF side = "main" THEN EXCLUDE_KBASE => doc.kind \notin KbaseKinds
    ELSE doc.kind \in KbaseKinds \cup {"documentation"}

Rows(q) == Len(responses[q].main) + Len(responses[q].dep)

(* The bound on the rows: only the first query has some, or all have few.  *)
RoomFor(q) ==
    LET total == FoldFunction(+, 0, [p \in 1..Queries |-> Rows(p)])
    IN  total < MaxTotal \/ (q = 1 /\ total = Rows(1))

(* Solr returns a document once, in descending score order. *)
Receive(q, side, doc, score, text) ==
    LET rows == responses[q][side]
        row == [id |-> doc.id, kind |-> doc.kind, score |-> score,
                snippets |-> text.snippets, fallback |-> text.fallback]
    IN  /\ Len(rows) < MaxRows
        /\ RoomFor(q)
        /\ Admits(side, doc)
        /\ \A i \in DOMAIN rows : rows[i].id # doc.id /\ rows[i].score >= score
        /\ responses' = [responses EXCEPT ![q][side] = Append(rows, row)]

Init == responses = [q \in 1..Queries |-> [main |-> <<>>, dep |-> <<>>]]

Next == \E q \in 1..Queries, side \in {"main", "dep"}, doc \in Documents,
           score \in Scores, text \in Texts : Receive(q, side, doc, score, text)

Spec == Init /\ [][Next]_responses

-----------------------------------------------------------------------------
(* What a call of the first n queries gets. *)
Result(n, limit) ==
    IF n = 1 THEN PortalSearchOf(responses[1], limit)
    ELSE MultiQuerySearchOf(SubSeq(responses, 1, n), limit)

MainChunks(q) == DocsToChunks(responses[q].main)
DepChunks(q) == DocsToChunks(responses[q].dep)

(* The lists that are fused last. *)
FusedLists(n, limit) ==
    IF n = 1 THEN <<MainChunks(1), DepChunks(1)>>
    ELSE [q \in 1..n |-> PortalSearchOf(responses[q], limit).chunks]

AllChunks(n) == UNION {ToSet(MainChunks(q)) \cup ToSet(DepChunks(q)) : q \in 1..n}

RankIn(list, id) == CHOOSE i \in DOMAIN list : list[i].id = id

(* The score gate and the cut never turn a search that found something     *)
(* into "No results found": the answer is empty only if no document of any *)
(* response yields a chunk.                                                *)
EmptyOnlyIfNothingFound ==
    \A n \in 1..Queries, limit \in 1..MaxLimit :
        Result(n, limit).chunks = <<>> <=> AllChunks(n) = {}

(* A document takes at most one place of an answer, although it may come   *)
(* back from every request with different highlights, and the answer shows *)
(* chunks that some request returned.                                      *)
OnePlacePerDocument ==
    \A n \in 1..Queries, limit \in 1..MaxLimit :
        LET chunks == Result(n, limit).chunks
        IN  /\ \A i, j \in DOMAIN chunks :
                  chunks[i].parent = chunks[j].parent => i = j
            /\ ToSet(chunks) \subseteq AllChunks(n)
            /\ Len(chunks) <= limit

(* Consensus: a chunk that every list ranking some other chunk ranks above *)
(* it comes out above it, whichever lists rank the two.                    *)
AgreementPrevails ==
    \A n \in 1..Queries, limit \in 1..MaxLimit :
        LET lists == FusedLists(n, limit)
            fused == ReciprocalRankFusion(lists)
            Above(a, b) ==
                \A l \in DOMAIN lists :
                    b \in Ids(lists[l]) =>
                        /\ a \in Ids(lists[l])
                        /\ RankIn(lists[l], a) < RankIn(lists[l], b)
        IN  \A a, b \in Ids(fused) :
                a # b /\ Above(a, b) => RankIn(fused, a) < RankIn(fused, b)

(* Reference: two lists that share no chunk are merged like a zip, the     *)
(* main list first, so a deprecation request that finds other documents    *)
(* takes every second place of the answer.                                 *)
DisjointListsInterleave ==
    LET main == MainChunks(1)
        dep == DepChunks(1)
        fused == ReciprocalRankFusion(<<main, dep>>)
        Place(list, other, i) ==
            i + Min({Len(other), IF list = main THEN i - 1 ELSE i})
    IN  Ids(main) \cap Ids(dep) = {} =>
            /\ \A i \in DOMAIN main : fused[Place(main, dep, i)] = main[i]
            /\ main # dep =>
                  \A i \in DOMAIN dep : fused[Place(dep, main, i)] = dep[i]

(* A multi-query search drops a document one of its queries would show     *)
(* only for want of places: fusing loses none.                             *)
FusionLosesNoDocument ==
    \A n \in 1..Queries, limit \in 1..MaxLimit :
        LET lists == FusedLists(n, limit)
            shown == Parents(Result(n, limit).chunks)
        IN  \/ Cardinality(shown) = limit
            \/ n = 1
            \/ \A l \in DOMAIN lists : Parents(lists[l]) \subseteq shown
=============================================================================
