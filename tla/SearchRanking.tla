---------------------------- MODULE SearchRanking ----------------------------
(***************************************************************************)
(* What portal.py does with the documents Solr returned: documents become  *)
(* chunks, the chunks of several lists are fused by reciprocal rank, one   *)
(* chunk per document is kept, and a score gate drops the tail.  Pure      *)
(* operators; SearchResults runs them on responses.                        *)
(*                                                                         *)
(* A document is [id, kind, score, snippets, fallback].  snippets holds    *)
(* the length of each highlight after tag, boilerplate and RHV-sentence    *)
(* removal (0: nothing is left), fallback the length of the text used      *)
(* without highlights.  A chunk is [id, parent, score, size], its id the   *)
(* document and the suffix "hl" or "fb" with an index.                     *)
(***************************************************************************)
EXTENDS Ordering, Sequences, SequencesExt, FiniteSetsExt, Functions

CONSTANTS
    RRF_K,     \* k, 60 in the code
    Scale,     \* a common multiple of the denominators k + rank
    MaxRank,   \* bound on the ranks of a list, for Scale
    NoParent,  \* parent_id is None
    NoScore    \* score is None

ASSUME ScaleAssumption ==
    /\ RRF_K \in Nat \ {0} /\ Scale \in Nat \ {0} /\ MaxRank \in Nat
    /\ \A r \in 0..MaxRank : Scale % (RRF_K + r) = 0

-----------------------------------------------------------------------------
(* The places <<list, rank>> of some lists, read one list after the other. *)
Places(lists) == UNION {{l} \X DOMAIN lists[l] : l \in DOMAIN lists}
Earlier(p, q) == p[1] < q[1] \/ (p[1] = q[1] /\ p[2] < q[2])
At(lists, p) == lists[p[1]][p[2]]

(* What stands at some of the places, in reading order. *)
Collect(lists, places) ==
    LET order == Ranked(places, Earlier)
    IN  [n \in DOMAIN order |-> At(lists, order[n])]

-----------------------------------------------------------------------------
(* Documents to chunks. *)

Chunk(doc, suffix, size) ==
    [id |-> <<doc.id, suffix>>, parent |-> doc.id,
     score |-> doc.score, size |-> size]

(* CVEs and errata never use highlights.  A document whose highlights are  *)
(* all cleaned away yields nothing: only one without highlights falls back.*)
PartsOf(doc) ==
    IF doc.kind \in {"Cve", "Erratum"} \/ doc.snippets = <<>>
    THEN <<Chunk(doc, <<"fb", 0>>, doc.fallback)>>
    ELSE [i \in DOMAIN doc.snippets |-> Chunk(doc, <<"hl", i - 1>>, doc.snippets[i])]

DocsToChunks(docs) ==
    LET parts == [i \in DOMAIN docs |-> PartsOf(docs[i])]
    IN  Collect(parts, {p \in Places(parts) : At(parts, p).size > 0})

-----------------------------------------------------------------------------
(* _deduplicate_by_parent: the first chunk of each document. *)

FirstOfParent(chunks, i) ==
    \/ chunks[i].parent = NoParent
    \/ \A j \in 1..(i - 1) : chunks[j].parent # chunks[i].parent

DeduplicateByParent(chunks) ==
    Select(chunks, {i \in DOMAIN chunks : FirstOfParent(chunks, i)})

-----------------------------------------------------------------------------
(* _reciprocal_rank_fusion.  Votes are exact: 1/(k + rank) counts as        *)
(* Scale/(k + rank), where the code adds floating point numbers.           *)

Ids(chunks) == {chunks[i].id : i \in DOMAIN chunks}

Occurrences(lists, id) == {p \in Places(lists) : At(lists, p).id = id}

VotesIn(list, id) ==
    SumFunction([r \in DOMAIN list |->
        IF list[r].id = id THEN Scale \div (RRF_K + r - 1) ELSE 0])

(* Mutant: a later list overwrites the score instead of adding to it. *)
VotesOverwritten(lists, id) ==
    VotesIn(lists[Max({l \in DOMAIN lists : id \in Ids(lists[l])})], id)

Votes(lists, id) == SumFunction([l \in DOMAIN lists |-> VotesIn(lists[l], id)])

(* The version with the longest text, the first of them. *)
Longest(lists, id) ==
    At(lists, CHOOSE p \in Occurrences(lists, id) :
                 \A q \in Occurrences(lists, id) :
                    \/ At(lists, p).size > At(lists, q).size
                    \/ At(lists, p).size = At(lists, q).size /\ (p = q \/ Earlier(p, q)))

(* The scores dictionary, each id with the place it entered at.            *)
ScoreTable(lists) ==
    {[id |-> id, votes |-> Votes(lists, id),
      entry |-> CHOOSE p \in Occurrences(lists, id) :
                   \A q \in Occurrences(lists, id) : p = q \/ Earlier(p, q)] :
        id \in UNION {Ids(lists[l]) : l \in DOMAIN lists}}

(* Mutant: the sort is not stable, ties come out reversed. *)
AheadUnstable(a, b) ==
    a.votes > b.votes \/ (a.votes = b.votes /\ Earlier(b.entry, a.entry))

(* The sort is stable: ties stay in the order of the dictionary. *)
Ahead(a, b) == a.votes > b.votes \/ (a.votes = b.votes /\ Earlier(a.entry, b.entry))

ReciprocalRankFusion(lists) ==
    LET ranked == Ranked(ScoreTable(lists), Ahead)
    IN  [n \in DOMAIN ranked |-> Longest(lists, ranked[n].id)]

-----------------------------------------------------------------------------
(* _filter_by_score: 45% of the top score, chunks without score kept. *)

(* Mutant: the ratio is applied to the wrong side. *)
FilterByScoreSwapped(chunks) ==
    LET top == Max({0} \cup {chunks[i].score : i \in DOMAIN chunks})
    IN  Select(chunks, {i \in DOMAIN chunks : 45 * chunks[i].score >= 100 * top})

FilterByScore(chunks) ==
    LET scored == {i \in DOMAIN chunks : chunks[i].score # NoScore}
        top == Max({0} \cup {chunks[i].score : i \in scored})
    IN  IF top <= 0 THEN chunks
        ELSE Select(chunks, {i \in DOMAIN chunks :
                                i \in scored => 100 * chunks[i].score >= 45 * top})

-----------------------------------------------------------------------------
(* The pipelines, after Solr has answered. *)

Parents(chunks) == {chunks[i].parent : i \in DOMAIN chunks} \ {NoParent}

TopN(chunks, limit) == SubSeq(chunks, 1, Min({limit, Len(chunks)}))

(* _run_portal_search *)
PortalSearchOf(response, limit) ==
    LET main == DocsToChunks(response.main)
        dep == DocsToChunks(response.dep)
        fused == ReciprocalRankFusion(<<main, dep>>)
        top == TopN(FilterByScore(DeduplicateByParent(fused)), limit)
    IN  [chunks |-> top,
         hasDeprecation |-> Parents(top) \cap Parents(dep) # {}]

(* Mutant: the fused list is not deduplicated again. *)
MultiQuerySearchRepeating(responses, limit) ==
    LET results == [q \in DOMAIN responses |-> PortalSearchOf(responses[q], limit)]
        fused == ReciprocalRankFusion([q \in DOMAIN results |-> results[q].chunks])
    IN  [chunks |-> TopN(fused, limit), hasDeprecation |-> FALSE]

(* Mutant: the list is cut before it is deduplicated. *)
MultiQuerySearchCutFirst(responses, limit) ==
    LET results == [q \in DOMAIN responses |-> PortalSearchOf(responses[q], limit)]
        fused == ReciprocalRankFusion([q \in DOMAIN results |-> results[q].chunks])
    IN  [chunks |-> DeduplicateByParent(TopN(fused, limit)), hasDeprecation |-> FALSE]

(* _run_multi_query_search, on the responses of the queries that succeeded *)
MultiQuerySearchOf(responses, limit) ==
    LET results == [q \in DOMAIN responses |-> PortalSearchOf(responses[q], limit)]
        fused == ReciprocalRankFusion([q \in DOMAIN results |-> results[q].chunks])
    IN  [chunks |-> TopN(DeduplicateByParent(fused), limit),
         hasDeprecation |-> \E q \in DOMAIN results : results[q].hasDeprecation]
=============================================================================
