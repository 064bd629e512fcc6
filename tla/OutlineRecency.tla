--------------------------- MODULE OutlineRecency ----------------------------
(***************************************************************************)
(* OutlineCache with a history of use, to say what "least recently used"   *)
(* promises: the cache holds the CacheSize documents used last, whatever   *)
(* the order in which overlapping fetches end.                             *)
(***************************************************************************)
EXTENDS OutlineCache

VARIABLE recency  \* every document used so far, the latest use last

hvars == <<vars, recency>>

Used(d) == recency' = IF \E i \in 1..Len(recency) : recency[i] = d
                      THEN MoveToEnd(recency, d)
                      ELSE Append(recency, d)

HInit == Init /\ recency = <<>>

HNext ==
    \E g \in Getters :
        \/ \E d \in Docs :
              \/ GetDisabled(g, d) /\ UNCHANGED recency
              \/ GetHit(g, d) /\ Used(d)
              \/ GetMiss(g, d) /\ UNCHANGED recency
        \/ \E outline \in {awaiting[g], NoOutline} :
              FetchReturns(g, outline) /\ Used(awaiting[g])
        \/ FetchRaises(g) /\ UNCHANGED recency

(* The history adds nothing to the fairness of OutlineCache's Spec.        *)
HSpec == HInit /\ [][HNext]_hvars /\ \A g \in Getters : WF_vars(FetchEnds(g))

(* The outlines kept are those of the documents used last, in the order of *)
(* their last use: a hit counts as a use, a failed lookup does not, and    *)
(* eviction always takes the least recently used document.                 *)
KeepsMostRecent ==
    LET kept == IF Len(recency) > CacheSize THEN CacheSize ELSE Len(recency)
    IN  lru = SubSeq(recency, Len(recency) - kept + 1, Len(recency))
=============================================================================
