---------------------------- MODULE OutlineCache -----------------------------
(***************************************************************************)
(* OutlineFetcher (outline.py): a least-recently-used cache of document    *)
(* outlines in front of the HTML mirror, shared by every get_document call *)
(* of the event loop.  get() looks the document up, awaits the mirror on a *)
(* miss, and stores what came back; between the lookup and the store other *)
(* coroutines run, so two callers may fetch one document at the same time. *)
(*                                                                         *)
(* The outline of a document is represented by the document itself: the    *)
(* properties only tell a document's own outline, another document's and   *)
(* the empty outline apart.                                                *)
(***************************************************************************)
EXTENDS Naturals, Sequences, FiniteSets

CONSTANTS
    Docs,       \* Solr document ids
    Getters,    \* concurrent callers of get()
    CacheSize,  \* _CACHE_SIZE
    NoOutline,  \* NO_OUTLINE
    Absent,     \* the document is not a key of _cache
    None,       \* no document awaited, no answer yet
    Raised      \* get() ended with an exception

ASSUME CacheSizeAssumption == CacheSize \in Nat \ {0}
ASSUME MarkersAssumption ==
    /\ NoOutline \notin Docs
    /\ Absent \notin Docs \cup {NoOutline}
    /\ None \notin Docs

VARIABLES
    mirror,    \* whether a mirror URL is configured (_base_url is not empty)
    lru,       \* the keys of _cache, least recently used first
    entry,     \* entry[d]: _cache[d], or Absent
    awaiting,  \* awaiting[g]: the document whose page g awaits, or None
    answer     \* answer[g]: what g's last get() returned, or Raised

vars == <<mirror, lru, entry, awaiting, answer>>

Outlines == Docs \cup {NoOutline}

-----------------------------------------------------------------------------
(* The OrderedDict. *)

Position(s, d) == CHOOSE i \in 1..Len(s) : s[i] = d

MoveToEnd(s, d) ==
    [i \in 1..Len(s) |-> IF i = Len(s) THEN d
                         ELSE IF i < Position(s, d) THEN s[i] ELSE s[i + 1]]

IsCached(d) == entry[d] # Absent

(* Mutant: the new key is appended even if it is there already. *)
TouchedTwice(d) == Append(lru, d)

(* lru after _cache[d] = ...; move_to_end(d), before the size check. *)
Touched(d) == IF IsCached(d) THEN MoveToEnd(lru, d) ELSE Append(lru, d)

(* Mutant: the size check is off by one. *)
StoreOneMore(d, outline) ==
    LET filled == [entry EXCEPT ![d] = outline]
    IN  IF Len(Touched(d)) > CacheSize + 1
        THEN /\ lru' = Tail(Touched(d))
             /\ entry' = [filled EXCEPT ![Head(Touched(d))] = Absent]
        ELSE lru' = Touched(d) /\ entry' = filled

(* Mutant: popitem() without last=False drops what was just stored. *)
StorePopsNewest(d, outline) ==
    LET filled == [entry EXCEPT ![d] = outline]
    IN  IF Len(Touched(d)) > CacheSize
        THEN lru' = lru /\ entry' = [filled EXCEPT ![d] = Absent]
        ELSE lru' = Touched(d) /\ entry' = filled

(* _cache[d] = outline; move_to_end(d); popitem(last=False) if oversized. *)
Store(d, outline) ==
    LET filled == [entry EXCEPT ![d] = outline]
    IN  IF Len(Touched(d)) > CacheSize
        THEN /\ lru' = Tail(Touched(d))
             /\ entry' = [filled EXCEPT ![Head(Touched(d))] = Absent]
        ELSE /\ lru' = Touched(d)
             /\ entry' = filled

-----------------------------------------------------------------------------
Init ==
    /\ mirror \in BOOLEAN
    /\ lru = <<>>
    /\ entry = [d \in Docs |-> Absent]
    /\ awaiting = [g \in Getters |-> None]
    /\ answer = [g \in Getters |-> None]

GetDisabled(g, d) ==
    /\ awaiting[g] = None
    /\ ~mirror
    /\ answer' = [answer EXCEPT ![g] = NoOutline]
    /\ UNCHANGED <<mirror, lru, entry, awaiting>>

(* Mutant: a hit is not a use. *)
GetHitUntouched(g, d) ==
    /\ awaiting[g] = None /\ mirror /\ IsCached(d)
    /\ answer' = [answer EXCEPT ![g] = entry[d]]
    /\ UNCHANGED <<mirror, lru, entry, awaiting>>

GetHit(g, d) ==
    /\ awaiting[g] = None
    /\ mirror
    /\ IsCached(d)
    /\ lru' = MoveToEnd(lru, d)
    /\ answer' = [answer EXCEPT ![g] = entry[d]]
    /\ UNCHANGED <<mirror, entry, awaiting>>

GetMiss(g, d) ==
    /\ awaiting[g] = None
    /\ mirror
    /\ ~IsCached(d)
    /\ awaiting' = [awaiting EXCEPT ![g] = d]
    /\ answer' = [answer EXCEPT ![g] = None]
    /\ UNCHANGED <<mirror, lru, entry>>

(* _fetch returns: the parsed page, or NO_OUTLINE for an httpx.HTTPError,  *)
(* a page that cannot be parsed and a page without sections.               *)
FetchReturns(g, outline) ==
    /\ awaiting[g] # None
    /\ Store(awaiting[g], outline)
    /\ answer' = [answer EXCEPT ![g] = outline]
    /\ awaiting' = [awaiting EXCEPT ![g] = None]
    /\ UNCHANGED mirror

(* Mutant: the exception is remembered as if it were an outline. *)
FetchRaisesCached(g) ==
    /\ awaiting[g] # None
    /\ Store(awaiting[g], Raised)
    /\ answer' = [answer EXCEPT ![g] = Raised]
    /\ awaiting' = [awaiting EXCEPT ![g] = None]
    /\ UNCHANGED mirror

(* _fetch raises past its handlers: the caller was cancelled, or httpx     *)
(* raised something that is not an HTTPError (InvalidURL).                 *)
FetchRaises(g) ==
    /\ awaiting[g] # None
    /\ answer' = [answer EXCEPT ![g] = Raised]
    /\ awaiting' = [awaiting EXCEPT ![g] = None]
    /\ UNCHANGED <<mirror, lru, entry>>

(* Mutant: a fetch whose document somebody else stored is never resumed. *)
FetchEndsUnlessStored(g) ==
    /\ awaiting[g] # None
    /\ ~IsCached(awaiting[g])
    /\ \/ \E outline \in {awaiting[g], NoOutline} : FetchReturns(g, outline)
       \/ FetchRaises(g)

FetchEnds(g) ==
    \/ \E outline \in {awaiting[g], NoOutline} : FetchReturns(g, outline)
    \/ FetchRaises(g)

Get(g, d) == GetDisabled(g, d) \/ GetHit(g, d) \/ GetMiss(g, d)

Next == \E g \in Getters : (\E d \in Docs : Get(g, d)) \/ FetchEnds(g)

(* The client's 30 second timeout ends every fetch; nobody has to call.    *)
SafeSpec == Init /\ [][Next]_vars
Spec == SafeSpec /\ \A g \in Getters : WF_vars(FetchEnds(g))

-----------------------------------------------------------------------------
TypeOK ==
    /\ mirror \in BOOLEAN
    /\ lru \in Seq(Docs)
    /\ entry \in [Docs -> Outlines \cup {Absent}]
    /\ awaiting \in [Getters -> Docs \cup {None}]
    /\ answer \in [Getters -> Outlines \cup {None, Raised}]

(* The OrderedDict's order and its contents stay one structure whatever    *)
(* the interleaving of stores: a document is a key at exactly one position *)
(* of the order if it has an outline, and at none otherwise.               *)
OrderMatchesEntries ==
    /\ \A i, j \in 1..Len(lru) : lru[i] = lru[j] => i = j
    /\ \A d \in Docs : IsCached(d) <=> \E i \in 1..Len(lru) : lru[i] = d

(* "The cache stays bounded so a long-lived server cannot pin the corpus": *)
(* concurrent misses that store one after the other never leave more than  *)
(* _CACHE_SIZE outlines behind.                                            *)
CacheBounded == Cardinality({d \in Docs : IsCached(d)}) <= CacheSize

(* Every get() comes back.                                                 *)
EveryGetReturns == \A g \in Getters : awaiting[g] # None ~> awaiting[g] = None

(* The cache does what OutlineMemo promises. *)
Memo == INSTANCE OutlineMemo
          WITH Capacity <- CacheSize, memo <- entry, asking <- awaiting

MemoSpec == Memo!Spec
=============================================================================
