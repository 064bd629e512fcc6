----------------------------- MODULE GetDocument ------------------------------
(***************************************************************************)
(* get_document (tools/document.py): concurrent calls that each look one   *)
(* document up in Solr, with or without a query, ask the outline fetcher   *)
(* for the outline of a documentation page, and format what they have.     *)
(*                                                                         *)
(* The outline fetcher is the memo of OutlineMemo, which OutlineCache      *)
(* implements: its callers are the calls of this module, its documents the *)
(* documentation pages.  Of a response only what the formatting decides on *)
(* is kept.  Formatting awaits nothing, so it is part of the step that     *)
(* brings the last thing it needs.  The server's lifespan (server.py) may  *)
(* close the HTTP client all of them share while calls are under way.      *)
(***************************************************************************)
EXTENDS Naturals, FiniteSets

CONSTANTS
    Calls,          \* calls of the tool, each made once
    Documentation,  \* documents of the kind _uses_document_passages accepts
    Others,         \* documents of any other kind
    MAX_PASSAGES,   \* _MAX_PASSAGES, also the highlights asked of Solr
    Capacity,       \* documents the outline fetcher remembers
    NoOutline, Absent, None, Raised

Docs == Documentation \cup Others

ASSUME KindsAssumption == Documentation \cap Others = {}
ASSUME NoneAssumption == None \notin Docs /\ NoOutline \notin Docs
ASSUME PassagesAssumption == MAX_PASSAGES \in Nat

VARIABLES
    client,   \* whether the shared HTTP client is "open" or "closed"
    phase,    \* "idle", "done", or what the call awaits: "solr", "outline",
              \* or an outline request the closed client has "refused"
    asked,    \* the document and whether there is a query
    solr,     \* how the call's Solr request ended, or None
    reply,    \* what the tool returned, or None
    metrics,  \* the Prometheus counters
    memo, asking, outline  \* the outline fetcher's (OutlineMemo)

fetcher == <<memo, asking, outline>>
vars == <<client, phase, asked, solr, reply, metrics, memo, asking, outline>>

Memo == INSTANCE OutlineMemo
    WITH Docs <- Documentation, Getters <- Calls, answer <- outline

(* What the metadata of a response leave of the passage budget: room for a *)
(* header and some of the passages whichever the header, only for the      *)
(* "bare" header that mentions no fragments, or for neither.               *)
Rooms == {"both", "bare", "none"}

(* A response that names a document: whether it has main_content, how many *)
(* highlights survive cleaning, and the room its metadata leave.           *)
Responses == [end : {"docs"}, doc : Docs, content : BOOLEAN,
              snippets : 0..MAX_PASSAGES, room : Rooms]

(* The other ways the request can end, as in PortalSearch. *)
Failures == {"empty", "invalid", "timeout", "http", "value", "other"}

Without(end) == [end |-> end, doc |-> None, content |-> FALSE, snippets |-> 0,
                 room |-> "none"]

Statuses == {"success", "error", "timeout"}

Requests == [doc : Docs, query : BOOLEAN]

-----------------------------------------------------------------------------
(* When the counters fire: the highlight counters on content and           *)
(* highlights, before it is known whether the passages fit.                *)
Nudges(r, query) == r.doc \in Documentation /\ ~query
Used(r, query) == query /\ r.content /\ r.snippets > 0
FellBack(r, query) == query /\ r.content /\ r.snippets = 0

(* _format_document_content: which branch of the decision tree is taken.   *)
(* linked: a passage has a home section, so the header is the longer one   *)
(* that speaks of fragments; it has to leave room for the passages.        *)
Body(r, query, linked) ==
    IF Nudges(r, query) THEN "nudge"
    ELSE IF ~r.content THEN "none"
    ELSE IF ~query \/ r.snippets = 0 THEN "content"
    ELSE IF r.doc \in Others THEN "highlights"
    ELSE IF r.room = "both" \/ (r.room = "bare" /\ ~linked) THEN "passages"
    ELSE "none"

(* Mutant: passages without a home section are always dropped. *)
PlacedStrict(snippets, located, own) ==
    IF own THEN located ELSE snippets

(* _place_passages: how many passages are kept when located of them have a *)
(* home section; own: the page's outline is at hand.                       *)
Placed(snippets, located, own) ==
    IF own /\ located > 0 THEN located ELSE snippets

One(condition) == IF condition THEN 1 ELSE 0

Formatted(r, query, page, located) ==
    LET linked == page # NoOutline /\ located > 0
        body == Body(r, query, linked)
        kept == Placed(r.snippets, located, page # NoOutline)
    IN  [text |-> "document", doc |-> r.doc, body |-> body,
         passages |-> CASE body = "passages" -> kept
                        [] body = "highlights" -> r.snippets
                        [] OTHER -> 0,
         anchors |-> IF body = "nudge" \/ (body = "passages" /\ linked)
                     THEN page ELSE NoOutline]

(* Mutant: the passages that were kept are subtracted the wrong way. *)
CountedSwapped(m, r, query, page, located) ==
    [m EXCEPT !.tocDropped =
        @ + (IF r.doc \in Documentation /\ Used(r, query)
             THEN Placed(r.snippets, located, page # NoOutline) - r.snippets ELSE 0)]

(* Mutant: the highlights are counted as they are shown. *)
CountedShown(m, r, query, page, located) ==
    [m EXCEPT !.nudge = @ + One(Nudges(r, query)),
              !.used = @ + One(Formatted(r, query, page, located).passages > 0),
              !.fallback = @ + One(FellBack(r, query))]

Counted(m, r, query, page, located) ==
    LET dropped == IF r.doc \in Documentation /\ Used(r, query)
                   THEN r.snippets - Placed(r.snippets, located, page # NoOutline)
                   ELSE 0
    IN  [m EXCEPT !.nudge = @ + One(Nudges(r, query)),
                  !.used = @ + One(Used(r, query)),
                  !.fallback = @ + One(FellBack(r, query)),
                  !.tocDropped = @ + dropped]

(* What the tool returns when there is no document to show. *)
Plain(text) == [text |-> text, doc |-> None, body |-> "none", passages |-> 0,
                anchors |-> NoOutline]

(* The finally clause of the tool. *)
Finish(c, answer, counted) ==
    /\ phase' = [phase EXCEPT ![c] = "done"]
    /\ reply' = [reply EXCEPT ![c] = answer]
    /\ metrics' = [counted EXCEPT !.toolDuration = @ + 1]

(* The call formats the response with the outline it has and is over.      *)
(* located: how many of the passages the outline places.                   *)
Format(c, r, page, m) ==
    \E located \in 0..r.snippets :
       Finish(c, Formatted(r, asked[c].query, page, located),
              Counted(m, r, asked[c].query, page, located))

-----------------------------------------------------------------------------
Init ==
    /\ client = "open"
    /\ phase = [c \in Calls |-> "idle"]
    /\ asked = [c \in Calls |-> None]
    /\ solr = [c \in Calls |-> None]
    /\ reply = [c \in Calls |-> None]
    /\ metrics = [toolCalls |-> 0, toolDuration |-> 0, solr |-> [s \in Statuses |-> 0],
                  notFound |-> 0, nudge |-> 0, used |-> 0, fallback |-> 0,
                  tocDropped |-> 0]
    /\ Memo!Init

(* A doc_id urlsplit rejects (unbalanced brackets in the host):            *)
(* _normalize_doc_id runs before the try, so the ValueError leaves the     *)
(* tool and no duration is observed.                                       *)
Malformed(c) ==
    /\ phase[c] = "idle"
    /\ phase' = [phase EXCEPT ![c] = "done"]
    /\ reply' = [reply EXCEPT ![c] = Plain("raised")]
    /\ metrics' = [metrics EXCEPT !.toolCalls = @ + 1]
    /\ UNCHANGED <<client, asked, solr, fetcher>>

Start(c, request) ==
    /\ client = "open"
    /\ phase[c] = "idle"
    /\ phase' = [phase EXCEPT ![c] = "solr"]
    /\ asked' = [asked EXCEPT ![c] = request]
    /\ metrics' = [metrics EXCEPT !.toolCalls = @ + 1]
    /\ UNCHANGED <<client, solr, reply, fetcher>>

(* A closed client refuses the request with a RuntimeError, which neither  *)
(* _solr_query nor the tool handles.                                       *)
StartRefused(c, request) ==
    /\ client = "closed"
    /\ phase[c] = "idle"
    /\ asked' = [asked EXCEPT ![c] = request]
    /\ solr' = [solr EXCEPT ![c] = Without("other")]
    /\ Finish(c, Plain("raised"),
              [metrics EXCEPT !.toolCalls = @ + 1,
                              !.solr["success"] = @ + One(request.query)])
    /\ UNCHANGED <<client, fetcher>>

(* The lifespan ends and closes the client.  Requests under way still end, *)
(* in an answer or in an error; no request is made any more.               *)
Shutdown ==
    /\ client = "open"
    /\ client' = "closed"
    /\ UNCHANGED <<phase, asked, solr, reply, metrics, fetcher>>

(* Only the query path goes through _solr_query and its counters. *)
Queried(c, status) ==
    IF asked[c].query THEN [metrics EXCEPT !.solr[status] = @ + 1] ELSE metrics

(* Mutant: the page is awaited even when its outline is known. *)
SolrAnswersAwaiting(c, r) ==
    /\ phase[c] = "solr"
    /\ r.doc = asked[c].doc /\ (r.snippets > 0 => asked[c].query)
    /\ solr' = [solr EXCEPT ![c] = r]
    /\ IF r.doc \in Others
       THEN Format(c, r, NoOutline, Queried(c, "success")) /\ UNCHANGED fetcher
       ELSE /\ Memo!Ask(c, r.doc) \/ Memo!AnswerNow(c, r.doc)
            /\ phase' = [phase EXCEPT ![c] = "outline"]
            /\ metrics' = Queried(c, "success")
            /\ UNCHANGED reply
    /\ UNCHANGED <<client, asked>>

(* Solr names the document.  Highlights come only with a query.  A         *)
(* documentation page needs its outline: the fetcher answers at once or    *)
(* the call awaits the mirror, if the client still takes the request.      *)
(* (Without a mirror there is no fetcher, and the call goes on as if it    *)
(* had answered with the empty outline.)                                   *)
SolrAnswers(c, r) ==
    /\ phase[c] = "solr"
    /\ r.doc = asked[c].doc /\ (r.snippets > 0 => asked[c].query)
    /\ solr' = [solr EXCEPT ![c] = r]
    /\ \/ /\ r.doc \in Others
          /\ Format(c, r, NoOutline, Queried(c, "success"))
          /\ UNCHANGED fetcher
       \/ /\ r.doc \in Documentation
          /\ Memo!AnswerNow(c, r.doc)
          /\ Format(c, r, outline'[c], Queried(c, "success"))
       \/ /\ r.doc \in Documentation
          /\ Memo!Ask(c, r.doc)
          /\ phase' = [phase EXCEPT ![c] = IF client = "open" THEN "outline"
                                           ELSE "refused"]
          /\ metrics' = Queried(c, "success")
          /\ UNCHANGED reply
    /\ UNCHANGED <<client, asked>>

(* No document: Solr has none, the body does not validate (which the query *)
(* path swallows and the raw path meets as a ValueError), or the request   *)
(* fails.                                                                  *)
SolrFails(c, end) ==
    LET missing == end = "empty" \/ (end = "invalid" /\ asked[c].query)
        text == IF missing THEN "not_found"
                ELSE CASE end = "timeout" -> "timed_out"
                       [] end \in {"invalid", "http", "value"} -> "unable"
                       [] OTHER -> "raised"
        status == CASE end = "timeout" -> "timeout"
                    [] end \in {"invalid", "http", "value"} -> "error"
                    [] OTHER -> "success"
    IN  /\ phase[c] = "solr"
        /\ solr' = [solr EXCEPT ![c] = Without(end)]
        /\ Finish(c, Plain(text),
                  [Queried(c, status) EXCEPT !.notFound = @ + One(missing)])
        /\ UNCHANGED <<client, asked, fetcher>>

(* Mutant: the call takes the outline some call loaded last. *)
OutlineReturnsShared(c) ==
    /\ phase[c] = "outline"
    /\ \E page \in {asking[c], NoOutline}, forgotten \in SUBSET Documentation :
          Memo!Learn(c, page, forgotten)
    /\ \E d \in Calls : outline'[d] # None /\ outline'[d] # Raised
                        /\ Format(c, solr[c], outline'[d], metrics)
    /\ UNCHANGED <<client, asked, solr>>

OutlineReturns(c) ==
    /\ phase[c] = "outline"
    /\ \E page \in {asking[c], NoOutline}, forgotten \in SUBSET Documentation :
          /\ Memo!Learn(c, page, forgotten)
          /\ Format(c, solr[c], page, metrics)
    /\ UNCHANGED <<client, asked, solr>>

(* The fetcher raises what it does not map to the empty outline, and what  *)
(* is no HTTPError or ValueError leaves the tool: so does a refused        *)
(* request.                                                                *)
OutlineRaises(c) ==
    /\ phase[c] \in {"outline", "refused"}
    /\ Memo!GiveUp(c)
    /\ Finish(c, Plain("raised"), metrics)
    /\ UNCHANGED <<client, asked, solr>>

(* The client withdraws the call: CancelledError passes every handler.     *)
Cancel(c) ==
    /\ \/ /\ phase[c] = "solr"
          /\ Finish(c, Plain("cancelled"), Queried(c, "success"))
          /\ UNCHANGED fetcher
       \/ /\ phase[c] = "outline"
          /\ Memo!GiveUp(c)
          /\ Finish(c, Plain("cancelled"), metrics)
    /\ UNCHANGED <<client, asked, solr>>

SolrEnds(c) ==
    (\E r \in Responses : SolrAnswers(c, r)) \/ (\E end \in Failures : SolrFails(c, end))

OutlineEnds(c) == OutlineReturns(c) \/ OutlineRaises(c)

Next ==
    \/ Shutdown
    \/ \E c \in Calls :
        \/ Malformed(c) \/ SolrEnds(c) \/ OutlineEnds(c) \/ Cancel(c)
        \/ \E request \in Requests : Start(c, request) \/ StartRefused(c, request)

SafeSpec == Init /\ [][Next]_vars

(* The 30 second timeout of the client ends every request. *)
Spec ==
    /\ SafeSpec
    /\ \A c \in Calls : WF_vars(SolrEnds(c)) /\ WF_vars(OutlineEnds(c))

-----------------------------------------------------------------------------
Bodies == {"nudge", "none", "content", "highlights", "passages"}
Texts == {"document", "not_found", "timed_out", "unable", "raised", "cancelled"}

Replies == [text : Texts, doc : Docs \cup {None}, body : Bodies,
            passages : 0..MAX_PASSAGES, anchors : Documentation \cup {NoOutline}]

ASSUME UnansweredAssumption == None \notin Requests \cup Replies

Metrics == [toolCalls : Nat, toolDuration : Nat, solr : [Statuses -> Nat],
            notFound : Nat, nudge : Nat, used : Nat, fallback : Nat,
            tocDropped : Nat]

TypeOK ==
    /\ client \in {"open", "closed"}
    /\ phase \in [Calls -> {"idle", "solr", "outline", "refused", "done"}]
    /\ asked \in [Calls -> Requests \cup {None}]
    /\ solr \in [Calls -> Responses \cup {Without(end) : end \in Failures} \cup {None}]
    /\ reply \in [Calls -> Replies \cup {None}]
    /\ metrics \in Metrics
    /\ memo \in [Documentation -> Documentation \cup {NoOutline, Absent}]
    /\ asking \in [Calls -> Documentation \cup {None}]
    /\ outline \in [Calls -> Documentation \cup {NoOutline, None, Raised}]

(* Replies that show a document. *)
Shown == {c \in Calls : reply[c] # None /\ reply[c].text = "document"}

(* A reply shows the document that was asked for, with the anchors of that *)
(* document or none: a fragment of another guide would be a dead link.     *)
AnchorsBelong ==
    \A c \in Shown :
        /\ reply[c].doc = asked[c].doc
        /\ reply[c].anchors \in {asked[c].doc, NoOutline}

(* The metadata leave room for the bare header only: c shows its passages  *)
(* without a link, and d, whose outline placed some of them, shows none,   *)
(* because the header that explains the links is 70 characters longer.     *)
LinksCrowdOut(c, d) ==
    /\ solr[c].room = "bare"
    /\ reply[c].body = "passages" /\ reply[c].anchors = NoOutline
    /\ reply[d].body = "none" /\ outline[d] \in Documentation

(* "The outline is a navigational extra": two calls that asked for the     *)
(* same and got the same from Solr are served the same kind of body, and   *)
(* both see passages or neither does, whatever the mirror and the cache    *)
(* had to offer to each (_place_passages, _format_document_passages) - but *)
(* for metadata within 70 characters of the budget, where links cost one   *)
(* of them its passages.                                                   *)
OutlineOnlyDecorates ==
    \A c, d \in Shown :
        asked[c] = asked[d] /\ solr[c] = solr[d] =>
            \/ /\ reply[c].body = reply[d].body
               /\ reply[c].passages > 0 <=> reply[d].passages > 0
            \/ LinksCrowdOut(c, d)
            \/ LinksCrowdOut(d, c)

Replied == {c \in Calls : reply[c] # None}
WithQuery == {c \in Calls : asked[c] # None /\ asked[c].query}

(* Every lookup is counted once, under what became of it: durations for    *)
(* the calls whose doc_id could be read, Solr queries for those with a     *)
(* query, and for the documents with content a caller's query reached,     *)
(* either the highlights or the fallback.                                  *)
DocumentsAccounted ==
    /\ metrics.toolCalls = Cardinality({c \in Calls : phase[c] # "idle"})
    /\ metrics.toolDuration = Cardinality({c \in Replied : asked[c] # None})
    /\ metrics.notFound = Cardinality({c \in Replied : reply[c].text = "not_found"})
    /\ metrics.nudge = Cardinality({c \in Replied : reply[c].body = "nudge"})
    /\ metrics.used + metrics.fallback
          = Cardinality({c \in Shown \cap WithQuery : solr[c].content})
    /\ metrics.solr["success"] + metrics.solr["error"] + metrics.solr["timeout"]
          = Cardinality({c \in WithQuery : phase[c] \in {"outline", "refused", "done"}})

(* Every call that reached Solr comes to an end, whatever Solr and the     *)
(* mirror do and whenever the client is closed under it.                   *)
EveryCallEnds == \A c \in Calls : phase[c] = "solr" ~> phase[c] = "done"
=============================================================================
