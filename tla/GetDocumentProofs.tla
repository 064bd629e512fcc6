-------------------------- MODULE GetDocumentProofs ---------------------------
(***************************************************************************)
(* Type correctness of GetDocument, that a reply carries the anchors of    *)
(* its own document, that the outline decides nothing but anchors, and     *)
(* that lookups are counted once, for any set of calls and documents.      *)
(***************************************************************************)
EXTENDS GetDocument, Counting, TLAPS

Open == {"solr", "outline", "refused"}

(* A call that has not ended has no reply; one that waits knows what it    *)
(* asked for, and the fetcher was asked for that document's outline.       *)
Waiting(c) ==
    /\ phase[c] # "done" => reply[c] = None
    /\ phase[c] \in Open => asked[c] \in Requests
    /\ phase[c] \in {"outline", "refused"} =>
          /\ solr[c] \in Responses
          /\ solr[c].doc = asked[c].doc
          /\ asking[c] = asked[c].doc
          /\ asking[c] \in Documentation

Own(c) == c \in Shown =>
            /\ reply[c].doc = asked[c].doc
            /\ reply[c].anchors \in {asked[c].doc, NoOutline}

(* The memo holds outlines under the documents they belong to.             *)
MemoOwn == \A d \in Documentation : memo[d] \in {d, NoOutline, Absent}

IInv == TypeOK /\ MemoOwn /\ \A c \in Calls : Waiting(c) /\ Own(c)

-----------------------------------------------------------------------------
(* What a reply is made of is of the types it has.                         *)

LEMMA PlainTypes ==
    ASSUME NEW t \in Texts
    PROVE  Plain(t) \in Replies
<1>1. 0 \in 0..MAX_PASSAGES
  BY PassagesAssumption
<1>2. "none" \in Bodies
  BY DEF Bodies
<1> QED
  BY <1>1, <1>2 DEF Plain, Replies

LEMMA BodyTypes ==
    ASSUME NEW r \in Responses, NEW query \in BOOLEAN, NEW linked \in BOOLEAN
    PROVE  Body(r, query, linked) \in Bodies
BY DEF Body, Bodies

LEMMA PlacedTypes ==
    ASSUME NEW snippets \in 0..MAX_PASSAGES, NEW located \in 0..snippets, NEW own
    PROVE  Placed(snippets, located, own) \in 0..snippets
BY PassagesAssumption DEF Placed

LEMMA FormattedTypes ==
    ASSUME NEW r \in Responses, NEW query \in BOOLEAN,
           NEW page \in Documentation \cup {NoOutline}, NEW located \in 0..r.snippets
    PROVE  Formatted(r, query, page, located) \in Replies
<1> DEFINE linked == page # NoOutline /\ located > 0
           body == Body(r, query, linked)
           kept == Placed(r.snippets, located, page # NoOutline)
           passages == CASE body = "passages" -> kept
                         [] body = "highlights" -> r.snippets
                         [] OTHER -> 0
           anchors == IF body = "nudge" \/ (body = "passages" /\ linked)
                      THEN page ELSE NoOutline
<1>1. r.snippets \in 0..MAX_PASSAGES /\ r.doc \in Docs
  BY DEF Responses
<1>2. kept \in 0..MAX_PASSAGES
  <2>1. kept \in 0..r.snippets
    BY <1>1, PlacedTypes
  <2> QED
    BY <1>1, <2>1, PassagesAssumption
<1>3. body \in Bodies
  BY BodyTypes
<1>4. passages \in 0..MAX_PASSAGES
  BY <1>1, <1>2, PassagesAssumption
<1>5. anchors \in Documentation \cup {NoOutline}
  OBVIOUS
<1>6. Formatted(r, query, page, located) =
        [text |-> "document", doc |-> r.doc, body |-> body, passages |-> passages,
         anchors |-> anchors]
  BY DEF Formatted
<1> HIDE DEF linked, body, kept, passages, anchors
<1> QED
  BY <1>1, <1>3, <1>4, <1>5, <1>6 DEF Replies, Texts

LEMMA CountedTypes ==
    ASSUME NEW m \in Metrics, NEW r \in Responses, NEW query \in BOOLEAN,
           NEW page \in Documentation \cup {NoOutline}, NEW located \in 0..r.snippets
    PROVE  Counted(m, r, query, page, located) \in Metrics
<1> DEFINE kept == Placed(r.snippets, located, page # NoOutline)
           dropped == IF r.doc \in Documentation /\ Used(r, query)
                      THEN r.snippets - kept ELSE 0
<1>1. r.snippets \in 0..MAX_PASSAGES
  BY DEF Responses
<1>2. kept \in 0..r.snippets
  BY <1>1, PlacedTypes
<1>3. dropped \in Nat
  BY <1>1, <1>2, PassagesAssumption
<1> DEFINE nudge == One(Nudges(r, query))
           used == One(Used(r, query))
           fallback == One(FellBack(r, query))
<1>4. nudge \in Nat /\ used \in Nat /\ fallback \in Nat
  BY DEF One
<1>5. Counted(m, r, query, page, located) =
        [m EXCEPT !.nudge = @ + nudge, !.used = @ + used,
                  !.fallback = @ + fallback, !.tocDropped = @ + dropped]
  BY DEF Counted
<1> HIDE DEF dropped, kept, nudge, used, fallback
<1>6. Counted(m, r, query, page, located) =
        [m EXCEPT !.nudge = m.nudge + nudge, !.used = m.used + used,
                  !.fallback = m.fallback + fallback,
                  !.tocDropped = m.tocDropped + dropped]
  BY <1>5 DEF Metrics
<1>7. /\ m.nudge + nudge \in Nat /\ m.used + used \in Nat
      /\ m.fallback + fallback \in Nat /\ m.tocDropped + dropped \in Nat
  BY <1>3, <1>4 DEF Metrics
<1> QED
  BY <1>6, <1>7 DEF Metrics

LEMMA QueriedTypes ==
    ASSUME metrics \in Metrics, NEW c, NEW status \in Statuses
    PROVE  Queried(c, status) \in Metrics
<1>1. metrics.solr[status] + 1 \in Nat
  BY DEF Metrics
<1>2. Queried(c, status) \in {[metrics EXCEPT !.solr[status] = metrics.solr[status] + 1], metrics}
  BY DEF Queried
<1> QED
  BY <1>1, <1>2 DEF Metrics

LEMMA DurationTypes ==
    ASSUME NEW m \in Metrics
    PROVE  [m EXCEPT !.toolDuration = @ + 1] \in Metrics
BY DEF Metrics

-----------------------------------------------------------------------------
(* What a step of one call means for the others: nothing.                  *)

LEMMA OthersKeep ==
    ASSUME IInv, NEW c \in Calls, NEW d \in Calls, d # c,
           phase'[d] = phase[d], asked'[d] = asked[d], solr'[d] = solr[d],
           reply'[d] = reply[d], asking'[d] = asking[d]
    PROVE  (Waiting(d) /\ Own(d))'
<1>1. Waiting(d) /\ Own(d)
  BY DEF IInv
<1> QED
  BY <1>1 DEF Waiting, Own, Shown

(* A call that ends has nothing to wait for; its reply must be its own.    *)
LEMMA FinishKeeps ==
    ASSUME IInv, NEW c \in Calls, NEW answer \in Replies, NEW counted \in Metrics,
           Finish(c, answer, counted)
    PROVE  /\ phase' \in [Calls -> {"idle", "solr", "outline", "refused", "done"}]
           /\ reply' \in [Calls -> Replies \cup {None}]
           /\ metrics' \in Metrics
           /\ phase'[c] = "done" /\ reply'[c] = answer
           /\ \A d \in Calls \ {c} : phase'[d] = phase[d] /\ reply'[d] = reply[d]
<1>1. metrics' \in Metrics
  BY DurationTypes DEF Finish
<1> QED
  BY <1>1 DEF Finish, IInv, TypeOK

(* The call that formats what Solr answered, with its page's outline or    *)
(* none.                                                                   *)
LEMMA FormatKeeps ==
    ASSUME IInv, NEW c \in Calls, NEW r \in Responses, asked[c] \in Requests,
           NEW page \in Documentation \cup {NoOutline}, NEW m \in Metrics,
           r.doc = asked[c].doc, page \in {r.doc, NoOutline},
           Format(c, r, page, m), asked' = asked
    PROVE  /\ phase' \in [Calls -> {"idle", "solr", "outline", "refused", "done"}]
           /\ reply' \in [Calls -> Replies \cup {None}]
           /\ metrics' \in Metrics
           /\ phase'[c] = "done" /\ Own(c)'
           /\ \A d \in Calls \ {c} : phase'[d] = phase[d] /\ reply'[d] = reply[d]
<1>1. PICK located \in 0..r.snippets :
         Finish(c, Formatted(r, asked[c].query, page, located),
                Counted(m, r, asked[c].query, page, located))
  BY DEF Format
<1>2. asked[c].query \in BOOLEAN
  BY DEF Requests
<1> DEFINE answer == Formatted(r, asked[c].query, page, located)
<1>3. answer \in Replies
  BY <1>2, FormattedTypes
<1>4. Counted(m, r, asked[c].query, page, located) \in Metrics
  BY <1>2, CountedTypes
<1>5. answer.doc = asked[c].doc /\ answer.anchors \in {asked[c].doc, NoOutline}
  BY DEF Formatted
<1>6. reply'[c] = answer
  BY <1>1, <1>3, <1>4, FinishKeeps
<1>7. Own(c)'
  BY <1>5, <1>6 DEF Own
<1> HIDE DEF answer
<1> QED
  BY <1>1, <1>3, <1>4, <1>7, FinishKeeps DEF answer

(* A call that ends without a document.                                    *)
LEMMA PlainKeeps ==
    ASSUME IInv, NEW c \in Calls, NEW t \in Texts \ {"document"}, NEW m \in Metrics,
           Finish(c, Plain(t), m)
    PROVE  /\ phase' \in [Calls -> {"idle", "solr", "outline", "refused", "done"}]
           /\ reply' \in [Calls -> Replies \cup {None}]
           /\ metrics' \in Metrics
           /\ phase'[c] = "done" /\ Own(c)'
           /\ \A d \in Calls \ {c} : phase'[d] = phase[d] /\ reply'[d] = reply[d]
<1>1. Plain(t) \in Replies
  BY PlainTypes
<1>2. reply'[c] = Plain(t)
  BY <1>1, FinishKeeps
<1>3. Own(c)'
  BY <1>2 DEF Own, Shown, Plain
<1> QED
  BY <1>1, <1>3, FinishKeeps

-----------------------------------------------------------------------------
(* The steps of the outline fetcher. *)

FetcherOK ==
    /\ memo \in [Documentation -> Documentation \cup {NoOutline, Absent}]
    /\ asking \in [Calls -> Documentation \cup {None}]
    /\ outline \in [Calls -> Documentation \cup {NoOutline, None, Raised}]
    /\ MemoOwn

LEMMA IdleFetcherKeeps ==
    ASSUME FetcherOK, UNCHANGED fetcher
    PROVE  FetcherOK' /\ asking' = asking
BY DEF FetcherOK, fetcher, MemoOwn

LEMMA AnswerNowKeeps ==
    ASSUME FetcherOK, NEW c \in Calls, NEW d \in Documentation, Memo!AnswerNow(c, d)
    PROVE  FetcherOK' /\ asking' = asking /\ outline'[c] \in {d, NoOutline}
<1>1. memo' = memo /\ asking' = asking
  BY DEF Memo!AnswerNow
<1>2. outline'[c] \in {d, NoOutline}
  BY DEF FetcherOK, MemoOwn, Memo!AnswerNow
<1>3. outline' \in [Calls -> Documentation \cup {NoOutline, None, Raised}]
  BY <1>2 DEF FetcherOK, Memo!AnswerNow
<1> QED
  BY <1>1, <1>2, <1>3 DEF FetcherOK, MemoOwn

LEMMA AskKeeps ==
    ASSUME FetcherOK, NEW c \in Calls, NEW d \in Documentation, Memo!Ask(c, d)
    PROVE  FetcherOK' /\ asking'[c] = d /\ \A e \in Calls \ {c} : asking'[e] = asking[e]
BY DEF FetcherOK, MemoOwn, Memo!Ask

LEMMA LearnKeeps ==
    ASSUME FetcherOK, NEW c \in Calls, asking[c] \in Documentation, NEW page,
           NEW forgotten \in SUBSET Documentation, Memo!Learn(c, page, forgotten)
    PROVE  FetcherOK' /\ \A e \in Calls \ {c} : asking'[e] = asking[e]
<1>1. page \in {asking[c], NoOutline}
  BY DEF Memo!Learn
<1>2. memo' = [d \in Documentation |-> IF d = asking[c] THEN page
                                      ELSE IF d \in forgotten THEN Absent ELSE memo[d]]
  BY DEF Memo!Learn
<1>3. outline' = [outline EXCEPT ![c] = page] /\ asking' = [asking EXCEPT ![c] = None]
  BY DEF Memo!Learn
<1> QED
  BY <1>1, <1>2, <1>3 DEF FetcherOK, MemoOwn

LEMMA GiveUpKeeps ==
    ASSUME FetcherOK, NEW c \in Calls, Memo!GiveUp(c)
    PROVE  FetcherOK' /\ \A e \in Calls \ {c} : asking'[e] = asking[e]
BY DEF FetcherOK, MemoOwn, Memo!GiveUp

-----------------------------------------------------------------------------
(* A step of one call keeps the invariant if it keeps the types and what   *)
(* the invariant says of that call.                                        *)
LEMMA CallStepKeeps ==
    ASSUME IInv, NEW c \in Calls,
           client' = client,
           phase' \in [Calls -> {"idle", "solr", "outline", "refused", "done"}],
           asked' \in [Calls -> Requests \cup {None}],
           solr' \in [Calls -> Responses \cup {Without(end) : end \in Failures} \cup {None}],
           reply' \in [Calls -> Replies \cup {None}],
           metrics' \in Metrics,
           FetcherOK', (Waiting(c) /\ Own(c))',
           \A d \in Calls \ {c} :
              /\ phase'[d] = phase[d] /\ asked'[d] = asked[d] /\ solr'[d] = solr[d]
              /\ reply'[d] = reply[d] /\ asking'[d] = asking[d]
    PROVE  IInv'
<1>1. \A d \in Calls : (Waiting(d) /\ Own(d))'
  <2> TAKE d \in Calls
  <2>1. CASE d = c
    BY <2>1
  <2>2. CASE d # c
    BY <2>2, OthersKeep
  <2> QED
    BY <2>1, <2>2
<1> QED
  BY <1>1 DEF IInv, TypeOK, FetcherOK

LEMMA FetcherFine == IInv => FetcherOK
BY DEF IInv, TypeOK, FetcherOK

LEMMA Initial == Init => IInv
<1> SUFFICES ASSUME Init PROVE IInv
  OBVIOUS
<1>1. metrics \in Metrics
  BY DEF Init, Metrics
<1>2. FetcherOK
  BY DEF Init, Memo!Init, FetcherOK, MemoOwn
<1>3. TypeOK
  BY <1>1, <1>2 DEF Init, TypeOK, FetcherOK
<1>4. \A c \in Calls : Waiting(c) /\ Own(c)
  BY DEF Init, Waiting, Own, Shown, Open
<1> QED
  BY <1>2, <1>3, <1>4 DEF IInv, FetcherOK

LEMMA MalformedKeeps ==
    ASSUME IInv, NEW c \in Calls, Malformed(c)
    PROVE  IInv'
<1>1. Plain("raised") \in Replies
  BY PlainTypes DEF Texts
<1>2. reply' = [reply EXCEPT ![c] = Plain("raised")]
      /\ phase' = [phase EXCEPT ![c] = "done"]
      /\ metrics' = [metrics EXCEPT !.toolCalls = @ + 1]
      /\ UNCHANGED <<client, asked, solr>> /\ UNCHANGED fetcher
  BY DEF Malformed
<1>3. metrics' \in Metrics
  BY <1>2 DEF IInv, TypeOK, Metrics
<1>4. FetcherOK' /\ asking' = asking
  BY <1>2, FetcherFine, IdleFetcherKeeps
<1>5. Waiting(c)' /\ Own(c)'
  BY <1>2 DEF Waiting, Own, Open, Shown, Plain, IInv, TypeOK
<1> QED
  BY <1>1, <1>2, <1>3, <1>4, <1>5, CallStepKeeps DEF IInv, TypeOK

LEMMA StartKeeps ==
    ASSUME IInv, NEW c \in Calls, NEW request \in Requests, Start(c, request)
    PROVE  IInv'
<1>1. /\ phase[c] = "idle" /\ phase' = [phase EXCEPT ![c] = "solr"]
      /\ asked' = [asked EXCEPT ![c] = request]
      /\ metrics' = [metrics EXCEPT !.toolCalls = @ + 1]
      /\ UNCHANGED <<client, solr, reply>> /\ UNCHANGED fetcher
  BY DEF Start
<1>2. metrics' \in Metrics
  BY <1>1 DEF IInv, TypeOK, Metrics
<1>3. FetcherOK' /\ asking' = asking
  BY <1>1, FetcherFine, IdleFetcherKeeps
<1>4. Waiting(c)' /\ Own(c)'
  BY <1>1 DEF Waiting, Own, Open, Shown, IInv, TypeOK
<1> QED
  BY <1>1, <1>2, <1>3, <1>4, CallStepKeeps DEF IInv, TypeOK

(* A call that ends waits for nothing. *)
LEMMA DoneWaits == ASSUME NEW c \in Calls, phase'[c] = "done" PROVE Waiting(c)'
BY DEF Waiting, Open

LEMMA StartRefusedKeeps ==
    ASSUME IInv, NEW c \in Calls, NEW request \in Requests, StartRefused(c, request)
    PROVE  IInv'
<1> DEFINE n == One(request.query)
           m == [metrics EXCEPT !.toolCalls = @ + 1, !.solr["success"] = @ + n]
<1>1. /\ asked' = [asked EXCEPT ![c] = request]
      /\ solr' = [solr EXCEPT ![c] = Without("other")]
      /\ Finish(c, Plain("raised"), m)
      /\ client' = client /\ UNCHANGED fetcher
  BY DEF StartRefused
<1>2. n \in Nat
  BY DEF One
<1>3. m \in Metrics
  <2> HIDE DEF n
  <2>1. metrics.toolCalls + 1 \in Nat /\ metrics.solr["success"] + n \in Nat
    BY <1>2 DEF IInv, TypeOK, Metrics, Statuses
  <2>2. m = [metrics EXCEPT !.toolCalls = metrics.toolCalls + 1,
                            !.solr["success"] = metrics.solr["success"] + n]
    BY DEF IInv, TypeOK, Metrics
  <2> QED
    BY <2>1, <2>2 DEF IInv, TypeOK, Metrics
<1> HIDE DEF m
<1>4. FetcherOK' /\ asking' = asking
  BY <1>1, FetcherFine, IdleFetcherKeeps
<1>5. Plain("raised") \in Replies /\ "raised" \in Texts \ {"document"}
  BY PlainTypes DEF Texts
<1>6. reply'[c] = Plain("raised") /\ phase'[c] = "done"
  BY <1>1, <1>3, <1>5, FinishKeeps
<1>7. Waiting(c)' /\ Own(c)'
  BY <1>6, DoneWaits DEF Own, Shown, Plain
<1>8. "other" \in Failures
  BY DEF Failures
<1> QED
  BY <1>1, <1>3, <1>4, <1>5, <1>7, <1>8, FinishKeeps, CallStepKeeps DEF IInv, TypeOK

LEMMA SolrAnswersKeeps ==
    ASSUME IInv, NEW c \in Calls, NEW r \in Responses, SolrAnswers(c, r)
    PROVE  IInv'
<1>1. /\ phase[c] = "solr" /\ r.doc = asked[c].doc /\ (r.snippets > 0 => asked[c].query)
      /\ solr' = [solr EXCEPT ![c] = r] /\ client' = client /\ asked' = asked
  BY DEF SolrAnswers
<1>2. asked[c] \in Requests /\ reply[c] = None /\ FetcherOK
  BY <1>1, FetcherFine DEF IInv, Waiting, Open
<1>3. "success" \in Statuses
  BY DEF Statuses
<1>4. Queried(c, "success") \in Metrics
  BY <1>3, QueriedTypes DEF IInv, TypeOK
<1>5. CASE r.doc \in Others /\ Format(c, r, NoOutline, Queried(c, "success"))
           /\ UNCHANGED fetcher
  <2>1. FetcherOK' /\ asking' = asking
    BY <1>2, <1>5, IdleFetcherKeeps
  <2> QED
    BY <1>1, <1>2, <1>4, <1>5, <2>1, FormatKeeps, DoneWaits, CallStepKeeps DEF IInv, TypeOK
<1>6. CASE r.doc \in Documentation /\ Memo!AnswerNow(c, r.doc)
           /\ Format(c, r, outline'[c], Queried(c, "success"))
  <2>1. FetcherOK' /\ asking' = asking /\ outline'[c] \in {r.doc, NoOutline}
    BY <1>2, <1>6, AnswerNowKeeps
  <2> QED
    BY <1>1, <1>2, <1>4, <1>6, <2>1, FormatKeeps, DoneWaits, CallStepKeeps DEF IInv, TypeOK
<1>7. CASE /\ r.doc \in Documentation /\ Memo!Ask(c, r.doc)
           /\ phase' = [phase EXCEPT ![c] = IF client = "open" THEN "outline" ELSE "refused"]
           /\ metrics' = Queried(c, "success") /\ UNCHANGED reply
  <2>1. FetcherOK' /\ asking'[c] = r.doc /\ \A d \in Calls \ {c} : asking'[d] = asking[d]
    BY <1>2, <1>7, AskKeeps
  <2>2. phase'[c] \in {"outline", "refused"} /\ solr'[c] = r
    BY <1>1, <1>7 DEF IInv, TypeOK
  <2>3. Waiting(c)' /\ Own(c)'
    BY <1>1, <1>2, <1>7, <2>1, <2>2 DEF Waiting, Open, Own, Shown
  <2>4. /\ \A d \in Calls \ {c} : phase'[d] = phase[d] /\ solr'[d] = solr[d]
        /\ phase' \in [Calls -> {"idle", "solr", "outline", "refused", "done"}]
        /\ solr' \in [Calls -> Responses \cup {Without(end) : end \in Failures} \cup {None}]
    BY <1>1, <1>7 DEF IInv, TypeOK
  <2> QED
    BY <1>1, <1>4, <1>7, <2>1, <2>3, <2>4, CallStepKeeps DEF IInv, TypeOK
<1> QED
  BY <1>5, <1>6, <1>7 DEF SolrAnswers

LEMMA SolrFailsKeeps ==
    ASSUME IInv, NEW c \in Calls, NEW end \in Failures, SolrFails(c, end)
    PROVE  IInv'
<1> DEFINE missing == end = "empty" \/ (end = "invalid" /\ asked[c].query)
           t == IF missing THEN "not_found"
                ELSE CASE end = "timeout" -> "timed_out"
                       [] end \in {"invalid", "http", "value"} -> "unable"
                       [] OTHER -> "raised"
           status == CASE end = "timeout" -> "timeout"
                       [] end \in {"invalid", "http", "value"} -> "error"
                       [] OTHER -> "success"
           n == One(missing)
           m == [Queried(c, status) EXCEPT !.notFound = @ + n]
<1>1. /\ phase[c] = "solr" /\ solr' = [solr EXCEPT ![c] = Without(end)]
      /\ Finish(c, Plain(t), m)
      /\ client' = client /\ asked' = asked /\ UNCHANGED fetcher
  BY DEF SolrFails
<1>2. t \in Texts \ {"document"}
  BY DEF Texts
<1>3. n \in Nat
  BY DEF One
<1>4. status \in Statuses
  BY DEF Statuses
<1>5. m \in Metrics
  <2> HIDE DEF n, status
  <2>1. Queried(c, status) \in Metrics
    BY <1>4, QueriedTypes DEF IInv, TypeOK
  <2> QED
    BY <1>3, <2>1 DEF Metrics
<1> HIDE DEF t, m
<1>6. FetcherOK' /\ asking' = asking
  BY <1>1, FetcherFine, IdleFetcherKeeps
<1> QED
  BY <1>1, <1>2, <1>5, <1>6, PlainKeeps, DoneWaits, CallStepKeeps DEF IInv, TypeOK

LEMMA OutlineReturnsKeeps ==
    ASSUME IInv, NEW c \in Calls, OutlineReturns(c)
    PROVE  IInv'
<1>1. PICK page \in {asking[c], NoOutline}, forgotten \in SUBSET Documentation :
         Memo!Learn(c, page, forgotten) /\ Format(c, solr[c], page, metrics)
  BY DEF OutlineReturns
<1>2. phase[c] = "outline" /\ client' = client /\ asked' = asked /\ solr' = solr
  BY DEF OutlineReturns
<1>3. /\ asked[c] \in Requests /\ solr[c] \in Responses /\ solr[c].doc = asked[c].doc
      /\ asking[c] = asked[c].doc /\ asking[c] \in Documentation
  BY <1>2 DEF IInv, Waiting, Open
<1>4. FetcherOK' /\ \A d \in Calls \ {c} : asking'[d] = asking[d]
  BY <1>1, <1>3, FetcherFine, LearnKeeps
<1>5. metrics \in Metrics
  BY DEF IInv, TypeOK
<1> QED
  BY <1>1, <1>2, <1>3, <1>4, <1>5, FormatKeeps, DoneWaits, CallStepKeeps DEF IInv, TypeOK

LEMMA GivesUpKeeps ==
    ASSUME IInv, NEW c \in Calls, NEW t \in Texts \ {"document"}, Memo!GiveUp(c),
           Finish(c, Plain(t), metrics), UNCHANGED <<client, asked, solr>>
    PROVE  IInv'
<1>1. FetcherOK' /\ \A d \in Calls \ {c} : asking'[d] = asking[d]
  BY FetcherFine, GiveUpKeeps
<1>2. metrics \in Metrics
  BY DEF IInv, TypeOK
<1> QED
  BY <1>1, <1>2, PlainKeeps, DoneWaits, CallStepKeeps DEF IInv, TypeOK

LEMMA OutlineRaisesKeeps ==
    ASSUME IInv, NEW c \in Calls, OutlineRaises(c)
    PROVE  IInv'
<1>1. "raised" \in Texts \ {"document"}
  BY DEF Texts
<1> QED
  BY <1>1, GivesUpKeeps DEF OutlineRaises

LEMMA CancelKeeps ==
    ASSUME IInv, NEW c \in Calls, Cancel(c)
    PROVE  IInv'
<1>1. "cancelled" \in Texts \ {"document"}
  BY DEF Texts
<1>2. CASE phase[c] = "outline"
  <2>1. Memo!GiveUp(c) /\ Finish(c, Plain("cancelled"), metrics)
        /\ UNCHANGED <<client, asked, solr>>
    BY <1>2 DEF Cancel
  <2> QED
    BY <1>1, <2>1, GivesUpKeeps
<1>3. CASE phase[c] = "solr"
  <2>1. /\ Finish(c, Plain("cancelled"), Queried(c, "success")) /\ UNCHANGED fetcher
        /\ UNCHANGED <<client, asked, solr>>
    BY <1>3 DEF Cancel
  <2>2. Queried(c, "success") \in Metrics
    <3>1. "success" \in Statuses
      BY DEF Statuses
    <3> QED
      BY <3>1, QueriedTypes DEF IInv, TypeOK
  <2>3. FetcherOK' /\ asking' = asking
    BY <2>1, FetcherFine, IdleFetcherKeeps
  <2> QED
    BY <1>1, <2>1, <2>2, <2>3, PlainKeeps, DoneWaits, CallStepKeeps DEF IInv, TypeOK
<1> QED
  BY <1>2, <1>3 DEF Cancel

(* Closing the client touches no call. *)
LEMMA ShutdownKeeps ==
    ASSUME IInv, Shutdown
    PROVE  IInv'
<1>1. /\ client' = "closed" /\ UNCHANGED <<phase, asked, solr, reply, metrics>>
      /\ UNCHANGED <<memo, asking, outline>>
  BY DEF Shutdown, fetcher
<1>2. TypeOK' /\ MemoOwn'
  BY <1>1 DEF IInv, TypeOK, MemoOwn
<1>3. \A c \in Calls : (Waiting(c) /\ Own(c))'
  BY <1>1 DEF IInv, Waiting, Own, Shown
<1> QED
  BY <1>2, <1>3 DEF IInv

LEMMA Inductive == IInv /\ [Next]_vars => IInv'
<1> SUFFICES ASSUME IInv, [Next]_vars PROVE IInv'
  OBVIOUS
<1>1. CASE Shutdown
  BY <1>1, ShutdownKeeps
<1>2. ASSUME NEW c \in Calls,
             \/ Malformed(c) \/ SolrEnds(c) \/ OutlineEnds(c) \/ Cancel(c)
             \/ \E request \in Requests : Start(c, request) \/ StartRefused(c, request)
      PROVE  IInv'
  BY <1>2, MalformedKeeps, SolrAnswersKeeps, SolrFailsKeeps, OutlineReturnsKeeps,
     OutlineRaisesKeeps, CancelKeeps, StartKeeps, StartRefusedKeeps DEF SolrEnds, OutlineEnds
<1>3. CASE UNCHANGED vars
  <2>1. /\ UNCHANGED <<client, phase, asked, solr, reply, metrics>>
        /\ UNCHANGED <<memo, asking, outline>>
    BY <1>3 DEF vars
  <2>2. TypeOK' /\ MemoOwn'
    BY <2>1 DEF IInv, TypeOK, MemoOwn
  <2>3. \A c \in Calls : (Waiting(c) /\ Own(c))'
    BY <2>1 DEF IInv, Waiting, Own, Shown
  <2> QED
    BY <2>2, <2>3 DEF IInv
<1> QED
  BY <1>1, <1>2, <1>3 DEF Next

LEMMA Invariant == SafeSpec => []IInv
BY Initial, Inductive, PTL DEF SafeSpec

(* The variables of the calls, the counters and the fetcher keep their     *)
(* types; no counter goes down below zero (get_document).                  *)
THEOREM TypeCorrect == SafeSpec => []TypeOK
<1>1. IInv => TypeOK
  BY DEF IInv
<1> QED
  BY <1>1, Invariant, PTL

(* Whatever calls overlap, fail or are cancelled between their two awaits, *)
(* and whatever the cache forgets, a reply shows the document that was     *)
(* asked for, with that document's anchors or none (get_document).         *)
THEOREM AnchorsCorrect == SafeSpec => []AnchorsBelong
<1>1. IInv => AnchorsBelong
  BY DEF IInv, AnchorsBelong, Own, Shown
<1> QED
  BY <1>1, Invariant, PTL

-----------------------------------------------------------------------------
(* The reply is made of what Solr said; the outline the fetcher gave, if   *)
(* any, and how many passages it places are all that can differ.           *)
MadeOf(c) ==
    /\ asked[c] \in Requests
    /\ solr[c] \in Responses
    /\ \E page \in Documentation \cup {NoOutline}, located \in 0..solr[c].snippets :
          /\ page \in {outline[c], NoOutline}
          /\ reply[c] = Formatted(solr[c], asked[c].query, page, located)

FromSolr == \A c \in Shown : MadeOf(c)

LEMMA FromSolrInitial == Init => FromSolr
BY DEF Init, FromSolr, Shown

(* A call that is not the one that steps keeps its reply and what it is    *)
(* made of, once it is shown.                                              *)
LEMMA MadeOfKeeps ==
    ASSUME FromSolr, NEW c,
           \A d \in Calls \ {c} : /\ asked'[d] = asked[d] /\ solr'[d] = solr[d]
                                  /\ reply'[d] = reply[d] /\ outline'[d] = outline[d],
           c \in Shown' => MadeOf(c)'
    PROVE  FromSolr'
<1> SUFFICES ASSUME NEW d \in Shown' PROVE MadeOf(d)'
  BY DEF FromSolr
<1>1. CASE d = c
  BY <1>1
<1>2. CASE d # c
  <2>1. d \in Shown
    BY <1>2 DEF Shown
  <2>2. MadeOf(d)
    BY <2>1 DEF FromSolr
  <2> QED
    BY <1>2, <2>1, <2>2 DEF MadeOf, Shown
<1> QED
  BY <1>1, <1>2

LEMMA PlainHides ==
    ASSUME IInv, NEW c \in Calls, NEW t \in Texts \ {"document"}, NEW m,
           Finish(c, Plain(t), m)
    PROVE  c \notin Shown' /\ \A d \in Calls \ {c} : reply'[d] = reply[d]
BY DEF Finish, Shown, Plain, IInv, TypeOK

LEMMA FormatMakes ==
    ASSUME IInv, NEW c \in Calls, NEW r \in Responses, asked[c] \in Requests,
           NEW page \in Documentation \cup {NoOutline}, NEW m, Format(c, r, page, m),
           asked'[c] = asked[c], solr'[c] = r, page \in {outline'[c], NoOutline}
    PROVE  MadeOf(c)' /\ \A d \in Calls \ {c} : reply'[d] = reply[d]
<1>1. PICK located \in 0..r.snippets :
         Finish(c, Formatted(r, asked[c].query, page, located),
                Counted(m, r, asked[c].query, page, located))
  BY DEF Format
<1>2. /\ reply'[c] = Formatted(r, asked[c].query, page, located)
      /\ \A d \in Calls \ {c} : reply'[d] = reply[d]
  BY <1>1 DEF Finish, IInv, TypeOK
<1> QED
  BY <1>2 DEF MadeOf

(* The fetcher answers one call at a time. *)
LEMMA OutlinesApart ==
    ASSUME FetcherOK, NEW c \in Calls,
           \/ UNCHANGED fetcher
           \/ \E d \in Documentation : Memo!AnswerNow(c, d) \/ Memo!Ask(c, d)
           \/ \E page, forgotten : Memo!Learn(c, page, forgotten)
           \/ Memo!GiveUp(c)
    PROVE  \A d \in Calls \ {c} : outline'[d] = outline[d]
<1>1. CASE UNCHANGED fetcher
  BY <1>1 DEF fetcher
<1>2. CASE \E value : outline' = [outline EXCEPT ![c] = value]
  BY <1>2 DEF FetcherOK
<1> QED
  BY <1>1, <1>2 DEF Memo!AnswerNow, Memo!Ask, Memo!Learn, Memo!GiveUp

LEMMA FromSolrInductive == IInv /\ FromSolr /\ [Next]_vars => FromSolr'
<1> SUFFICES ASSUME IInv, FromSolr, [Next]_vars PROVE FromSolr'
  OBVIOUS
<1>1. TypeOK /\ (\A c \in Calls : Waiting(c)) /\ FetcherOK
  BY FetcherFine DEF IInv
<1>2. ASSUME NEW c \in Calls, Malformed(c) PROVE FromSolr'
  <2>1. c \notin Shown'
    BY <1>1, <1>2 DEF Malformed, Shown, Plain, TypeOK
  <2>2. \A d \in Calls \ {c} : outline'[d] = outline[d]
    BY <1>1, <1>2, OutlinesApart DEF Malformed
  <2> QED
    BY <1>1, <1>2, <2>1, <2>2, MadeOfKeeps DEF Malformed, TypeOK
<1>3. ASSUME NEW c \in Calls, NEW request, Start(c, request) PROVE FromSolr'
  <2>1. c \notin Shown'
    BY <1>1, <1>3 DEF Start, Shown, Waiting
  <2>2. \A d \in Calls \ {c} : outline'[d] = outline[d]
    BY <1>1, <1>3, OutlinesApart DEF Start
  <2> QED
    BY <1>1, <1>3, <2>1, <2>2, MadeOfKeeps DEF Start, TypeOK
<1>4. ASSUME NEW c \in Calls, NEW request, StartRefused(c, request) PROVE FromSolr'
  <2>1. "raised" \in Texts \ {"document"}
    BY DEF Texts
  <2>2. \A d \in Calls \ {c} : outline'[d] = outline[d]
    BY <1>1, <1>4, OutlinesApart DEF StartRefused
  <2>3. c \notin Shown' /\ \A d \in Calls \ {c} : reply'[d] = reply[d]
    BY <1>4, <2>1, PlainHides DEF StartRefused
  <2>4. \A d \in Calls \ {c} : asked'[d] = asked[d] /\ solr'[d] = solr[d]
    BY <1>1, <1>4 DEF StartRefused, TypeOK
  <2> QED
    BY <2>2, <2>3, <2>4, MadeOfKeeps
<1>5. ASSUME NEW c \in Calls, NEW r \in Responses, SolrAnswers(c, r) PROVE FromSolr'
  <2>1. /\ asked[c] \in Requests /\ reply[c] = None
        /\ asked' = asked /\ solr' = [solr EXCEPT ![c] = r]
    BY <1>1, <1>5 DEF SolrAnswers, Waiting, Open
  <2>2. solr'[c] = r /\ \A d \in Calls \ {c} : solr'[d] = solr[d]
    BY <1>1, <2>1 DEF TypeOK
  <2>3. \A d \in Calls \ {c} : outline'[d] = outline[d]
    BY <1>1, <1>5, OutlinesApart DEF SolrAnswers
  <2>4. ASSUME NEW page \in Documentation \cup {NoOutline},
               page \in {outline'[c], NoOutline},
               Format(c, r, page, Queried(c, "success"))
        PROVE  FromSolr'
    <3>1. MadeOf(c)' /\ \A d \in Calls \ {c} : reply'[d] = reply[d]
      BY <2>1, <2>2, <2>4, FormatMakes
    <3> QED
      BY <2>1, <2>2, <2>3, <3>1, MadeOfKeeps
  <2>5. CASE Format(c, r, NoOutline, Queried(c, "success"))
    BY <2>4, <2>5
  <2>6. CASE /\ r.doc \in Documentation /\ Memo!AnswerNow(c, r.doc)
             /\ Format(c, r, outline'[c], Queried(c, "success"))
    <3>1. outline'[c] \in Documentation \cup {NoOutline}
      BY <1>1, <2>6, AnswerNowKeeps
    <3> QED
      BY <2>4, <2>6, <3>1
  <2>7. CASE UNCHANGED reply
    <3>1. c \notin Shown'
      BY <2>1, <2>7 DEF Shown
    <3> QED
      BY <2>1, <2>2, <2>3, <2>7, <3>1, MadeOfKeeps
  <2> QED
    BY <1>5, <2>5, <2>6, <2>7 DEF SolrAnswers
<1>6. ASSUME NEW c \in Calls, NEW end \in Failures, SolrFails(c, end) PROVE FromSolr'
  <2> DEFINE missing == end = "empty" \/ (end = "invalid" /\ asked[c].query)
             t == IF missing THEN "not_found"
                  ELSE CASE end = "timeout" -> "timed_out"
                         [] end \in {"invalid", "http", "value"} -> "unable"
                         [] OTHER -> "raised"
  <2>1. t \in Texts \ {"document"}
    BY DEF Texts
  <2>2. \E m : Finish(c, Plain(t), m)
    BY <1>6 DEF SolrFails
  <2>3. asked' = asked /\ \A d \in Calls \ {c} : solr'[d] = solr[d]
    BY <1>1, <1>6 DEF SolrFails, TypeOK
  <2>4. \A d \in Calls \ {c} : outline'[d] = outline[d]
    BY <1>1, <1>6, OutlinesApart DEF SolrFails
  <2> HIDE DEF t
  <2>5. c \notin Shown' /\ \A d \in Calls \ {c} : reply'[d] = reply[d]
    BY <2>1, <2>2, PlainHides
  <2> QED
    BY <2>3, <2>4, <2>5, MadeOfKeeps
<1>7. ASSUME NEW c \in Calls, OutlineReturns(c) PROVE FromSolr'
  <2>1. PICK page \in {asking[c], NoOutline}, forgotten \in SUBSET Documentation :
           Memo!Learn(c, page, forgotten) /\ Format(c, solr[c], page, metrics)
    BY <1>7 DEF OutlineReturns
  <2>2. /\ asked[c] \in Requests /\ solr[c] \in Responses /\ asking[c] \in Documentation
        /\ asked' = asked /\ solr' = solr
    BY <1>1, <1>7 DEF OutlineReturns, Waiting, Open
  <2>3. outline'[c] = page
    BY <1>1, <2>1 DEF Memo!Learn, FetcherOK
  <2>4. \A d \in Calls \ {c} : outline'[d] = outline[d]
    BY <1>1, <2>1, OutlinesApart
  <2>5. MadeOf(c)' /\ \A d \in Calls \ {c} : reply'[d] = reply[d]
    BY <2>1, <2>2, <2>3, FormatMakes
  <2> QED
    BY <2>2, <2>4, <2>5, MadeOfKeeps
<1>8. ASSUME NEW c \in Calls, OutlineRaises(c) \/ Cancel(c) PROVE FromSolr'
  <2>1. \E m : \E t \in Texts \ {"document"} : Finish(c, Plain(t), m)
    <3>1. {"raised", "cancelled"} \subseteq Texts \ {"document"}
      BY DEF Texts
    <3> QED
      BY <1>8, <3>1 DEF OutlineRaises, Cancel
  <2>2. \A d \in Calls \ {c} : outline'[d] = outline[d]
    BY <1>1, <1>8, OutlinesApart DEF OutlineRaises, Cancel
  <2>3. c \notin Shown' /\ \A d \in Calls \ {c} : reply'[d] = reply[d]
    BY <2>1, PlainHides
  <2> QED
    BY <1>8, <2>2, <2>3, MadeOfKeeps DEF OutlineRaises, Cancel
<1>9. ASSUME UNCHANGED <<asked, solr, reply, outline>> PROVE FromSolr'
  BY <1>9 DEF FromSolr, MadeOf, Shown
<1> QED
  BY <1>2, <1>3, <1>4, <1>5, <1>6, <1>7, <1>8, <1>9
     DEF Next, SolrEnds, OutlineEnds, Shutdown, vars, fetcher

(* Two calls that asked for the same and got the same from Solr show the   *)
(* same kind of body, with passages both or neither, whatever the mirror,  *)
(* the cache and the rest of the calls did, unless the metadata leave room *)
(* for the bare header only and the links of one cost it its passages      *)
(* (get_document, _place_passages, _format_document_passages).             *)
THEOREM OutlineDecorates == SafeSpec => []OutlineOnlyDecorates
<1>1. ASSUME NEW r \in Responses, NEW query \in BOOLEAN, NEW page,
             NEW located \in 0..r.snippets
      PROVE  LET answer == Formatted(r, query, page, located)
                 linked == page # NoOutline /\ located > 0
             IN  /\ answer.body = Body(r, query, linked)
                 /\ answer.passages > 0 <=>
                       answer.body \in {"passages", "highlights"} /\ r.snippets > 0
                 /\ answer.body = "passages" /\ ~linked => answer.anchors = NoOutline
  <2> DEFINE linked == page # NoOutline /\ located > 0
             kept == Placed(r.snippets, located, page # NoOutline)
             body == Body(r, query, linked)
             answer == Formatted(r, query, page, located)
  <2>1. r.snippets \in Nat
    BY PassagesAssumption DEF Responses
  <2>2. kept \in Nat /\ (kept > 0 <=> r.snippets > 0)
    BY <2>1 DEF Placed
  <2>3. answer.passages = CASE body = "passages" -> kept
                            [] body = "highlights" -> r.snippets
                            [] OTHER -> 0
    BY DEF Formatted
  <2>4. answer.body = body
    BY DEF Formatted
  <2>5. body = "passages" /\ ~linked => answer.anchors = NoOutline
    BY DEF Formatted
  <2> HIDE DEF kept, body, linked, answer
  <2> QED
    BY <2>1, <2>2, <2>3, <2>4, <2>5 DEF body, linked, answer
<1>2. ASSUME NEW r \in Responses, NEW query \in BOOLEAN,
             Body(r, query, TRUE) # Body(r, query, FALSE)
      PROVE  /\ r.room = "bare"
             /\ Body(r, query, TRUE) = "none" /\ Body(r, query, FALSE) = "passages"
  BY <1>2 DEF Body
<1>3. FromSolr => OutlineOnlyDecorates
  <2> SUFFICES ASSUME FromSolr, NEW c \in Shown, NEW d \in Shown,
                      asked[c] = asked[d], solr[c] = solr[d]
               PROVE  \/ /\ reply[c].body = reply[d].body
                         /\ reply[c].passages > 0 <=> reply[d].passages > 0
                      \/ LinksCrowdOut(c, d)
                      \/ LinksCrowdOut(d, c)
    BY DEF OutlineOnlyDecorates
  <2> DEFINE r == solr[c]
             query == asked[c].query
             Linked(page, located) == page # NoOutline /\ located > 0
  <2>1. MadeOf(c) /\ MadeOf(d)
    BY DEF FromSolr
  <2>2. query \in BOOLEAN /\ r \in Responses
    BY <2>1 DEF MadeOf, Requests
  <2>3. PICK p \in Documentation \cup {NoOutline}, l \in 0..r.snippets :
           p \in {outline[c], NoOutline} /\ reply[c] = Formatted(r, query, p, l)
    BY <2>1 DEF MadeOf
  <2>4. PICK q \in Documentation \cup {NoOutline}, k \in 0..r.snippets :
           q \in {outline[d], NoOutline} /\ reply[d] = Formatted(r, query, q, k)
    BY <2>1 DEF MadeOf
  <2>5. /\ reply[c].body = Body(r, query, Linked(p, l))
        /\ reply[c].passages > 0 <=>
              reply[c].body \in {"passages", "highlights"} /\ r.snippets > 0
        /\ reply[c].body = "passages" /\ ~Linked(p, l) => reply[c].anchors = NoOutline
    BY <1>1, <2>2, <2>3
  <2>6. /\ reply[d].body = Body(r, query, Linked(q, k))
        /\ reply[d].passages > 0 <=>
              reply[d].body \in {"passages", "highlights"} /\ r.snippets > 0
        /\ reply[d].body = "passages" /\ ~Linked(q, k) => reply[d].anchors = NoOutline
    BY <1>1, <2>2, <2>4
  <2>7. /\ Linked(p, l) => outline[c] \in Documentation
        /\ Linked(q, k) => outline[d] \in Documentation
        /\ Linked(p, l) \in BOOLEAN /\ Linked(q, k) \in BOOLEAN
    BY <2>3, <2>4
  <2> HIDE DEF Linked, query
  <2>8. CASE Linked(p, l) = Linked(q, k)
    BY <2>5, <2>6, <2>8
  <2>9. CASE Linked(p, l) /\ ~Linked(q, k)
    <3>1. Linked(p, l) = TRUE /\ Linked(q, k) = FALSE
      BY <2>7, <2>9
    <3>2. reply[c].body = Body(r, query, TRUE) /\ reply[d].body = Body(r, query, FALSE)
      BY <2>5, <2>6, <3>1
    <3>3. CASE Body(r, query, TRUE) = Body(r, query, FALSE)
      BY <2>5, <2>6, <3>2, <3>3
    <3>4. CASE Body(r, query, TRUE) # Body(r, query, FALSE)
      <4>1. /\ r.room = "bare" /\ reply[c].body = "none" /\ reply[d].body = "passages"
        BY <1>2, <2>2, <3>2, <3>4
      <4> QED
        BY <2>6, <2>7, <3>1, <4>1 DEF LinksCrowdOut
    <3> QED
      BY <3>3, <3>4
  <2>10. CASE ~Linked(p, l) /\ Linked(q, k)
    <3>1. Linked(p, l) = FALSE /\ Linked(q, k) = TRUE
      BY <2>7, <2>10
    <3>2. reply[c].body = Body(r, query, FALSE) /\ reply[d].body = Body(r, query, TRUE)
      BY <2>5, <2>6, <3>1
    <3>3. CASE Body(r, query, TRUE) = Body(r, query, FALSE)
      BY <2>5, <2>6, <3>2, <3>3
    <3>4. CASE Body(r, query, TRUE) # Body(r, query, FALSE)
      <4>1. /\ r.room = "bare" /\ reply[c].body = "passages" /\ reply[d].body = "none"
        BY <1>2, <2>2, <3>2, <3>4
      <4> QED
        BY <2>5, <2>7, <3>1, <4>1 DEF LinksCrowdOut
    <3> QED
      BY <3>3, <3>4
  <2> QED
    BY <2>7, <2>8, <2>9, <2>10
<1>4. SafeSpec => []FromSolr
  BY Initial, Inductive, FromSolrInitial, FromSolrInductive, PTL DEF SafeSpec
<1> QED
  BY <1>3, <1>4, PTL

-----------------------------------------------------------------------------
(* The sets of calls the counters count, and what it is to count one.      *)
Made == {c \in Calls : phase[c] # "idle"}
Timed == {c \in Replied : asked[c] # None}
Missed == {c \in Replied : reply[c].text = "not_found"}
Nudged == {c \in Replied : reply[c].body = "nudge"}
Reached == {c \in Shown \cap WithQuery : solr[c].content}
Queries == {c \in WithQuery : phase[c] \in {"outline", "refused", "done"}}

Total(m) == m.solr["success"] + m.solr["error"] + m.solr["timeout"]

CountInv ==
    /\ \A c \in Calls : phase[c] = "idle" => asked[c] = None
    /\ Tally(metrics.toolCalls, Made)
    /\ Tally(metrics.toolDuration, Timed)
    /\ Tally(metrics.notFound, Missed)
    /\ Tally(metrics.nudge, Nudged)
    /\ Tally(metrics.used + metrics.fallback, Reached)
    /\ Tally(Total(metrics), Queries)

(* A count that goes up by one exactly when its set gains the one call     *)
(* that may join it stays exact, however many calls there are.             *)
LEMMA TallyGrows ==
    ASSUME NEW n, NEW S, NEW T, NEW c, Tally(n, S), S \subseteq T, T \subseteq S \cup {c}
    PROVE  Tally(n + One(c \in T /\ c \notin S), T)
<1>1. CASE c \in T /\ c \notin S
  <2>1. T = S \cup {c}
    BY <1>1
  <2> QED
    BY <1>1, <2>1, TallyOneMore DEF One
<1>2. CASE ~(c \in T /\ c \notin S)
  <2>1. T = S
    BY <1>2
  <2> QED
    BY <1>2, <2>1, TallyNumber DEF One
<1> QED
  BY <1>1, <1>2

LEMMA CountInitial == Init => CountInv
<1> SUFFICES ASSUME Init PROVE CountInv
  OBVIOUS
<1>1. Made = {} /\ Timed = {} /\ Missed = {} /\ Nudged = {} /\ Reached = {} /\ Queries = {}
  BY DEF Init, Made, Timed, Missed, Nudged, Reached, Queries, Replied, Shown, WithQuery
<1>2. /\ metrics.toolCalls = 0 /\ metrics.toolDuration = 0 /\ metrics.notFound = 0
      /\ metrics.nudge = 0 /\ metrics.used + metrics.fallback = 0
  BY DEF Init
<1>3. Total(metrics) = 0
  BY DEF Init, Total, Statuses
<1> QED
  BY <1>1, <1>2, <1>3, TallyNothing DEF CountInv, Init

(* A step of a call without a reply counts the call under each head it     *)
(* then falls under.                                                       *)
LEMMA OneCallCounts ==
    ASSUME CountInv, NEW c \in Calls, reply[c] = None, phase'[c] # "idle",
           \A d \in Calls \ {c} :
              /\ phase'[d] = phase[d] /\ asked'[d] = asked[d] /\ solr'[d] = solr[d]
              /\ reply'[d] = reply[d],
           c \in Queries => c \in Queries',
           metrics'.toolCalls = metrics.toolCalls + One(phase[c] = "idle"),
           metrics'.toolDuration = metrics.toolDuration + One(c \in Timed'),
           metrics'.notFound = metrics.notFound + One(c \in Missed'),
           metrics'.nudge = metrics.nudge + One(c \in Nudged'),
           metrics'.used + metrics'.fallback
              = metrics.used + metrics.fallback + One(c \in Reached'),
           Total(metrics)' = Total(metrics) + One(c \in Queries' /\ c \notin Queries)
    PROVE  CountInv'
<1>1. Tally(metrics.toolCalls, Made)'
  <2>1. Made \subseteq Made' /\ Made' \subseteq Made \cup {c} /\ (c \in Made' /\ c \notin Made <=> phase[c] = "idle")
    BY DEF Made
  <2>2. One(c \in Made' /\ c \notin Made) = One(phase[c] = "idle")
    BY <2>1 DEF One
  <2> QED
    BY <2>1, <2>2, TallyGrows DEF CountInv
<1>2. Tally(metrics.toolDuration, Timed)'
  <2>1. Timed \subseteq Timed' /\ Timed' \subseteq Timed \cup {c} /\ c \notin Timed
    BY DEF Timed, Replied
  <2>2. One(c \in Timed' /\ c \notin Timed) = One(c \in Timed')
    BY <2>1 DEF One
  <2> QED
    BY <2>1, <2>2, TallyGrows DEF CountInv
<1>3. Tally(metrics.notFound, Missed)'
  <2>1. Missed \subseteq Missed' /\ Missed' \subseteq Missed \cup {c} /\ c \notin Missed
    BY DEF Missed, Replied
  <2>2. One(c \in Missed' /\ c \notin Missed) = One(c \in Missed')
    BY <2>1 DEF One
  <2> QED
    BY <2>1, <2>2, TallyGrows DEF CountInv
<1>4. Tally(metrics.nudge, Nudged)'
  <2>1. Nudged \subseteq Nudged' /\ Nudged' \subseteq Nudged \cup {c} /\ c \notin Nudged
    BY DEF Nudged, Replied
  <2>2. One(c \in Nudged' /\ c \notin Nudged) = One(c \in Nudged')
    BY <2>1 DEF One
  <2> QED
    BY <2>1, <2>2, TallyGrows DEF CountInv
<1>5. Tally(metrics.used + metrics.fallback, Reached)'
  <2>1. Reached \subseteq Reached' /\ Reached' \subseteq Reached \cup {c} /\ c \notin Reached
    BY DEF Reached, Shown, WithQuery
  <2>2. One(c \in Reached' /\ c \notin Reached) = One(c \in Reached')
    BY <2>1 DEF One
  <2> QED
    BY <2>1, <2>2, TallyGrows DEF CountInv
<1>6. Tally(Total(metrics), Queries)'
  <2>1. Queries \subseteq Queries' /\ Queries' \subseteq Queries \cup {c}
    BY DEF Queries, WithQuery
  <2> QED
    BY <2>1, TallyGrows DEF CountInv
<1>7. \A d \in Calls : phase'[d] = "idle" => asked'[d] = None
  BY DEF CountInv
<1> QED
  BY <1>1, <1>2, <1>3, <1>4, <1>5, <1>6, <1>7 DEF CountInv

(* A call that ends counts its duration, and itself under what it became.  *)
LEMMA FinishCounts ==
    ASSUME IInv, CountInv, NEW c \in Calls, reply[c] = None,
           NEW answer \in Replies, NEW counted \in Metrics, Finish(c, answer, counted),
           asked'[c] \in Requests,
           \A d \in Calls \ {c} : asked'[d] = asked[d] /\ solr'[d] = solr[d],
           phase[c] # "idle" => asked'[c] = asked[c],
           counted.toolCalls = metrics.toolCalls + One(phase[c] = "idle"),
           counted.toolDuration = metrics.toolDuration,
           counted.notFound = metrics.notFound + One(answer.text = "not_found"),
           counted.nudge = metrics.nudge + One(answer.body = "nudge"),
           counted.used + counted.fallback = metrics.used + metrics.fallback
              + One(answer.text = "document" /\ asked'[c].query /\ solr'[c].content),
           Total(counted) = Total(metrics)
              + One(asked'[c].query /\ phase[c] \notin {"outline", "refused", "done"})
    PROVE  CountInv'
<1>1. /\ metrics'.toolCalls = counted.toolCalls
      /\ metrics'.toolDuration = counted.toolDuration + 1
      /\ metrics'.notFound = counted.notFound /\ metrics'.nudge = counted.nudge
      /\ metrics'.used = counted.used /\ metrics'.fallback = counted.fallback
      /\ metrics'.solr = counted.solr
  BY DEF Finish, Metrics
<1>2. Total(metrics)' = Total(counted)
  BY <1>1 DEF Total
<1>3. /\ reply'[c] = answer /\ phase'[c] = "done"
      /\ \A d \in Calls \ {c} : phase'[d] = phase[d] /\ reply'[d] = reply[d]
  BY FinishKeeps
<1>4. answer # None /\ asked'[c] # None
  BY UnansweredAssumption
<1>5. One(c \in Timed') = 1
  BY <1>3, <1>4 DEF Timed, Replied, One
<1>6. One(c \in Missed') = One(answer.text = "not_found")
  BY <1>3, <1>4 DEF Missed, Replied, One
<1>7. One(c \in Nudged') = One(answer.body = "nudge")
  BY <1>3, <1>4 DEF Nudged, Replied, One
<1>8. One(c \in Reached')
        = One(answer.text = "document" /\ asked'[c].query /\ solr'[c].content)
  <2>1. c \in Reached' <=> reply'[c] # None /\ reply'[c].text = "document"
             /\ asked'[c] # None /\ asked'[c].query /\ solr'[c].content
    BY DEF Reached, Shown, WithQuery
  <2> QED
    BY <1>3, <1>4, <2>1 DEF One
<1>9. /\ c \in Queries => c \in Queries'
      /\ One(c \in Queries' /\ c \notin Queries)
            = One(asked'[c].query /\ phase[c] \notin {"outline", "refused", "done"})
  <2>1. c \in Queries' <=> asked'[c].query
    BY <1>3, <1>4 DEF Queries, WithQuery
  <2>2. c \in Queries <=> c \in WithQuery /\ phase[c] \in {"outline", "refused", "done"}
    BY DEF Queries, WithQuery
  <2>3. c \in WithQuery => asked'[c].query
    BY DEF WithQuery, CountInv
  <2>4. phase[c] \in {"outline", "refused", "done"} /\ asked'[c].query => c \in WithQuery
    BY <1>4 DEF WithQuery
  <2> QED
    BY <2>1, <2>2, <2>3, <2>4 DEF One
<1> QED
  BY <1>1, <1>2, <1>3, <1>5, <1>6, <1>7, <1>8, <1>9, OneCallCounts

-----------------------------------------------------------------------------
(* What each kind of step does to the counters.                            *)

LEMMA CountersAreNumbers ==
    ASSUME NEW m \in Metrics
    PROVE  /\ m.toolCalls \in Nat /\ m.toolDuration \in Nat /\ m.notFound \in Nat
           /\ m.nudge \in Nat /\ m.used \in Nat /\ m.fallback \in Nat
           /\ Total(m) \in Nat
BY DEF Metrics, Total, Statuses

LEMMA NothingCounted ==
    ASSUME NEW m \in Metrics
    PROVE  /\ m.toolCalls + 0 = m.toolCalls /\ m.toolDuration + 0 = m.toolDuration
           /\ m.notFound + 0 = m.notFound /\ m.nudge + 0 = m.nudge
           /\ m.used + m.fallback + 0 = m.used + m.fallback /\ Total(m) + 0 = Total(m)
BY CountersAreNumbers

LEMMA QueriedCounts ==
    ASSUME IInv, NEW c, asked[c] \in Requests, NEW status \in Statuses
    PROVE  LET m == Queried(c, status)
           IN  /\ m \in Metrics
               /\ m.toolCalls = metrics.toolCalls /\ m.toolDuration = metrics.toolDuration
               /\ m.notFound = metrics.notFound /\ m.nudge = metrics.nudge
               /\ m.used = metrics.used /\ m.fallback = metrics.fallback
               /\ Total(m) = Total(metrics) + One(asked[c].query)
<1>1. metrics \in Metrics
  BY DEF IInv, TypeOK
<1>2. Queried(c, status) \in Metrics
  BY <1>1, QueriedTypes
<1>3. CASE asked[c].query
  <2>1. Queried(c, status) = [metrics EXCEPT !.solr[status] = metrics.solr[status] + 1]
    BY <1>3 DEF Queried
  <2>2. Queried(c, status).solr = [metrics.solr EXCEPT ![status] = metrics.solr[status] + 1]
    BY <1>1, <2>1 DEF Metrics
  <2>3. Total(Queried(c, status)) = Total(metrics) + 1
    BY <1>1, <2>2 DEF Total, Metrics, Statuses
  <2> QED
    BY <1>1, <1>2, <1>3, <2>1, <2>3 DEF Metrics, One
<1>4. CASE ~asked[c].query
  <2>1. Total(metrics) \in Nat
    BY <1>1 DEF Total, Metrics, Statuses
  <2> QED
    BY <1>1, <1>2, <1>4, <2>1 DEF Queried, One
<1> QED
  BY <1>3, <1>4

LEMMA CountedCounts ==
    ASSUME NEW m \in Metrics, NEW r \in Responses, NEW query \in BOOLEAN,
           NEW page \in Documentation \cup {NoOutline}, NEW located \in 0..r.snippets
    PROVE  LET counted == Counted(m, r, query, page, located)
           IN  /\ counted.toolCalls = m.toolCalls /\ counted.toolDuration = m.toolDuration
               /\ counted.notFound = m.notFound /\ counted.solr = m.solr
               /\ counted.nudge = m.nudge + One(Nudges(r, query))
               /\ counted.used + counted.fallback
                     = m.used + m.fallback + One(query /\ r.content)
<1> DEFINE kept == Placed(r.snippets, located, page # NoOutline)
           dropped == IF r.doc \in Documentation /\ Used(r, query)
                      THEN r.snippets - kept ELSE 0
           nudge == One(Nudges(r, query))
           used == One(Used(r, query))
           fallback == One(FellBack(r, query))
           counted == Counted(m, r, query, page, located)
<1>1. counted = [m EXCEPT !.nudge = @ + nudge, !.used = @ + used,
                          !.fallback = @ + fallback, !.tocDropped = @ + dropped]
  BY DEF Counted
<1>2. used \in Nat /\ fallback \in Nat /\ used + fallback = One(query /\ r.content)
  BY PassagesAssumption DEF One, Used, FellBack, Responses
<1> HIDE DEF kept, dropped, nudge, used, fallback, counted
<1>3. /\ counted.toolCalls = m.toolCalls /\ counted.toolDuration = m.toolDuration
      /\ counted.notFound = m.notFound /\ counted.solr = m.solr
      /\ counted.nudge = m.nudge + nudge /\ counted.used = m.used + used
      /\ counted.fallback = m.fallback + fallback
  BY <1>1 DEF Metrics
<1>4. m.used \in Nat /\ m.fallback \in Nat
  BY DEF Metrics
<1>5. counted.used + counted.fallback = m.used + m.fallback + One(query /\ r.content)
  BY <1>2, <1>3, <1>4
<1> QED
  BY <1>3, <1>5 DEF counted, nudge

(* A call that formats what Solr answered counts what it shows.            *)
LEMMA FormatCounts ==
    ASSUME IInv, CountInv, NEW c \in Calls, reply[c] = None, asked[c] \in Requests,
           NEW r \in Responses, NEW page \in Documentation \cup {NoOutline},
           NEW m \in Metrics, Format(c, r, page, m), asked' = asked, solr'[c] = r,
           \A d \in Calls \ {c} : solr'[d] = solr[d],
           phase[c] # "idle",
           m.toolCalls = metrics.toolCalls, m.toolDuration = metrics.toolDuration,
           m.notFound = metrics.notFound, m.nudge = metrics.nudge,
           m.used = metrics.used, m.fallback = metrics.fallback,
           Total(m) = Total(metrics)
              + One(asked[c].query /\ phase[c] \notin {"outline", "refused", "done"})
    PROVE  CountInv'
<1>1. asked[c].query \in BOOLEAN
  BY DEF Requests
<1>2. PICK located \in 0..r.snippets :
         Finish(c, Formatted(r, asked[c].query, page, located),
                Counted(m, r, asked[c].query, page, located))
  BY DEF Format
<1> DEFINE answer == Formatted(r, asked[c].query, page, located)
           counted == Counted(m, r, asked[c].query, page, located)
<1>3. answer \in Replies /\ counted \in Metrics
  BY <1>1, FormattedTypes, CountedTypes
<1>4. answer.text = "document" /\ (answer.body = "nudge" <=> Nudges(r, asked[c].query))
  BY DEF Formatted, Body
<1>5. /\ counted.toolCalls = m.toolCalls /\ counted.toolDuration = m.toolDuration
      /\ counted.notFound = m.notFound /\ counted.solr = m.solr
      /\ counted.nudge = m.nudge + One(Nudges(r, asked[c].query))
      /\ counted.used + counted.fallback
            = m.used + m.fallback + One(asked[c].query /\ r.content)
  BY <1>1, CountedCounts
<1>6. Total(counted) = Total(m)
  BY <1>5 DEF Total
<1>7. Finish(c, answer, counted)
  BY <1>2
<1> HIDE DEF answer, counted
<1>8. metrics \in Metrics
  BY DEF IInv, TypeOK
<1>9. counted.toolCalls = metrics.toolCalls + One(phase[c] = "idle")
  BY <1>5, <1>8 DEF One, Metrics
<1>10. counted.notFound = metrics.notFound + One(answer.text = "not_found")
  BY <1>4, <1>5, <1>8 DEF One, Metrics
<1>11. counted.nudge = metrics.nudge + One(answer.body = "nudge")
  BY <1>4, <1>5 DEF One
<1>12. counted.used + counted.fallback = metrics.used + metrics.fallback
          + One(answer.text = "document" /\ asked'[c].query /\ solr'[c].content)
  <2>1. One(answer.text = "document" /\ asked'[c].query /\ solr'[c].content)
           = One(asked[c].query /\ r.content)
    BY <1>4 DEF One
  <2> QED
    BY <1>5, <2>1
<1>13. Total(counted) = Total(metrics)
          + One(asked'[c].query /\ phase[c] \notin {"outline", "refused", "done"})
  BY <1>6
<1>14. counted.toolDuration = metrics.toolDuration
  BY <1>5
<1> QED
  BY <1>3, <1>7, <1>9, <1>10, <1>11, <1>12, <1>13, <1>14, FinishCounts

(* A call that ends without a document. *)
LEMMA PlainCounts ==
    ASSUME IInv, CountInv, NEW c \in Calls, reply[c] = None,
           NEW t \in Texts \ {"document"}, NEW m \in Metrics, Finish(c, Plain(t), m),
           asked'[c] \in Requests,
           \A d \in Calls \ {c} : asked'[d] = asked[d] /\ solr'[d] = solr[d],
           phase[c] # "idle" => asked'[c] = asked[c],
           m.toolCalls = metrics.toolCalls + One(phase[c] = "idle"),
           m.toolDuration = metrics.toolDuration,
           m.notFound = metrics.notFound + One(t = "not_found"),
           m.nudge = metrics.nudge,
           m.used = metrics.used, m.fallback = metrics.fallback,
           Total(m) = Total(metrics)
              + One(asked'[c].query /\ phase[c] \notin {"outline", "refused", "done"})
    PROVE  CountInv'
<1>1. Plain(t) \in Replies
  BY PlainTypes
<1>2. Plain(t).text = t /\ Plain(t).body = "none"
  BY DEF Plain
<1>3. metrics \in Metrics
  BY DEF IInv, TypeOK
<1>4. m.nudge = metrics.nudge + One(Plain(t).body = "nudge")
  <2>1. One(Plain(t).body = "nudge") = 0
    BY <1>2 DEF One
  <2>2. metrics.nudge + 0 = metrics.nudge
    BY <1>3, NothingCounted
  <2> QED
    BY <2>1, <2>2
<1>5. m.used + m.fallback = metrics.used + metrics.fallback
          + One(Plain(t).text = "document" /\ asked'[c].query /\ solr'[c].content)
  <2>1. One(Plain(t).text = "document" /\ asked'[c].query /\ solr'[c].content) = 0
    BY <1>2 DEF One
  <2>2. metrics.used + metrics.fallback + 0 = metrics.used + metrics.fallback
    BY <1>3, NothingCounted
  <2> QED
    BY <2>1, <2>2
<1>6. m.notFound = metrics.notFound + One(Plain(t).text = "not_found")
  BY <1>2
<1> QED
  BY <1>1, <1>4, <1>5, <1>6, FinishCounts

LEMMA MalformedCounts ==
    ASSUME IInv, CountInv, NEW c \in Calls, Malformed(c)
    PROVE  CountInv'
<1>1. /\ phase[c] = "idle" /\ phase' = [phase EXCEPT ![c] = "done"]
      /\ reply' = [reply EXCEPT ![c] = Plain("raised")]
      /\ metrics' = [metrics EXCEPT !.toolCalls = @ + 1]
      /\ asked' = asked /\ solr' = solr
  BY DEF Malformed
<1>2. asked[c] = None /\ reply[c] = None
  BY <1>1 DEF CountInv, IInv, Waiting
<1>3. /\ reply'[c] = Plain("raised") /\ phase'[c] = "done"
      /\ \A d \in Calls \ {c} : phase'[d] = phase[d] /\ reply'[d] = reply[d]
  BY <1>1 DEF IInv, TypeOK
<1>4. metrics \in Metrics
  BY DEF IInv, TypeOK
<1>5. /\ metrics'.toolCalls = metrics.toolCalls + One(phase[c] = "idle")
      /\ metrics'.toolDuration = metrics.toolDuration /\ metrics'.notFound = metrics.notFound
      /\ metrics'.nudge = metrics.nudge /\ metrics'.used = metrics.used
      /\ metrics'.fallback = metrics.fallback /\ metrics'.solr = metrics.solr
  BY <1>1, <1>4 DEF Metrics, One
<1>6. /\ One(c \in Timed') = 0 /\ One(c \in Missed') = 0 /\ One(c \in Nudged') = 0
      /\ One(c \in Reached') = 0 /\ One(c \in Queries' /\ c \notin Queries) = 0
      /\ c \notin Queries
  <2>1. c \notin Timed' /\ c \notin Reached' /\ c \notin Queries' /\ c \notin Queries
    BY <1>1, <1>2, <1>3 DEF Timed, Reached, Queries, Shown, WithQuery
  <2>2. c \notin Missed' /\ c \notin Nudged'
    <3>1. Plain("raised").text = "raised" /\ Plain("raised").body = "none"
      BY DEF Plain
    <3> QED
      BY <1>3, <3>1 DEF Missed, Nudged
  <2> QED
    BY <2>1, <2>2 DEF One
<1>7. /\ metrics.toolDuration = metrics.toolDuration + 0
      /\ metrics.notFound = metrics.notFound + 0 /\ metrics.nudge = metrics.nudge + 0
      /\ metrics.used + metrics.fallback = metrics.used + metrics.fallback + 0
      /\ Total(metrics) = Total(metrics) + 0
  BY <1>4, NothingCounted
<1>8. Total(metrics)' = Total(metrics)
  BY <1>5 DEF Total
<1> QED
  BY <1>1, <1>2, <1>3, <1>5, <1>6, <1>7, <1>8, OneCallCounts

LEMMA StartCounts ==
    ASSUME IInv, CountInv, NEW c \in Calls, NEW request \in Requests, Start(c, request)
    PROVE  CountInv'
<1>1. /\ phase[c] = "idle" /\ phase' = [phase EXCEPT ![c] = "solr"]
      /\ asked' = [asked EXCEPT ![c] = request]
      /\ metrics' = [metrics EXCEPT !.toolCalls = @ + 1]
      /\ reply' = reply /\ solr' = solr
  BY DEF Start
<1>2. asked[c] = None /\ reply[c] = None
  BY <1>1 DEF CountInv, IInv, Waiting
<1>3. /\ phase'[c] = "solr"
      /\ \A d \in Calls \ {c} : phase'[d] = phase[d] /\ asked'[d] = asked[d]
  BY <1>1 DEF IInv, TypeOK
<1>4. metrics \in Metrics
  BY DEF IInv, TypeOK
<1>5. /\ metrics'.toolCalls = metrics.toolCalls + One(phase[c] = "idle")
      /\ metrics'.toolDuration = metrics.toolDuration /\ metrics'.notFound = metrics.notFound
      /\ metrics'.nudge = metrics.nudge /\ metrics'.used = metrics.used
      /\ metrics'.fallback = metrics.fallback /\ metrics'.solr = metrics.solr
  BY <1>1, <1>4 DEF Metrics, One
<1>6. /\ One(c \in Timed') = 0 /\ One(c \in Missed') = 0 /\ One(c \in Nudged') = 0
      /\ One(c \in Reached') = 0 /\ One(c \in Queries' /\ c \notin Queries) = 0
      /\ c \notin Queries
  BY <1>1, <1>2, <1>3 DEF Timed, Missed, Nudged, Reached, Queries, Replied, Shown,
                          WithQuery, One
<1>7. /\ metrics.toolDuration = metrics.toolDuration + 0
      /\ metrics.notFound = metrics.notFound + 0 /\ metrics.nudge = metrics.nudge + 0
      /\ metrics.used + metrics.fallback = metrics.used + metrics.fallback + 0
      /\ Total(metrics) = Total(metrics) + 0
  BY <1>4, NothingCounted
<1>8. Total(metrics)' = Total(metrics)
  BY <1>5 DEF Total
<1> QED
  BY <1>1, <1>2, <1>3, <1>5, <1>6, <1>7, <1>8, OneCallCounts

LEMMA StartRefusedCounts ==
    ASSUME IInv, CountInv, NEW c \in Calls, NEW request \in Requests, StartRefused(c, request)
    PROVE  CountInv'
<1> DEFINE n == One(request.query)
           m == [metrics EXCEPT !.toolCalls = @ + 1, !.solr["success"] = @ + n]
<1>1. /\ phase[c] = "idle" /\ asked' = [asked EXCEPT ![c] = request]
      /\ solr' = [solr EXCEPT ![c] = Without("other")] /\ Finish(c, Plain("raised"), m)
  BY DEF StartRefused
<1>2. reply[c] = None
  BY <1>1 DEF IInv, Waiting
<1>3. asked'[c] = request
      /\ \A d \in Calls \ {c} : asked'[d] = asked[d] /\ solr'[d] = solr[d]
  BY <1>1 DEF IInv, TypeOK
<1>4. n \in Nat /\ metrics \in Metrics
  BY DEF One, IInv, TypeOK
<1> HIDE DEF n
<1>5. m = [metrics EXCEPT !.toolCalls = metrics.toolCalls + 1,
                          !.solr["success"] = metrics.solr["success"] + n]
  BY <1>4 DEF Metrics
<1> HIDE DEF m
<1>6. /\ m.toolCalls = metrics.toolCalls + 1 /\ m.toolDuration = metrics.toolDuration
      /\ m.notFound = metrics.notFound /\ m.nudge = metrics.nudge
      /\ m.used = metrics.used /\ m.fallback = metrics.fallback
      /\ m.solr = [metrics.solr EXCEPT !["success"] = metrics.solr["success"] + n]
  BY <1>4, <1>5 DEF Metrics
<1>7. m \in Metrics
  <2>1. metrics.toolCalls + 1 \in Nat /\ metrics.solr["success"] + n \in Nat
    BY <1>4 DEF Metrics, Statuses
  <2> QED
    BY <1>4, <1>5, <2>1 DEF Metrics
<1>8. Total(m) = Total(metrics) + n
  BY <1>4, <1>6 DEF Total, Metrics, Statuses
<1>9. m.toolCalls = metrics.toolCalls + One(phase[c] = "idle")
  BY <1>1, <1>6 DEF One
<1>10. m.notFound = metrics.notFound + One("raised" = "not_found")
  BY <1>4, <1>6 DEF One, Metrics
<1>11. One(asked'[c].query /\ phase[c] \notin {"outline", "refused", "done"}) = n
  BY <1>1, <1>3 DEF One, n
<1>12. "raised" \in Texts \ {"document"}
  BY DEF Texts
<1> QED
  BY <1>1, <1>2, <1>3, <1>6, <1>7, <1>8, <1>9, <1>10, <1>11, <1>12, PlainCounts

LEMMA SolrAnswersCounts ==
    ASSUME IInv, CountInv, NEW c \in Calls, NEW r \in Responses, SolrAnswers(c, r)
    PROVE  CountInv'
<1>1. /\ phase[c] = "solr" /\ asked' = asked /\ solr' = [solr EXCEPT ![c] = r]
      /\ asked[c] \in Requests /\ reply[c] = None /\ metrics \in Metrics
  BY DEF SolrAnswers, IInv, Waiting, Open, TypeOK
<1>2. solr'[c] = r /\ \A d \in Calls \ {c} : solr'[d] = solr[d]
  BY <1>1 DEF IInv, TypeOK
<1> DEFINE m == Queried(c, "success")
<1>3. /\ m \in Metrics
      /\ m.toolCalls = metrics.toolCalls /\ m.toolDuration = metrics.toolDuration
      /\ m.notFound = metrics.notFound /\ m.nudge = metrics.nudge
      /\ m.used = metrics.used /\ m.fallback = metrics.fallback
      /\ Total(m) = Total(metrics) + One(asked[c].query)
  BY <1>1, QueriedCounts DEF Statuses
<1>4. One(asked[c].query /\ phase[c] \notin {"outline", "refused", "done"})
         = One(asked[c].query)
  BY <1>1 DEF One
<1>5. ASSUME NEW page \in Documentation \cup {NoOutline}, Format(c, r, page, m)
      PROVE  CountInv'
  <2> HIDE DEF m
  <2> QED
    BY <1>1, <1>2, <1>3, <1>4, <1>5, FormatCounts
<1>6. CASE r.doc \in Others /\ Format(c, r, NoOutline, m)
  BY <1>5, <1>6
<1>7. CASE r.doc \in Documentation /\ Memo!AnswerNow(c, r.doc) /\ Format(c, r, outline'[c], m)
  <2>1. outline'[c] \in Documentation \cup {NoOutline}
    BY <1>7, FetcherFine, AnswerNowKeeps
  <2> QED
    BY <1>5, <1>7, <2>1
<1>8. CASE /\ phase' = [phase EXCEPT ![c] = IF client = "open" THEN "outline" ELSE "refused"]
           /\ metrics' = m /\ UNCHANGED reply
  <2> HIDE DEF m
  <2>1. phase'[c] \in {"outline", "refused"} /\ \A d \in Calls \ {c} : phase'[d] = phase[d]
    BY <1>8 DEF IInv, TypeOK
  <2>2. /\ c \notin Timed' /\ c \notin Missed' /\ c \notin Nudged' /\ c \notin Reached'
        /\ c \notin Queries
    BY <1>1, <1>8 DEF Timed, Missed, Nudged, Reached, Queries, Replied, Shown
  <2>3. c \in Queries' <=> asked[c].query
    BY <1>1, <2>1, UnansweredAssumption DEF Queries, WithQuery
  <2>4. /\ One(phase[c] = "idle") = 0 /\ One(c \in Timed') = 0 /\ One(c \in Missed') = 0
        /\ One(c \in Nudged') = 0 /\ One(c \in Reached') = 0
    BY <1>1, <2>2 DEF One
  <2>5. One(c \in Queries' /\ c \notin Queries) = One(asked[c].query)
    BY <2>2, <2>3 DEF One
  <2>6. /\ metrics.toolCalls + 0 = metrics.toolCalls
        /\ metrics.toolDuration + 0 = metrics.toolDuration
        /\ metrics.notFound + 0 = metrics.notFound /\ metrics.nudge + 0 = metrics.nudge
        /\ metrics.used + metrics.fallback + 0 = metrics.used + metrics.fallback
    BY <1>1, NothingCounted
  <2>7. Total(metrics)' = Total(m)
    BY <1>8 DEF Total
  <2>8. phase'[c] # "idle"
    BY <2>1
  <2> QED
    BY <1>1, <1>2, <1>3, <1>8, <2>1, <2>2, <2>4, <2>5, <2>6, <2>7, <2>8, OneCallCounts
<1> HIDE DEF m
<1>9. \/ r.doc \in Others /\ Format(c, r, NoOutline, m)
      \/ r.doc \in Documentation /\ Memo!AnswerNow(c, r.doc) /\ Format(c, r, outline'[c], m)
      \/ /\ phase' = [phase EXCEPT ![c] = IF client = "open" THEN "outline" ELSE "refused"]
         /\ metrics' = m /\ UNCHANGED reply
  BY DEF SolrAnswers, m
<1> QED
  BY <1>6, <1>7, <1>8, <1>9

LEMMA SolrFailsCounts ==
    ASSUME IInv, CountInv, NEW c \in Calls, NEW end \in Failures, SolrFails(c, end)
    PROVE  CountInv'
<1> DEFINE missing == end = "empty" \/ (end = "invalid" /\ asked[c].query)
           t == IF missing THEN "not_found"
                ELSE CASE end = "timeout" -> "timed_out"
                       [] end \in {"invalid", "http", "value"} -> "unable"
                       [] OTHER -> "raised"
           status == CASE end = "timeout" -> "timeout"
                       [] end \in {"invalid", "http", "value"} -> "error"
                       [] OTHER -> "success"
           q == Queried(c, status)
           n == One(missing)
           m == [q EXCEPT !.notFound = @ + n]
<1>1. /\ phase[c] = "solr" /\ asked' = asked /\ solr' = [solr EXCEPT ![c] = Without(end)]
      /\ Finish(c, Plain(t), m)
  BY DEF SolrFails
<1>2. asked[c] \in Requests /\ reply[c] = None /\ metrics \in Metrics
  BY <1>1 DEF IInv, Waiting, Open, TypeOK
<1>3. t \in Texts \ {"document"} /\ (t = "not_found" <=> missing)
  BY DEF Texts
<1>4. status \in Statuses
  BY DEF Statuses
<1> HIDE DEF status
<1>5. /\ q \in Metrics
      /\ q.toolCalls = metrics.toolCalls /\ q.toolDuration = metrics.toolDuration
      /\ q.notFound = metrics.notFound /\ q.nudge = metrics.nudge
      /\ q.used = metrics.used /\ q.fallback = metrics.fallback
      /\ Total(q) = Total(metrics) + One(asked[c].query)
  BY <1>2, <1>4, QueriedCounts
<1>6. n \in Nat /\ n = One(t = "not_found")
  BY <1>3 DEF One
<1> HIDE DEF missing, t, q, n
<1>7. m = [q EXCEPT !.notFound = q.notFound + n]
  BY <1>5 DEF Metrics
<1> HIDE DEF m
<1>8. /\ m \in Metrics /\ m.toolCalls = q.toolCalls /\ m.toolDuration = q.toolDuration
      /\ m.notFound = q.notFound + n /\ m.nudge = q.nudge
      /\ m.used = q.used /\ m.fallback = q.fallback /\ m.solr = q.solr
  <2>1. q.notFound + n \in Nat
    <3>1. n \in Nat
      BY <1>6
    <3>2. q \in Metrics
      BY <1>5
    <3>3. q.notFound \in Nat
      BY <3>2, CountersAreNumbers
    <3> QED
      BY <3>1, <3>3
  <2> QED
    BY <1>5, <1>7, <2>1 DEF Metrics
<1>9. Total(m) = Total(q)
  BY <1>8 DEF Total
<1>10. One(asked[c].query /\ phase[c] \notin {"outline", "refused", "done"})
          = One(asked[c].query)
  BY <1>1 DEF One
<1>11. m.toolCalls = metrics.toolCalls + One(phase[c] = "idle")
  <2>1. One(phase[c] = "idle") = 0
    BY <1>1 DEF One
  <2>2. metrics.toolCalls + 0 = metrics.toolCalls
    BY <1>2 DEF Metrics
  <2> QED
    BY <1>5, <1>8, <2>1, <2>2
<1>12. \A d \in Calls \ {c} : solr'[d] = solr[d]
  BY <1>1 DEF IInv, TypeOK
<1>13. Total(m) = Total(metrics)
          + One(asked'[c].query /\ phase[c] \notin {"outline", "refused", "done"})
  BY <1>1, <1>5, <1>9, <1>10
<1>14. /\ m.toolDuration = metrics.toolDuration /\ m.nudge = metrics.nudge
       /\ m.notFound = metrics.notFound + One(t = "not_found")
       /\ m.used = metrics.used /\ m.fallback = metrics.fallback
  BY <1>5, <1>6, <1>8
<1> QED
  BY <1>1, <1>2, <1>3, <1>8, <1>11, <1>12, <1>13, <1>14, PlainCounts

(* Steps that await nothing more of Solr leave the Solr counters alone.    *)
LEMMA OutlineReturnsCounts ==
    ASSUME IInv, CountInv, NEW c \in Calls, OutlineReturns(c)
    PROVE  CountInv'
<1>1. PICK page \in {asking[c], NoOutline} : Format(c, solr[c], page, metrics)
  BY DEF OutlineReturns
<1>2. /\ phase[c] = "outline" /\ asked' = asked /\ solr' = solr
      /\ asked[c] \in Requests /\ solr[c] \in Responses /\ asking[c] \in Documentation
      /\ reply[c] = None /\ metrics \in Metrics
  BY DEF OutlineReturns, IInv, Waiting, Open, TypeOK
<1>3. One(asked[c].query /\ phase[c] \notin {"outline", "refused", "done"}) = 0
  BY <1>2 DEF One
<1>4. Total(metrics) + 0 = Total(metrics)
  BY <1>2 DEF Total, Metrics, Statuses
<1>5. phase[c] # "idle"
  BY <1>2
<1> QED
  BY <1>1, <1>2, <1>3, <1>4, <1>5, FormatCounts

LEMMA GivesUpCounts ==
    ASSUME IInv, CountInv, NEW c \in Calls, phase[c] \in {"outline", "refused"},
           NEW t \in {"raised", "cancelled"}, Finish(c, Plain(t), metrics),
           asked' = asked, solr' = solr
    PROVE  CountInv'
<1>1. asked[c] \in Requests /\ reply[c] = None /\ metrics \in Metrics
  BY DEF IInv, Waiting, Open, TypeOK
<1>2. t \in Texts \ {"document"}
  BY DEF Texts
<1>3. /\ One(asked[c].query /\ phase[c] \notin {"outline", "refused", "done"}) = 0
      /\ One(phase[c] = "idle") = 0 /\ One(t = "not_found") = 0
  BY DEF One
<1>4. /\ Total(metrics) + 0 = Total(metrics) /\ metrics.toolCalls + 0 = metrics.toolCalls
      /\ metrics.notFound + 0 = metrics.notFound
  BY <1>1 DEF Total, Metrics, Statuses
<1> QED
  BY <1>1, <1>2, <1>3, <1>4, PlainCounts

LEMMA CancelCounts ==
    ASSUME IInv, CountInv, NEW c \in Calls, Cancel(c)
    PROVE  CountInv'
<1>1. CASE phase[c] = "outline"
  BY <1>1, GivesUpCounts DEF Cancel
<1>2. CASE phase[c] = "solr"
  <2> DEFINE m == Queried(c, "success")
  <2>1. Finish(c, Plain("cancelled"), m) /\ asked' = asked /\ solr' = solr
    BY <1>2 DEF Cancel
  <2>2. asked[c] \in Requests /\ reply[c] = None /\ metrics \in Metrics
    BY <1>2 DEF IInv, Waiting, Open, TypeOK
  <2>3. /\ m \in Metrics
        /\ m.toolCalls = metrics.toolCalls /\ m.toolDuration = metrics.toolDuration
        /\ m.notFound = metrics.notFound /\ m.nudge = metrics.nudge
        /\ m.used = metrics.used /\ m.fallback = metrics.fallback
        /\ Total(m) = Total(metrics) + One(asked[c].query)
    BY <2>2, QueriedCounts DEF Statuses
  <2>4. "cancelled" \in Texts \ {"document"}
    BY DEF Texts
  <2>5. /\ One(asked[c].query /\ phase[c] \notin {"outline", "refused", "done"})
              = One(asked[c].query)
        /\ One(phase[c] = "idle") = 0 /\ One("cancelled" = "not_found") = 0
    BY <1>2 DEF One
  <2>6. metrics.toolCalls + 0 = metrics.toolCalls /\ metrics.notFound + 0 = metrics.notFound
    BY <2>2 DEF Metrics
  <2> HIDE DEF m
  <2> QED
    BY <2>1, <2>2, <2>3, <2>4, <2>5, <2>6, PlainCounts
<1> QED
  BY <1>1, <1>2 DEF Cancel

LEMMA CountInductive == IInv /\ CountInv /\ [Next]_vars => CountInv'
<1> SUFFICES ASSUME IInv, CountInv, [Next]_vars PROVE CountInv'
  OBVIOUS
<1>1. ASSUME NEW c \in Calls,
             \/ Malformed(c) \/ SolrEnds(c) \/ OutlineEnds(c) \/ Cancel(c)
             \/ \E request \in Requests : Start(c, request) \/ StartRefused(c, request)
      PROVE  CountInv'
  <2>1. OutlineRaises(c) => CountInv'
    BY GivesUpCounts DEF OutlineRaises
  <2> QED
    BY <1>1, <2>1, MalformedCounts, SolrAnswersCounts, SolrFailsCounts,
       OutlineReturnsCounts, CancelCounts, StartCounts, StartRefusedCounts
       DEF SolrEnds, OutlineEnds
<1>2. ASSUME UNCHANGED <<phase, asked, solr, reply, metrics>> PROVE CountInv'
  BY <1>2 DEF CountInv, Made, Timed, Missed, Nudged, Reached, Queries, Total,
              Replied, Shown, WithQuery
<1> QED
  BY <1>1, <1>2 DEF Next, Shutdown, vars

(* The counters account for every lookup exactly once under what became of *)
(* it, for any number of calls, whichever fail, are refused or cancelled   *)
(* (the counters and the finally clause of get_document, _solr_query).     *)
THEOREM LookupsCounted == SafeSpec => []DocumentsAccounted
<1>1. CountInv => DocumentsAccounted
  BY DEF CountInv, DocumentsAccounted, Tally, Made, Timed, Missed, Nudged, Reached,
         Queries, Total
<1>2. SafeSpec => []CountInv
  BY Initial, Inductive, CountInitial, CountInductive, PTL DEF SafeSpec
<1> QED
  BY <1>1, <1>2, PTL
=============================================================================
