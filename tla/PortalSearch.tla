---------------------------- MODULE PortalSearch -----------------------------
(***************************************************************************)
(* The orchestration of search_portal (tools/search.py), the two search    *)
(* pipelines (portal.py) and the Solr client (solr.py) on one event loop:  *)
(* a call fans out into up to MAX_QUERIES sub-queries, each of them a main *)
(* request and, unless its intent skips it, a deprecation request.         *)
(*                                                                         *)
(* The two requests of a sub-query are joined by asyncio.gather without    *)
(* return_exceptions: the first failure ends the sub-query and leaves the  *)
(* other request running with nobody waiting for it.  The sub-queries of a *)
(* call are joined with return_exceptions: a call waits for all of them.   *)
(* A sub-query resumes in the loop turn its gather completes, so it has no *)
(* step of its own; a call resumes in a later turn and can be cancelled in *)
(* between.  What a response holds is abstracted to whether chunks are     *)
(* made of it; SearchRanking models what is done with the chunks.          *)
(***************************************************************************)
EXTENDS Naturals, FiniteSets

CONSTANTS
    Calls,        \* calls of the tool, each made once
    MAX_QUERIES,  \* _MAX_QUERIES
    MaxSubmitted, \* bound: distinct non-blank queries a caller passes
    Outcomes,     \* ways a Solr request can end (a subset of AllOutcomes)
    NoError       \* the sub-query has not failed

(* How client.get, raise_for_status, json and model_validate can end:      *)
(* documents that make chunks, none, a body that fails validation, a       *)
(* timeout, another HTTP error, a body that is not JSON, any other         *)
(* exception (InvalidURL, a closed client).                                *)
Answered == {"docs", "empty", "invalid"}
Errors == {"timeout", "http", "value", "other"}
AllOutcomes == Answered \cup Errors

ASSUME QueriesAssumption == MAX_QUERIES \in Nat \ {0} /\ MaxSubmitted \in Nat
ASSUME OutcomesAssumption == Outcomes \subseteq AllOutcomes
ASSUME NoErrorAssumption == NoError \notin Errors

VARIABLES
    call,      \* "idle", "running", "cancelling" or "done"
    queries,   \* sub-queries of the call
    request,   \* request[c][i]["main" or "dep"]
    exc,       \* exc[c][i]: what the sub-query's gather raised, or NoError
    answer,    \* what the tool returned, or "none"
    metrics    \* the Prometheus counters

vars == <<call, queries, request, exc, answer, metrics>>

Slots == 1..MAX_QUERIES
Kinds == {"main", "dep"}
Statuses == {"success", "error", "timeout"}

(* "absent": never created; "ready": a task not yet run; "flying": sent;   *)
(* "cancelling": cancelled, CancelledError not yet raised; "unsent": a     *)
(* task cancelled before it ran.                                           *)
Ended == AllOutcomes \cup {"cancelled", "unsent"}
RequestStates == Ended \cup {"absent", "ready", "flying", "cancelling"}

-----------------------------------------------------------------------------
(* Sub-queries. *)

SubQueries(c) == 1..queries[c]

Completed(c, i) == \A k \in Kinds : request[c][i][k] \in Answered \cup {"absent"}

Settled(c, i) == exc[c][i] # NoError \/ Completed(c, i)

(* The sub-queries whose result _run_multi_query_search fuses, or the one  *)
(* of the single-query path.                                               *)
Successes(c) == {i \in SubQueries(c) : exc[c][i] = NoError}

HasChunks(c, i) == \E k \in Kinds : request[c][i][k] = "docs"

-----------------------------------------------------------------------------
(* _solr_query. *)

(* The label SOLR_QUERIES counts a request under: _status starts as        *)
(* SUCCESS and only the listed exceptions change it.                       *)
Status(end) ==
    CASE end = "timeout" -> "timeout"
      [] end \in {"invalid", "http", "value"} -> "error"
      [] OTHER -> "success"

Count(end) == [metrics EXCEPT !.solr[Status(end)] = @ + 1]

Send(c, i, k) ==
    /\ request[c][i][k] = "ready"
    /\ request' = [request EXCEPT ![c][i][k] = "flying"]
    /\ UNCHANGED <<call, queries, exc, answer, metrics>>

(* Mutant: the last failure of the pair wins. *)
RequestEndsOverwriting(c, i, k, end) ==
    /\ request[c][i][k] = "flying"
    /\ request' = [request EXCEPT ![c][i][k] = end]
    /\ exc' = IF end \in Errors THEN [exc EXCEPT ![c][i] = end] ELSE exc
    /\ metrics' = Count(end)
    /\ UNCHANGED <<call, queries, answer>>

(* Mutant: a request is dropped when its call is over. *)
RequestEndsInCall(c, i, k, end) ==
    call[c] = "running" /\ RequestEndsOverwriting(c, i, k, end)

(* The request ends and its task with it.  The first failure of the pair   *)
(* completes the gather; a later one is nobody's business any more.        *)
RequestEnds(c, i, k, end) ==
    /\ request[c][i][k] = "flying"
    /\ request' = [request EXCEPT ![c][i][k] = end]
    /\ exc' = IF end \in Errors /\ exc[c][i] = NoError
              THEN [exc EXCEPT ![c][i] = end]
              ELSE exc
    /\ metrics' = Count(end)
    /\ UNCHANGED <<call, queries, answer>>

(* Mutant: the counter is not in the finally clause. *)
RequestCancelledUncounted(c, i, k) ==
    /\ request[c][i][k] = "cancelling"
    /\ request' = [request EXCEPT ![c][i][k] = "cancelled"]
    /\ UNCHANGED <<call, queries, exc, answer, metrics>>

(* CancelledError passes every handler of _solr_query but the finally.     *)
RequestCancelled(c, i, k) ==
    /\ request[c][i][k] = "cancelling"
    /\ request' = [request EXCEPT ![c][i][k] = "cancelled"]
    /\ metrics' = Count("cancelled")
    /\ UNCHANGED <<call, queries, exc, answer>>

-----------------------------------------------------------------------------
(* search_portal. *)

(* The finally clause: the call's duration is observed as it ends. *)
Finish(c, text, counted) ==
    /\ call' = [call EXCEPT ![c] = "done"]
    /\ answer' = [answer EXCEPT ![c] = text]
    /\ metrics' = [counted EXCEPT !.toolDuration = @ + 1]

(* No query is left after stripping: the validation message.  The whole    *)
(* call is one step, nothing is awaited.                                   *)
Reject(c) ==
    /\ call[c] = "idle"
    /\ Finish(c, "bad_query", [metrics EXCEPT !.toolCalls = @ + 1])
    /\ UNCHANGED <<queries, request, exc>>

(* Mutant: the queries are not capped. *)
StartUncapped(c, submitted, skipped) ==
    /\ call[c] = "idle"
    /\ call' = [call EXCEPT ![c] = "running"]
    /\ queries' = [queries EXCEPT ![c] = submitted]
    /\ request' = [request EXCEPT ![c] =
          [i \in Slots |-> [k \in Kinds |->
             IF i <= submitted /\ (k = "main" \/ i \notin skipped)
             THEN "ready" ELSE "absent"]]]
    /\ metrics' = [metrics EXCEPT !.toolCalls = @ + 1]
    /\ UNCHANGED <<exc, answer>>

(* The queries past MAX_QUERIES are dropped; skipped are the sub-queries   *)
(* whose intent rules the deprecation request out.                         *)
Start(c, submitted, skipped) ==
    LET n == IF submitted > MAX_QUERIES THEN MAX_QUERIES ELSE submitted
    IN  /\ call[c] = "idle"
        /\ call' = [call EXCEPT ![c] = "running"]
        /\ queries' = [queries EXCEPT ![c] = n]
        /\ request' = [request EXCEPT ![c] =
              [i \in Slots |-> [k \in Kinds |->
                 IF i <= n /\ (k = "main" \/ i \notin skipped)
                 THEN "ready" ELSE "absent"]]]
        /\ metrics' = [metrics EXCEPT !.toolCalls = @ + 1]
        /\ UNCHANGED <<exc, answer>>

(* The except clauses: an exception no clause names leaves the tool.       *)
ErrorText(e) ==
    CASE e = "timeout" -> "timed_out"
      [] e = "http" -> "unavailable"
      [] e = "value" -> "unexpected_response"
      [] OTHER -> "raised"

(* Mutant: one failed query fails the call. *)
AnswerAllOrNothing(c, hasDep) ==
    /\ call[c] = "running"
    /\ \A i \in SubQueries(c) : Settled(c, i)
    /\ IF \E i \in SubQueries(c) : exc[c][i] # NoError
       THEN \E i \in SubQueries(c) :
               exc[c][i] # NoError /\ Finish(c, ErrorText(exc[c][i]), metrics)
       ELSE Finish(c, IF \E i \in SubQueries(c) : HasChunks(c, i)
                      THEN "results" ELSE "no_results", metrics)
    /\ UNCHANGED <<queries, request, exc>>

(* Mutant: the case that every query failed is forgotten. *)
AnswerSuccessOnly(c, hasDep) ==
    Successes(c) # {} /\ AnswerAllOrNothing(c, hasDep)

(* Mutant: a failed search is counted as one without results. *)
AnswerCountsFailures(c, hasDep) ==
    LET found == \E i \in Successes(c) : HasChunks(c, i)
    IN  /\ call[c] = "running"
        /\ \A i \in SubQueries(c) : Settled(c, i)
        /\ Finish(c, IF Successes(c) = {} THEN ErrorText(exc[c][1])
                     ELSE IF found THEN "results" ELSE "no_results",
              [metrics EXCEPT !.resultCount = @ + 1,
                              !.zeroResults = @ + IF found THEN 0 ELSE 1])
        /\ UNCHANGED <<queries, request, exc>>

(* Every sub-query has settled and the call resumes.  Quality metrics are  *)
(* recorded once per call that has a result to show, even an empty one.    *)
(* hasDep: whether a chunk the deprecation request also returned is among  *)
(* a sub-query's results.                                                  *)
Answer(c, hasDep) ==
    LET found == \E i \in Successes(c) : HasChunks(c, i)
    IN  /\ call[c] = "running"
        /\ \A i \in SubQueries(c) : Settled(c, i)
        /\ hasDep => \E i \in Successes(c) : request[c][i]["dep"] = "docs"
        /\ IF Successes(c) = {}
           THEN Finish(c, ErrorText(exc[c][1]), metrics)
           ELSE Finish(c, IF found THEN "results" ELSE "no_results",
                   [metrics EXCEPT
                       !.resultCount = @ + 1,
                       !.zeroResults = @ + IF found THEN 0 ELSE 1,
                       !.deprecation = @ + IF hasDep THEN 1 ELSE 0])
        /\ UNCHANGED <<queries, request, exc>>

(* Mutant: the deprecation requests are not cancelled. *)
CancelMainOnly(c) ==
    /\ call[c] = "running"
    /\ call' = [call EXCEPT ![c] = "cancelling"]
    /\ request' = [request EXCEPT ![c] =
          [i \in Slots |-> [k \in Kinds |->
             IF Settled(c, i) \/ k = "dep" THEN request[c][i][k]
             ELSE IF request[c][i][k] = "flying" THEN "cancelling"
             ELSE IF request[c][i][k] = "ready" THEN "unsent"
             ELSE request[c][i][k]]]]
    /\ UNCHANGED <<queries, exc, answer, metrics>>

(* The client withdraws the call: cancellation reaches the requests of the *)
(* sub-queries still waiting, and no others.                               *)
Cancel(c) ==
    /\ call[c] = "running"
    /\ call' = [call EXCEPT ![c] = "cancelling"]
    /\ request' = [request EXCEPT ![c] =
          [i \in Slots |-> [k \in Kinds |->
             IF Settled(c, i) THEN request[c][i][k]
             ELSE IF request[c][i][k] = "flying" THEN "cancelling"
             ELSE IF request[c][i][k] = "ready" THEN "unsent"
             ELSE request[c][i][k]]]]
    /\ UNCHANGED <<queries, exc, answer, metrics>>

(* A gather without return_exceptions is done with its first cancelled     *)
(* request, the outer one when every sub-query is.                         *)
EndCancelled(c) ==
    /\ call[c] = "cancelling"
    /\ \A i \in SubQueries(c) :
          \/ Settled(c, i)
          \/ \E k \in Kinds : request[c][i][k] \in {"cancelled", "unsent"}
    /\ Finish(c, "cancelled", metrics)
    /\ UNCHANGED <<queries, request, exc>>

-----------------------------------------------------------------------------
Init ==
    /\ call = [c \in Calls |-> "idle"]
    /\ queries = [c \in Calls |-> 0]
    /\ request = [c \in Calls |-> [i \in Slots |-> [k \in Kinds |-> "absent"]]]
    /\ exc = [c \in Calls |-> [i \in Slots |-> NoError]]
    /\ answer = [c \in Calls |-> "none"]
    /\ metrics = [toolCalls |-> 0, toolDuration |-> 0,
                  solr |-> [s \in Statuses |-> 0],
                  resultCount |-> 0, zeroResults |-> 0, deprecation |-> 0]

Transfer(c, i, k) ==
    \/ Send(c, i, k)
    \/ RequestCancelled(c, i, k)
    \/ \E end \in Outcomes : RequestEnds(c, i, k, end)

Resume(c) == EndCancelled(c) \/ \E hasDep \in BOOLEAN : Answer(c, hasDep)

Next ==
    \E c \in Calls :
        \/ Reject(c) \/ Cancel(c) \/ Resume(c)
        \/ \E n \in 1..MaxSubmitted, skipped \in SUBSET Slots :
              Start(c, n, skipped)
        \/ \E i \in Slots, k \in Kinds : Transfer(c, i, k)

SafeSpec == Init /\ [][Next]_vars

(* The loop runs every task that is ready and the client's 30 second       *)
(* timeout ends every request; no client has to call or to cancel.         *)
Spec ==
    /\ SafeSpec
    /\ \A c \in Calls :
          /\ WF_vars(Resume(c))
          /\ \A i \in Slots, k \in Kinds : WF_vars(Transfer(c, i, k))

-----------------------------------------------------------------------------
Answers == {"none", "results", "no_results", "timed_out", "unavailable",
            "unexpected_response", "raised", "bad_query", "cancelled"}

Metrics == [toolCalls : Nat, toolDuration : Nat, solr : [Statuses -> Nat],
            resultCount : Nat, zeroResults : Nat, deprecation : Nat]

TypeOK ==
    /\ call \in [Calls -> {"idle", "running", "cancelling", "done"}]
    /\ queries \in [Calls -> 0..MAX_QUERIES]
    /\ request \in [Calls -> [Slots -> [Kinds -> RequestStates]]]
    /\ exc \in [Calls -> [Slots -> Errors \cup {NoError}]]
    /\ answer \in [Calls -> Answers]
    /\ metrics \in Metrics

(* "Partial failures are tolerated" and "only when all queries fail is the *)
(* first exception re-raised": an error is reported only if no query       *)
(* succeeded, and then the one of the first query in the caller's order,   *)
(* not of the first to fail; the search shows results exactly when a query *)
(* that succeeded has some.  It stays true while abandoned requests end.   *)
AnswerJustified ==
    \A c \in Calls :
        /\ answer[c] = "results" =>
              \E i \in Successes(c) : Completed(c, i) /\ HasChunks(c, i)
        /\ answer[c] = "no_results" =>
              /\ Successes(c) # {}
              /\ \A i \in Successes(c) : Completed(c, i) /\ ~HasChunks(c, i)
        /\ answer[c] \in {"timed_out", "unavailable", "unexpected_response", "raised"} =>
              Successes(c) = {} /\ answer[c] = ErrorText(exc[c][1])

(* A request outlives its call only because its sibling failed, or because *)
(* its cancellation has been asked for: no healthy search leaks requests.  *)
NoStrayRequests ==
    \A c \in Calls, i \in Slots, k \in Kinds :
        call[c] = "done" /\ request[c][i][k] \in {"ready", "flying"}
            => /\ exc[c][i] # NoError
               /\ \E sibling \in Kinds \ {k} : request[c][i][sibling] \in Errors

(* Every request that was sent is counted under exactly one status once it *)
(* ends, the abandoned and the cancelled ones included.                    *)
RequestsSent ==
    {r \in Calls \X Slots \X Kinds :
        request[r[1]][r[2]][r[3]] \in AllOutcomes \cup {"cancelled"}}

SolrAccounted ==
    metrics.solr["success"] + metrics.solr["error"] + metrics.solr["timeout"]
        = Cardinality(RequestsSent)

(* The quality metrics count user-visible searches: one observation for    *)
(* every call that got a result, none for a failed or cancelled one, and   *)
(* the durations observed are those of the calls that ended.               *)
Ending(texts) == {c \in Calls : answer[c] \in texts}

SearchesAccounted ==
    /\ metrics.resultCount = Cardinality(Ending({"results", "no_results"}))
    /\ metrics.zeroResults = Cardinality(Ending({"no_results"}))
    /\ metrics.deprecation <= Cardinality(Ending({"results"}))
    /\ metrics.toolDuration = Cardinality(Ending(Answers \ {"none"}))
    /\ metrics.toolCalls = Cardinality({c \in Calls : call[c] # "idle"})

(* Every call comes to an end, whatever Solr and the caller do.            *)
EveryCallEnds == \A c \in Calls : call[c] = "running" ~> call[c] = "done"

(* Every abandoned request ends and is counted, its call being long over.  *)
RequestsDrain ==
    \A c \in Calls, i \in Slots, k \in Kinds :
        request[c][i][k] = "ready" ~> request[c][i][k] \in Ended

-----------------------------------------------------------------------------
(* A query has its outcome once its sub-query has settled; a query the     *)
(* cancellation caught never gets one.                                     *)
QueryOutcome(c, i) ==
    IF i \notin SubQueries(c) \/ ~Settled(c, i) THEN "unknown"
    ELSE IF exc[c][i] # NoError THEN exc[c][i]
    ELSE IF HasChunks(c, i) THEN "found" ELSE "nothing"

(* The orchestration keeps the promise of SearchService: in particular the *)
(* outcome of a query is final, however late its other request ends.       *)
Service == INSTANCE SearchService
    WITH MaxQueries <- MAX_QUERIES, Failures <- Errors, Unknown <- "unknown",
         Message <- ErrorText,
         state <- [c \in Calls |->
                     CASE call[c] = "idle" -> "idle"
                       [] call[c] = "done" -> "answered"
                       [] OTHER -> "searching"],
         size <- queries,
         outcome <- [c \in Calls |-> [i \in Slots |-> QueryOutcome(c, i)]],
         reply <- answer

ServiceSpec == Service!Spec
=============================================================================
