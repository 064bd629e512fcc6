-------------------------- MODULE PortalSearchProofs --------------------------
(***************************************************************************)
(* Theorems about PortalSearch for every set of calls, every cap on the    *)
(* queries and every set of ways a request can end, checked by TLAPS.      *)
(***************************************************************************)
EXTENDS PortalSearch, Counting, TLAPS

Live == {"ready", "flying"}

(* What holds of one call between two steps.  A request can still run on   *)
(* its own only while its call waits for it or after its sub-query failed; *)
(* a failure always has the request it came from; a call that waits has a  *)
(* query to wait for; an idle call is blank.                               *)
CallInv(c) ==
    /\ call[c] = "idle" =>
          /\ queries[c] = 0 /\ answer[c] = "none"
          /\ \A i \in Slots : exc[c][i] = NoError
    /\ call[c] \in {"running", "cancelling"} => queries[c] >= 1
    /\ \A i \in Slots \ SubQueries(c) :
          exc[c][i] = NoError /\ \A k \in Kinds : request[c][i][k] = "absent"
    /\ \A i \in Slots, k \in Kinds :
          request[c][i][k] \in Live /\ exc[c][i] = NoError => call[c] = "running"
    /\ \A i \in Slots :
          exc[c][i] # NoError => \E k \in Kinds : request[c][i][k] \in Errors

-----------------------------------------------------------------------------
(* Counting keeps the counters natural numbers.                            *)
LEMMA CountType ==
    ASSUME metrics \in Metrics, NEW end \in AllOutcomes \cup {"cancelled"}
    PROVE  Count(end) \in Metrics
<1>1. Status(end) \in Statuses
  BY DEF Status, Statuses
<1>2. metrics.solr \in [Statuses -> Nat]
  BY DEF Metrics
<1>3. [metrics.solr EXCEPT ![Status(end)] = @ + 1] \in [Statuses -> Nat]
  BY <1>1, <1>2
<1>4. Count(end) = [metrics EXCEPT !.solr =
                      [metrics.solr EXCEPT ![Status(end)] = @ + 1]]
  BY DEF Count
<1> QED
  BY <1>3, <1>4 DEF Metrics

LEMMA CallCounted ==
    ASSUME NEW m \in Metrics
    PROVE  /\ [m EXCEPT !.toolCalls = @ + 1] \in Metrics
           /\ [m EXCEPT !.toolDuration = @ + 1] \in Metrics
  BY DEF Metrics

LEMMA ResultCounted ==
    ASSUME NEW m \in Metrics, NEW zero \in Nat, NEW dep \in Nat
    PROVE  [m EXCEPT !.resultCount = @ + 1, !.zeroResults = @ + zero,
                     !.deprecation = @ + dep] \in Metrics
<1>1. m.resultCount + 1 \in Nat /\ m.zeroResults + zero \in Nat
      /\ m.deprecation + dep \in Nat
  BY DEF Metrics
<1> QED
  BY <1>1, Zenon DEF Metrics

LEMMA RequestType ==
    ASSUME TypeOK, NEW c \in Calls, NEW i \in Slots, NEW k \in Kinds
    PROVE  request[c][i][k] \in RequestStates
<1>1. request \in [Calls -> [Slots -> [Kinds -> RequestStates]]]
  BY DEF TypeOK
<1>2. request[c] \in [Slots -> [Kinds -> RequestStates]]
  BY <1>1
<1>3. request[c][i] \in [Kinds -> RequestStates]
  BY <1>2
<1> QED
  BY <1>3

(* What an update of one request does to each of them.                     *)
Update(c, i, k, end) == request' = [request EXCEPT ![c][i][k] = end]

LEMMA OneRequestChanges ==
    ASSUME TypeOK, NEW c \in Calls, NEW i \in Slots, NEW k \in Kinds, NEW end,
           Update(c, i, k, end),
           NEW c2 \in Calls, NEW i2 \in Slots, NEW k2 \in Kinds
    PROVE  request'[c2][i2][k2] = IF c2 = c /\ i2 = i /\ k2 = k THEN end
                                  ELSE request[c2][i2][k2]
<1>1. request \in [Calls -> [Slots -> [Kinds -> RequestStates]]]
  BY DEF TypeOK
<1> DEFINE row == [request[c][i] EXCEPT ![k] = end]
<1>2. request'[c2] = IF c2 = c THEN [request[c] EXCEPT ![i] = row]
                     ELSE request[c2]
  BY <1>1 DEF Update
<1>3. request[c] \in [Slots -> [Kinds -> RequestStates]]
  BY <1>1
<1>4. request[c][i] \in [Kinds -> RequestStates]
  BY <1>3
<1>5. CASE c2 = c
  <2>1. request'[c2][i2] = IF i2 = i THEN row ELSE request[c][i2]
    <3> HIDE DEF row
    <3>1. request'[c2] = [request[c] EXCEPT ![i] = row]
      BY <1>2, <1>5
    <3> QED
      BY <1>3, <3>1, Zenon
  <2>2. row[k2] = IF k2 = k THEN end ELSE request[c][i][k2]
    BY <1>4
  <2> QED
    BY <1>5, <2>1, <2>2
<1> QED
  BY <1>2, <1>5

LEMMA InitTypeOK == Init => TypeOK
<1> SUFFICES ASSUME Init PROVE TypeOK
  OBVIOUS
<1>1. metrics \in Metrics
  BY DEF Init, Metrics, Statuses
<1>2. 0 \in 0..MAX_QUERIES
  BY QueriesAssumption
<1> QED
  BY <1>1, <1>2 DEF Init, TypeOK, RequestStates, Answers

LEMMA NextTypeOK == TypeOK /\ [Next]_vars => TypeOK'
<1> SUFFICES ASSUME TypeOK, [Next]_vars PROVE TypeOK'
  OBVIOUS
<1>1. ASSUME NEW c \in Calls, Reject(c) PROVE TypeOK'
  <2>1. metrics' \in Metrics
    BY <1>1, CallCounted DEF TypeOK, Reject, Finish
  <2> QED
    BY <1>1, <2>1 DEF TypeOK, Reject, Finish, Answers
<1>2. ASSUME NEW c \in Calls, NEW n \in 1..MaxSubmitted,
             NEW skipped \in SUBSET Slots, Start(c, n, skipped)
      PROVE TypeOK'
  <2>1. metrics' \in Metrics
    BY <1>2, CallCounted DEF TypeOK, Start
  <2>2. queries' \in [Calls -> 0..MAX_QUERIES]
    BY <1>2, QueriesAssumption DEF TypeOK, Start
  <2>3. request' \in [Calls -> [Slots -> [Kinds -> RequestStates]]]
    BY <1>2 DEF TypeOK, Start, RequestStates
  <2> QED
    BY <1>2, <2>1, <2>2, <2>3 DEF TypeOK, Start
<1>3. ASSUME NEW c \in Calls, NEW i \in Slots, NEW k \in Kinds, Send(c, i, k)
      PROVE TypeOK'
  BY <1>3 DEF TypeOK, Send, RequestStates
<1>4. ASSUME NEW c \in Calls, NEW i \in Slots, NEW k \in Kinds,
             RequestCancelled(c, i, k)
      PROVE TypeOK'
  BY <1>4, CountType DEF TypeOK, RequestCancelled, RequestStates, Ended
<1>5. ASSUME NEW c \in Calls, NEW i \in Slots, NEW k \in Kinds,
             NEW end \in Outcomes, RequestEnds(c, i, k, end)
      PROVE TypeOK'
  <2>1. end \in AllOutcomes
    BY OutcomesAssumption
  <2>2. exc' \in [Calls -> [Slots -> Errors \cup {NoError}]]
    BY <1>5 DEF TypeOK, RequestEnds
  <2> QED
    BY <1>5, <2>1, <2>2, CountType DEF TypeOK, RequestEnds, RequestStates, Ended
<1>6. ASSUME NEW c \in Calls, NEW hasDep \in BOOLEAN, Answer(c, hasDep)
      PROVE TypeOK'
  <2>1. metrics' \in Metrics
    <3> DEFINE zero == IF \E i \in Successes(c) : HasChunks(c, i) THEN 0 ELSE 1
               dep == IF hasDep THEN 1 ELSE 0
               counted == [metrics EXCEPT !.resultCount = @ + 1,
                                          !.zeroResults = @ + zero,
                                          !.deprecation = @ + dep]
    <3>1. metrics \in Metrics /\ zero \in Nat /\ dep \in Nat
      BY DEF TypeOK
    <3>2. \/ metrics' = [metrics EXCEPT !.toolDuration = @ + 1]
          \/ metrics' = [counted EXCEPT !.toolDuration = @ + 1]
      BY <1>6, Zenon DEF Answer, Finish
    <3> HIDE DEF zero, dep
    <3>3. counted \in Metrics
      BY <3>1, ResultCounted
    <3> HIDE DEF counted
    <3> QED
      BY <3>1, <3>2, <3>3, CallCounted
  <2>2. ErrorText(exc[c][1]) \in Answers
    BY DEF ErrorText, Answers
  <2>3. answer' \in [Calls -> Answers]
    BY <1>6, <2>2 DEF TypeOK, Answer, Finish, Answers
  <2> QED
    BY <1>6, <2>1, <2>3 DEF TypeOK, Answer, Finish
<1>7. ASSUME NEW c \in Calls, Cancel(c) PROVE TypeOK'
  <2>1. request' \in [Calls -> [Slots -> [Kinds -> RequestStates]]]
    <3> DEFINE After(i, k) ==
                 IF Settled(c, i) THEN request[c][i][k]
                 ELSE IF request[c][i][k] = "flying" THEN "cancelling"
                 ELSE IF request[c][i][k] = "ready" THEN "unsent"
                 ELSE request[c][i][k]
    <3>1. \A i \in Slots, k \in Kinds : After(i, k) \in RequestStates
      <4> TAKE i \in Slots, k \in Kinds
      <4>1. request[c][i][k] \in RequestStates
        BY RequestType
      <4> QED
        BY <4>1, Zenon DEF RequestStates, Ended
    <3>2. request' = [request EXCEPT ![c] =
                        [i \in Slots |-> [k \in Kinds |-> After(i, k)]]]
      BY <1>7 DEF Cancel
    <3> HIDE DEF After
    <3> QED
      BY <3>1, <3>2 DEF TypeOK
  <2> QED
    BY <1>7, <2>1 DEF TypeOK, Cancel
<1>8. ASSUME NEW c \in Calls, EndCancelled(c) PROVE TypeOK'
  <2>1. metrics' \in Metrics
    BY <1>8, CallCounted DEF TypeOK, EndCancelled, Finish
  <2> QED
    BY <1>8, <2>1 DEF TypeOK, EndCancelled, Finish, Answers
<1>9. ASSUME UNCHANGED vars PROVE TypeOK'
  BY <1>9 DEF TypeOK, vars
<1> QED
  BY <1>1, <1>2, <1>3, <1>4, <1>5, <1>6, <1>7, <1>8, <1>9
     DEF Next, Transfer, Resume

-----------------------------------------------------------------------------
(* AnswerJustified and NoStrayRequests, of one call.                       *)
Justified(c) ==
    /\ answer[c] = "results" =>
          \E i \in Successes(c) : Completed(c, i) /\ HasChunks(c, i)
    /\ answer[c] = "no_results" =>
          /\ Successes(c) # {}
          /\ \A i \in Successes(c) : Completed(c, i) /\ ~HasChunks(c, i)
    /\ answer[c] \in {"timed_out", "unavailable", "unexpected_response", "raised"} =>
          Successes(c) = {} /\ answer[c] = ErrorText(exc[c][1])

Good(c) == CallInv(c) /\ Justified(c)

IInv == TypeOK /\ \A c \in Calls : Good(c)

(* A call no variable of which changes stays as good as it was. *)
LEMMA OthersKeep ==
    ASSUME NEW c, Good(c),
           call'[c] = call[c], queries'[c] = queries[c],
           request'[c] = request[c], exc'[c] = exc[c], answer'[c] = answer[c]
    PROVE  Good(c)'
<1>1. /\ SubQueries(c)' = SubQueries(c)
      /\ Successes(c)' = Successes(c)
      /\ \A i : Completed(c, i)' = Completed(c, i)
      /\ \A i : HasChunks(c, i)' = HasChunks(c, i)
  BY DEF Successes, SubQueries, Completed, HasChunks
<1>2. CallInv(c)'
  BY <1>1 DEF Good, CallInv
<1>3. Justified(c)'
  BY <1>1 DEF Good, Justified, ErrorText
<1> QED
  BY <1>2, <1>3 DEF Good

(* A request moves on without ending in an answer or an error. *)
LEMMA MovingKeeps ==
    ASSUME IInv, NEW c \in Calls, NEW i \in Slots, NEW k \in Kinds,
           NEW end \in {"flying", "cancelled"},
           \/ request[c][i][k] \in Live /\ end = "flying"
           \/ request[c][i][k] = "cancelling" /\ end = "cancelled",
           Update(c, i, k, end),
           UNCHANGED <<call, queries, exc, answer>>
    PROVE  \A c2 \in Calls :
              /\ Good(c2)'
              /\ \A j \in Slots : /\ Completed(c2, j)' = Completed(c2, j)
                                  /\ HasChunks(c2, j)' = HasChunks(c2, j)
<1> SUFFICES ASSUME NEW c2 \in Calls
             PROVE  /\ Good(c2)'
                    /\ \A j \in Slots : /\ Completed(c2, j)' = Completed(c2, j)
                                        /\ HasChunks(c2, j)' = HasChunks(c2, j)
  OBVIOUS
<1>1. \A j \in Slots, m \in Kinds :
         request'[c2][j][m] = IF c2 = c /\ j = i /\ m = k THEN end
                              ELSE request[c2][j][m]
  <2>1. TypeOK
    BY DEF IInv
  <2> TAKE j \in Slots, m \in Kinds
  <2> QED
    BY <2>1, OneRequestChanges
<1>2. SubQueries(c2)' = SubQueries(c2) /\ Successes(c2)' = Successes(c2)
      /\ SubQueries(c2) \subseteq Slots /\ Successes(c2) \subseteq Slots
  <2>1. queries[c2] \in 0..MAX_QUERIES
    BY DEF IInv, TypeOK
  <2> QED
    BY <2>1, QueriesAssumption DEF Successes, SubQueries, Slots
<1>3. ASSUME NEW j \in Slots
      PROVE  /\ Completed(c2, j)' = Completed(c2, j)
             /\ HasChunks(c2, j)' = HasChunks(c2, j)
  <2>1. CASE c2 = c /\ j = i
    <3>1. request'[c2][j][k] = end /\ request[c2][j][k] \in Live \cup {"cancelling"}
      BY <1>1, <2>1 DEF Live
    <3>2. ~Completed(c2, j) /\ ~Completed(c2, j)'
      BY <3>1 DEF Completed, Answered, Live
    <3>3. HasChunks(c2, j)' = HasChunks(c2, j)
      BY <1>1, <3>1 DEF HasChunks, Live
    <3> QED
      BY <3>2, <3>3 DEF Completed
  <2>2. CASE ~(c2 = c /\ j = i)
    BY <1>1, <2>2 DEF Completed, HasChunks
  <2> QED
    BY <2>1, <2>2
<1>4. Justified(c2)'
  BY <1>2, <1>3 DEF IInv, Good, Justified, ErrorText
<1>5. CallInv(c2)'
  BY <1>1, <1>2 DEF IInv, Good, CallInv, Live, Errors
<1> QED
  BY <1>3, <1>4, <1>5 DEF Good

(* A request ends: it belongs to a sub-query that was not settled, or to   *)
(* one that had failed, whose outcome does not change any more.            *)
LEMMA EndingKeeps ==
    ASSUME IInv, NEW c \in Calls, NEW i \in Slots, NEW k \in Kinds,
           NEW end \in AllOutcomes, RequestEnds(c, i, k, end)
    PROVE  /\ \A c2 \in Calls : Good(c2)'
           /\ i \in SubQueries(c) /\ ~Completed(c, i)
           /\ \A c2 \in Calls, j \in Slots :
                 c2 # c \/ j # i =>
                    /\ exc'[c2][j] = exc[c2][j]
                    /\ Completed(c2, j)' = Completed(c2, j)
                    /\ HasChunks(c2, j)' = HasChunks(c2, j)
           /\ exc'[c][i] = IF end \in Errors /\ exc[c][i] = NoError
                           THEN end ELSE exc[c][i]
<1>1. TypeOK /\ Good(c) /\ CallInv(c) /\ Justified(c)
  BY DEF IInv, Good
<1>2. \A c2 \in Calls, j \in Slots, m \in Kinds :
         request'[c2][j][m] = IF c2 = c /\ j = i /\ m = k THEN end
                              ELSE request[c2][j][m]
  <2> TAKE c2 \in Calls, j \in Slots, m \in Kinds
  <2>1. Update(c, i, k, end)
    BY DEF RequestEnds, Update
  <2> QED
    BY <1>1, <2>1, OneRequestChanges
<1>3. \A c2 \in Calls, j \in Slots :
         exc'[c2][j] = IF c2 = c /\ j = i /\ end \in Errors /\ exc[c][i] = NoError
                       THEN end ELSE exc[c2][j]
  <2>1. exc \in [Calls -> [Slots -> Errors \cup {NoError}]]
    BY <1>1 DEF TypeOK
  <2> QED
    BY <2>1 DEF RequestEnds
<1>4. /\ i \in SubQueries(c)
      /\ request[c][i][k] = "flying"
      /\ ~Completed(c, i)
  <2>1. request[c][i][k] = "flying"
    BY DEF RequestEnds
  <2> QED
    BY <1>1, <2>1 DEF CallInv, Completed, Answered
<1>5. \A c2 \in Calls, j \in Slots :
         c2 # c \/ j # i => /\ Completed(c2, j)' = Completed(c2, j)
                           /\ HasChunks(c2, j)' = HasChunks(c2, j)
  BY <1>2 DEF Completed, HasChunks
<1>6. \A c2 \in Calls \ {c} : Good(c2)'
  <2> TAKE c2 \in Calls \ {c}
  <2>1. /\ call'[c2] = call[c2] /\ queries'[c2] = queries[c2]
        /\ answer'[c2] = answer[c2]
    BY DEF RequestEnds
  <2>2. request'[c2] = request[c2] /\ exc'[c2] = exc[c2]
    BY <1>1 DEF RequestEnds, TypeOK
  <2> QED
    BY <2>1, <2>2, OthersKeep DEF IInv
<1>7. /\ SubQueries(c)' = SubQueries(c) /\ SubQueries(c) \subseteq Slots
      /\ call' = call /\ queries' = queries /\ answer' = answer
  <2>1. queries[c] \in 0..MAX_QUERIES
    BY <1>1 DEF TypeOK
  <2> QED
    BY <2>1, QueriesAssumption DEF RequestEnds, SubQueries, Slots
<1>8. \A j \in Successes(c) : j \in Slots /\ (j # i => j \in Successes(c)')
  BY <1>3, <1>7 DEF Successes
<1>9. i \notin Successes(c) => exc' = exc /\ Successes(c)' = Successes(c)
  BY <1>4, <1>7 DEF RequestEnds, Successes
<1>10. Justified(c)'
  <2>1. CASE answer[c] = "results"
    <3>1. PICK j \in Successes(c) : Completed(c, j) /\ HasChunks(c, j)
      BY <1>1, <2>1 DEF Justified
    <3>2. j # i
      BY <1>4, <3>1
    <3>3. Completed(c, j)' /\ HasChunks(c, j)' /\ j \in Successes(c)'
      BY <1>5, <1>8, <3>1, <3>2
    <3> QED
      BY <1>7, <2>1, <3>3 DEF Justified
  <2>2. CASE answer[c] = "no_results"
    <3>1. i \notin Successes(c)
      BY <1>1, <1>4, <2>2 DEF Justified
    <3> QED
      BY <1>1, <1>5, <1>7, <1>8, <1>9, <2>2, <3>1 DEF Justified
  <2>3. CASE answer[c] \notin {"results", "no_results"}
    BY <1>1, <1>7, <1>9, <2>3 DEF Justified, ErrorText
  <2> QED
    BY <2>1, <2>2, <2>3
<1>11. CallInv(c)'
  <2>1. \A j \in Slots, m \in Kinds :
           request'[c][j][m] \in Live /\ exc'[c][j] = NoError => call'[c] = "running"
    BY <1>1, <1>2, <1>3, <1>7, NoErrorAssumption
       DEF CallInv, Live, AllOutcomes, Answered, Errors
  <2>2. \A j \in Slots :
           exc'[c][j] # NoError => \E m \in Kinds : request'[c][j][m] \in Errors
    <3> SUFFICES ASSUME NEW j \in Slots, exc'[c][j] # NoError
                 PROVE  \E m \in Kinds : request'[c][j][m] \in Errors
      OBVIOUS
    <3>1. CASE exc[c][j] = NoError
      BY <1>2, <1>3, <3>1
    <3>2. CASE exc[c][j] # NoError
      <4>1. PICK m \in Kinds : request[c][j][m] \in Errors
        BY <1>1, <3>2 DEF CallInv
      <4>2. request'[c][j][m] = request[c][j][m]
        BY <1>2, <1>4, <4>1 DEF Errors
      <4> QED
        BY <4>1, <4>2
    <3> QED
      BY <3>1, <3>2
  <2>3. \A j \in Slots \ SubQueries(c) :
           exc'[c][j] = NoError /\ \A m \in Kinds : request'[c][j][m] = "absent"
    BY <1>1, <1>2, <1>3, <1>4 DEF CallInv
  <2>4. call[c] # "idle"
    BY <1>1, <1>4 DEF CallInv, SubQueries
  <2> QED
    BY <1>1, <1>7, <2>1, <2>2, <2>3, <2>4 DEF CallInv
<1> QED
  BY <1>3, <1>4, <1>5, <1>6, <1>10, <1>11 DEF Good

(* The steps of a call itself. *)
LEMMA CallStepKeeps ==
    ASSUME IInv, NEW c \in Calls, Good(c)',
           \/ Reject(c)
           \/ \E n \in 1..MaxSubmitted, skipped \in SUBSET Slots : Start(c, n, skipped)
           \/ \E hasDep \in BOOLEAN : Answer(c, hasDep)
           \/ Cancel(c)
           \/ EndCancelled(c)
    PROVE  \A c2 \in Calls : Good(c2)'
<1> SUFFICES ASSUME NEW c2 \in Calls, c2 # c PROVE Good(c2)'
  OBVIOUS
<1>1. /\ call'[c2] = call[c2] /\ queries'[c2] = queries[c2]
      /\ request'[c2] = request[c2] /\ exc'[c2] = exc[c2]
      /\ answer'[c2] = answer[c2]
  BY DEF IInv, TypeOK, Reject, Start, Answer, Cancel, EndCancelled, Finish
<1> QED
  BY <1>1, OthersKeep DEF IInv

LEMMA RejectGood == ASSUME IInv, NEW c \in Calls, Reject(c) PROVE Good(c)'
<1>1. TypeOK /\ CallInv(c)
  BY DEF IInv, Good
<1>2. call'[c] = "done" /\ answer'[c] = "bad_query"
      /\ UNCHANGED <<queries, request, exc>>
  BY <1>1 DEF TypeOK, Reject, Finish
<1>3. SubQueries(c) = {} /\ SubQueries(c)' = {}
  <2>1. call[c] = "idle"
    BY DEF Reject
  <2>2. queries[c] = 0 /\ queries'[c] = 0
    BY <1>1, <1>2, <2>1 DEF CallInv
  <2> QED
    BY <2>2 DEF SubQueries
<1>4. \A i \in Slots, k \in Kinds : request[c][i][k] = "absent"
  BY <1>1, <1>3 DEF CallInv
<1> QED
  BY <1>1, <1>2, <1>3, <1>4 DEF Good, CallInv, Justified, Live

LEMMA StartGood ==
    ASSUME IInv, NEW c \in Calls, NEW n \in 1..MaxSubmitted,
           NEW skipped \in SUBSET Slots, Start(c, n, skipped)
    PROVE  /\ Good(c)'
           /\ queries'[c] \in Slots
           /\ \A i \in SubQueries(c)' : exc'[c][i] = NoError /\ ~Completed(c, i)'
<1>1. TypeOK /\ CallInv(c)
  BY DEF IInv, Good
<1> DEFINE m == IF n > MAX_QUERIES THEN MAX_QUERIES ELSE n
<1>2. m \in Slots
  BY QueriesAssumption DEF Slots
<1>3. call'[c] = "running" /\ queries'[c] = m /\ answer'[c] = "none"
      /\ \A i \in Slots : exc'[c][i] = NoError
  BY <1>1 DEF TypeOK, Start, CallInv
<1>4. \A i \in Slots, k \in Kinds :
         request'[c][i][k] = IF i <= m /\ (k = "main" \/ i \notin skipped)
                             THEN "ready" ELSE "absent"
  <2>1. request'[c] = [i \in Slots |-> [k \in Kinds |->
                        IF i <= m /\ (k = "main" \/ i \notin skipped)
                        THEN "ready" ELSE "absent"]]
    BY <1>1 DEF TypeOK, Start
  <2> HIDE DEF m
  <2> QED
    BY <2>1
<1> HIDE DEF m
<1>5. SubQueries(c)' = 1..m
  BY <1>3 DEF SubQueries
<1>6. \A i \in 1..m : i \in Slots /\ ~Completed(c, i)'
  <2> TAKE i \in 1..m
  <2>1. i \in Slots /\ i <= m
    BY <1>2, QueriesAssumption DEF Slots
  <2>2. "main" \in Kinds
    BY DEF Kinds
  <2>3. request'[c][i]["main"] = "ready"
    BY <1>4, <2>1, <2>2
  <2> QED
    BY <2>1, <2>2, <2>3 DEF Completed, Answered
<1>7. CallInv(c)'
  <2>1. \A i \in Slots \ SubQueries(c)', k \in Kinds : request'[c][i][k] = "absent"
    BY <1>2, <1>4, <1>5 DEF Slots
  <2> QED
    BY <1>2, <1>3, <2>1 DEF CallInv, Slots
<1>8. Justified(c)'
  BY <1>3 DEF Justified
<1> QED
  BY <1>2, <1>3, <1>5, <1>6, <1>7, <1>8 DEF Good

LEMMA AnswerGood ==
    ASSUME IInv, NEW c \in Calls, NEW hasDep \in BOOLEAN, Answer(c, hasDep)
    PROVE  Good(c)'
<1>1. TypeOK /\ CallInv(c)
  BY DEF IInv, Good
<1>2. call'[c] = "done" /\ UNCHANGED <<queries, request, exc>>
  BY <1>1 DEF TypeOK, Answer, Finish
<1>3. /\ SubQueries(c)' = SubQueries(c) /\ Successes(c)' = Successes(c)
      /\ \A i : Completed(c, i)' = Completed(c, i)
      /\ \A i : HasChunks(c, i)' = HasChunks(c, i)
  BY <1>2 DEF SubQueries, Successes, Completed, HasChunks
<1>4. \A i \in SubQueries(c) : exc[c][i] = NoError => Completed(c, i)
  BY DEF Answer, Settled
<1>5. CallInv(c)'
  <2>1. \A i \in Slots, k \in Kinds :
           request[c][i][k] \in Live => exc[c][i] # NoError
    BY <1>1, <1>4 DEF CallInv, Completed, Answered, Live
  <2> QED
    BY <1>1, <1>2, <1>3, <2>1 DEF CallInv
<1>6. answer'[c] = IF Successes(c) = {} THEN ErrorText(exc[c][1])
                   ELSE IF \E i \in Successes(c) : HasChunks(c, i)
                   THEN "results" ELSE "no_results"
  BY <1>1 DEF TypeOK, Answer, Finish
<1>7. ErrorText(exc[c][1]) \notin {"results", "no_results"}
  BY DEF ErrorText
<1>8. \A i \in Successes(c) : Completed(c, i)
  BY <1>4 DEF Successes
<1>9. Justified(c)'
  BY <1>2, <1>3, <1>6, <1>7, <1>8, Zenon DEF Justified, ErrorText
<1> QED
  BY <1>5, <1>9 DEF Good

LEMMA CancelGood ==
    ASSUME IInv, NEW c \in Calls, Cancel(c)
    PROVE  /\ Good(c)'
           /\ \A i \in Slots : /\ Completed(c, i)' = Completed(c, i)
                               /\ Settled(c, i) =>
                                     HasChunks(c, i)' = HasChunks(c, i)
<1>1. TypeOK /\ CallInv(c) /\ Justified(c) /\ call[c] = "running"
  BY DEF IInv, Good, Cancel
<1>2. call'[c] = "cancelling" /\ UNCHANGED <<queries, exc, answer>>
  BY <1>1 DEF TypeOK, Cancel
<1> DEFINE After(i, k) == IF Settled(c, i) THEN request[c][i][k]
                          ELSE IF request[c][i][k] = "flying" THEN "cancelling"
                          ELSE IF request[c][i][k] = "ready" THEN "unsent"
                          ELSE request[c][i][k]
<1>3. \A i \in Slots, k \in Kinds : request'[c][i][k] = After(i, k)
  <2>1. request'[c] = [i \in Slots |-> [k \in Kinds |-> After(i, k)]]
    BY <1>1 DEF TypeOK, Cancel
  <2> HIDE DEF After
  <2> QED
    BY <2>1
<1>4. /\ SubQueries(c)' = SubQueries(c) /\ Successes(c)' = Successes(c)
      /\ SubQueries(c) \subseteq Slots /\ Successes(c) \subseteq Slots
  <2>1. queries[c] \in 0..MAX_QUERIES
    BY <1>1 DEF TypeOK
  <2> QED
    BY <1>2, <2>1, QueriesAssumption DEF SubQueries, Successes, Slots
<1>5. ASSUME NEW i \in Slots
      PROVE  /\ Completed(c, i)' = Completed(c, i)
             /\ Settled(c, i) => HasChunks(c, i)' = HasChunks(c, i)
  <2>1. CASE Settled(c, i)
    <3>1. \A k \in Kinds : request'[c][i][k] = request[c][i][k]
      BY <1>3, <2>1
    <3> QED
      BY <3>1 DEF Completed, HasChunks
  <2>2. CASE ~Settled(c, i)
    <3>1. PICK k \in Kinds : request[c][i][k] \notin Answered \cup {"absent"}
      BY <2>2 DEF Settled, Completed
    <3>2. request'[c][i][k] \notin Answered \cup {"absent"}
      BY <1>3, <3>1 DEF Answered
    <3> QED
      BY <2>2, <3>1, <3>2 DEF Completed
  <2> QED
    BY <2>1, <2>2
<1>6. Justified(c)'
  <2>1. \A i \in Successes(c) : Completed(c, i) => Settled(c, i)
    BY DEF Settled
  <2> QED
    BY <1>1, <1>2, <1>4, <1>5, <2>1 DEF Justified, ErrorText
<1>7. CallInv(c)'
  <2>1. \A i \in Slots, k \in Kinds :
           ~(request'[c][i][k] \in Live /\ exc'[c][i] = NoError)
    <3> SUFFICES ASSUME NEW i \in Slots, NEW k \in Kinds, exc[c][i] = NoError
                 PROVE  request'[c][i][k] \notin Live
      BY <1>2
    <3>1. CASE Completed(c, i)
      BY <1>3, <3>1 DEF Settled, Completed, Answered, Live
    <3>2. CASE ~Completed(c, i)
      BY <1>3, <3>2 DEF Settled, Live
    <3> QED
      BY <3>1, <3>2
  <2>2. \A i \in Slots, k \in Kinds :
           request[c][i][k] \in Errors \cup {"absent"} =>
              request'[c][i][k] = request[c][i][k]
    BY <1>3 DEF Errors
  <2> HIDE DEF After
  <2> QED
    BY <1>1, <1>2, <1>4, <2>1, <2>2 DEF CallInv
<1> QED
  BY <1>5, <1>6, <1>7 DEF Good

LEMMA EndCancelledGood ==
    ASSUME IInv, NEW c \in Calls, EndCancelled(c) PROVE Good(c)'
<1>1. TypeOK /\ CallInv(c) /\ call[c] = "cancelling"
  BY DEF IInv, Good, EndCancelled
<1>2. call'[c] = "done" /\ answer'[c] = "cancelled"
      /\ UNCHANGED <<queries, request, exc>>
  BY <1>1 DEF TypeOK, EndCancelled, Finish
<1>3. CallInv(c)'
  BY <1>1, <1>2 DEF CallInv, SubQueries
<1>4. Justified(c)'
  BY <1>2 DEF Justified
<1> QED
  BY <1>3, <1>4 DEF Good

-----------------------------------------------------------------------------
LEMMA InitIInv == Init => IInv
<1> SUFFICES ASSUME Init, NEW c \in Calls PROVE Good(c)
  BY InitTypeOK DEF IInv
<1>1. CallInv(c)
  BY DEF Init, CallInv, SubQueries, Live
<1>2. Justified(c)
  BY DEF Init, Justified
<1> QED
  BY <1>1, <1>2 DEF Good

LEMMA NextIInv == IInv /\ [Next]_vars => IInv'
<1> SUFFICES ASSUME IInv, [Next]_vars PROVE \A c2 \in Calls : Good(c2)'
  BY NextTypeOK DEF IInv
<1>1. ASSUME NEW c \in Calls, Reject(c) PROVE \A c2 \in Calls : Good(c2)'
  BY <1>1, RejectGood, CallStepKeeps
<1>2. ASSUME NEW c \in Calls, NEW n \in 1..MaxSubmitted,
             NEW skipped \in SUBSET Slots, Start(c, n, skipped)
      PROVE \A c2 \in Calls : Good(c2)'
  BY <1>2, StartGood, CallStepKeeps
<1>3. ASSUME NEW c \in Calls, NEW i \in Slots, NEW k \in Kinds, Send(c, i, k)
      PROVE \A c2 \in Calls : Good(c2)'
  BY <1>3, MovingKeeps DEF Send, Update, Live
<1>4. ASSUME NEW c \in Calls, NEW i \in Slots, NEW k \in Kinds,
             RequestCancelled(c, i, k)
      PROVE \A c2 \in Calls : Good(c2)'
  BY <1>4, MovingKeeps DEF RequestCancelled, Update
<1>5. ASSUME NEW c \in Calls, NEW i \in Slots, NEW k \in Kinds,
             NEW end \in Outcomes, RequestEnds(c, i, k, end)
      PROVE \A c2 \in Calls : Good(c2)'
  BY <1>5, EndingKeeps, OutcomesAssumption
<1>6. ASSUME NEW c \in Calls, NEW hasDep \in BOOLEAN, Answer(c, hasDep)
      PROVE \A c2 \in Calls : Good(c2)'
  BY <1>6, AnswerGood, CallStepKeeps
<1>7. ASSUME NEW c \in Calls, Cancel(c) PROVE \A c2 \in Calls : Good(c2)'
  BY <1>7, CancelGood, CallStepKeeps
<1>8. ASSUME NEW c \in Calls, EndCancelled(c)
      PROVE \A c2 \in Calls : Good(c2)'
  BY <1>8, EndCancelledGood, CallStepKeeps
<1>9. ASSUME UNCHANGED vars PROVE \A c2 \in Calls : Good(c2)'
  BY <1>9, OthersKeep DEF vars, IInv
<1> QED
  BY <1>1, <1>2, <1>3, <1>4, <1>5, <1>6, <1>7, <1>8, <1>9
     DEF Next, Transfer, Resume

LEMMA Invariance == SafeSpec => []IInv
  BY InitIInv, NextIInv, PTL DEF SafeSpec

(* Every variable of the orchestration keeps its type.                     *)
THEOREM TypeCorrect == SafeSpec => []TypeOK
<1>1. IInv => TypeOK
  BY DEF IInv
<1> QED
  BY <1>1, Invariance, PTL

(* A failure is reported only when every query failed, and then the first  *)
(* query's; results are shown exactly when a query that succeeded has      *)
(* some; and abandoned requests that end later do not change that.         *)
THEOREM AnswerCorrect == SafeSpec => []AnswerJustified
<1>1. IInv => AnswerJustified
  BY DEF IInv, Good, Justified, AnswerJustified
<1> QED
  BY <1>1, Invariance, PTL

(* A request outlives its call, uncancelled, only next to a failed sibling. *)
THEOREM NoLeak == SafeSpec => []NoStrayRequests
<1>1. IInv => NoStrayRequests
  <2> SUFFICES ASSUME IInv, NEW c \in Calls, NEW i \in Slots, NEW k \in Kinds,
                      call[c] = "done", request[c][i][k] \in {"ready", "flying"}
               PROVE  /\ exc[c][i] # NoError
                      /\ \E m \in Kinds \ {k} : request[c][i][m] \in Errors
    BY DEF NoStrayRequests
  <2>1. exc[c][i] # NoError
    BY DEF IInv, Good, CallInv, Live
  <2>2. PICK m \in Kinds : request[c][i][m] \in Errors
    BY <2>1 DEF IInv, Good, CallInv
  <2>3. m # k
    BY <2>2 DEF Errors
  <2> QED
    BY <2>1, <2>2, <2>3
<1> QED
  BY <1>1, Invariance, PTL

-----------------------------------------------------------------------------
(* The refinement. *)

Outcome == [c \in Calls |-> [i \in Slots |-> QueryOutcome(c, i)]]

(* What a query came to is read off its own requests. *)
LEMMA OutcomeKeeps ==
    ASSUME NEW c, NEW i, queries'[c] = queries[c], exc'[c][i] = exc[c][i],
           Completed(c, i)' = Completed(c, i),
           Settled(c, i) => HasChunks(c, i)' = HasChunks(c, i)
    PROVE  QueryOutcome(c, i)' = QueryOutcome(c, i)
  BY DEF QueryOutcome, SubQueries, Settled

LEMMA OutcomeType ==
    ASSUME TypeOK, NEW c \in Calls, NEW i \in SubQueries(c), Settled(c, i)
    PROVE  QueryOutcome(c, i) \in {"found", "nothing"} \cup Errors
<1>1. queries[c] \in 0..MAX_QUERIES
  BY DEF TypeOK
<1>2. i \in Slots
  BY <1>1, QueriesAssumption DEF SubQueries, Slots
<1>3. exc[c][i] \in Errors \cup {NoError}
  BY <1>2 DEF TypeOK
<1> QED
  BY <1>3 DEF QueryOutcome

(* The orchestration keeps the promise SearchService states: a query comes *)
(* to one outcome and keeps it, however late its requests end; the call is *)
(* answered once, from the outcomes of all its queries.                    *)
THEOREM Implements == SafeSpec => ServiceSpec
<1>1. Init => Service!Init
  <2> SUFFICES ASSUME Init PROVE Service!Init
    OBVIOUS
  <2>1. \A c \in Calls, i \in Slots : QueryOutcome(c, i) = "unknown"
    BY DEF Init, QueryOutcome, SubQueries
  <2> QED
    BY <2>1 DEF Init, Service!Init, Service!Slots, Slots
<1>2. IInv /\ [Next]_vars => [Service!Next]_(Service!vars)
  <2> SUFFICES ASSUME IInv, [Next]_vars
               PROVE  Service!Next \/ UNCHANGED Service!vars
    OBVIOUS
  <2>1. /\ call \in [Calls -> {"idle", "running", "cancelling", "done"}]
        /\ queries \in [Calls -> 0..MAX_QUERIES]
        /\ answer \in [Calls -> Answers]
        /\ TypeOK
    BY DEF IInv, TypeOK
  <2>2. Service!Slots = Slots
    BY DEF Service!Slots, Slots
  <2>3. ASSUME call' = call, queries' = queries, answer' = answer,
               \A c \in Calls, i \in Slots : QueryOutcome(c, i)' = QueryOutcome(c, i)
        PROVE  UNCHANGED Service!vars
    BY <2>3 DEF Service!vars
  <2>4. ASSUME NEW c \in Calls, Reject(c) PROVE Service!Reject(c)
    <3>1. \A d \in Calls, i \in Slots : QueryOutcome(d, i)' = QueryOutcome(d, i)
      BY <2>4 DEF Reject, QueryOutcome, Settled, Completed, HasChunks, SubQueries
    <3> QED
      BY <2>1, <2>4, <3>1 DEF Reject, Finish, Service!Reject
  <2>5. ASSUME NEW c \in Calls, NEW n \in 1..MaxSubmitted,
               NEW skipped \in SUBSET Slots, Start(c, n, skipped)
        PROVE  \E m \in Slots : Service!Submit(c, m)
    <3>1. /\ call[c] = "idle" /\ queries[c] = 0
          /\ call' = [call EXCEPT ![c] = "running"]
          /\ queries' = [queries EXCEPT ![c] = queries'[c]]
          /\ UNCHANGED <<exc, answer>>
          /\ \A d \in Calls \ {c} : request'[d] = request[d]
      BY <2>1, <2>5 DEF IInv, Good, CallInv, Start, TypeOK
    <3>2. \A d \in Calls, i \in Slots : QueryOutcome(d, i)' = QueryOutcome(d, i)
      <4> TAKE d \in Calls, i \in Slots
      <4>1. CASE d = c
        <5>1. QueryOutcome(c, i) = "unknown"
          BY <3>1 DEF QueryOutcome, SubQueries, Slots
        <5>2. QueryOutcome(c, i)' = "unknown"
          BY <2>5, StartGood DEF QueryOutcome, Settled
        <5> QED
          BY <4>1, <5>1, <5>2
      <4>2. CASE d # c
        <5>1. queries'[d] = queries[d]
          BY <2>1, <3>1, <4>2
        <5> QED
          BY <3>1, <4>2, <5>1
             DEF QueryOutcome, Settled, Completed, HasChunks, SubQueries
      <4> QED
        BY <4>1, <4>2
    <3>3. PICK m \in Slots : m = queries'[c]
      BY <2>5, StartGood
    <3>4. queries' = [queries EXCEPT ![c] = m]
      BY <3>1, <3>3
    <3>5. UNCHANGED Outcome
      BY <3>2 DEF Outcome
    <3>6. Service!Submit(c, m)
      <4> DEFINE State == [d \in Calls |-> CASE call[d] = "idle" -> "idle"
                                            [] call[d] = "done" -> "answered"
                                            [] OTHER -> "searching"]
      <4>1. State[c] = "idle" /\ State' = [State EXCEPT ![c] = "searching"]
        BY <2>1, <3>1
      <4> QED
        BY <3>1, <3>4, <3>5, <4>1 DEF Service!Submit, Outcome
    <3> QED
      BY <3>6
  <2>6. ASSUME NEW c \in Calls, NEW i \in Slots, NEW k \in Kinds,
               Send(c, i, k) \/ RequestCancelled(c, i, k)
        PROVE  UNCHANGED Service!vars
    <3>1. UNCHANGED <<call, queries, exc, answer>>
      BY <2>6 DEF Send, RequestCancelled
    <3>2. \A d \in Calls, j \in Slots : /\ Completed(d, j)' = Completed(d, j)
                                       /\ HasChunks(d, j)' = HasChunks(d, j)
      BY <2>6, MovingKeeps DEF Send, RequestCancelled, Update, Live
    <3>3. \A d \in Calls, j \in Slots : QueryOutcome(d, j)' = QueryOutcome(d, j)
      BY <3>1, <3>2, OutcomeKeeps
    <3> QED
      BY <2>3, <3>1, <3>3
  <2>7. ASSUME NEW c \in Calls, NEW i \in Slots, NEW k \in Kinds,
               NEW end \in Outcomes, RequestEnds(c, i, k, end)
        PROVE  \/ \E verdict \in Service!Verdicts : Service!Decide(c, i, verdict)
               \/ UNCHANGED Service!vars
    <3> DEFINE o == QueryOutcome(c, i)'
    <3>1. call' = call /\ queries' = queries /\ answer' = answer
          /\ end \in AllOutcomes
      BY <2>7, OutcomesAssumption DEF RequestEnds
    <3>2. /\ i \in SubQueries(c) /\ ~Completed(c, i)
          /\ exc'[c][i] = IF end \in Errors /\ exc[c][i] = NoError
                          THEN end ELSE exc[c][i]
          /\ \A d \in Calls, j \in Slots :
                d # c \/ j # i =>
                   /\ exc'[d][j] = exc[d][j]
                   /\ Completed(d, j)' = Completed(d, j)
                   /\ HasChunks(d, j)' = HasChunks(d, j)
      BY <2>7, <3>1, EndingKeeps
    <3>3. \A d \in Calls, j \in Slots :
             d # c \/ j # i => QueryOutcome(d, j)' = QueryOutcome(d, j)
      BY <3>1, <3>2, OutcomeKeeps
    <3>4. i \in SubQueries(c)'
      BY <3>1, <3>2 DEF SubQueries
    <3>5. CASE exc[c][i] # NoError
      <4>1. exc'[c][i] = exc[c][i]
        BY <3>2, <3>5
      <4>2. o = QueryOutcome(c, i)
        BY <3>2, <3>4, <3>5, <4>1 DEF QueryOutcome, Settled
      <4> QED
        BY <2>3, <3>1, <3>3, <4>2
    <3>6. CASE exc[c][i] = NoError
      <4>1. QueryOutcome(c, i) = "unknown"
        BY <3>2, <3>6 DEF QueryOutcome, Settled
      <4>2. o \in {"unknown", "found", "nothing"} \cup Errors
        BY <3>2, <3>4, <3>6 DEF QueryOutcome, Settled
      <4>3. call[c] = "running"
        BY <2>7, <3>6 DEF IInv, Good, CallInv, RequestEnds, Live
      <4>4. CASE o = "unknown"
        BY <2>3, <3>1, <3>3, <4>1, <4>4
      <4>5. CASE o # "unknown"
        <5>1. o \in Service!Verdicts
          BY <4>2, <4>5 DEF Service!Verdicts
        <5> HIDE DEF o
        <5>2. [d \in Calls |-> [j \in Slots |-> QueryOutcome(d, j)']]
                 = [[d \in Calls |-> [j \in Slots |-> QueryOutcome(d, j)]]
                       EXCEPT ![c][i] = o]
          BY <3>3 DEF o
        <5>3. i \in 1..queries[c]
          BY <3>2 DEF SubQueries
        <5>4. Service!Decide(c, i, o)
          BY <2>1, <3>1, <4>1, <4>3, <5>2, <5>3 DEF Service!Decide
        <5> QED
          BY <5>1, <5>4
      <4> QED
        BY <4>4, <4>5
    <3> QED
      BY <3>5, <3>6
  <2>8. ASSUME NEW c \in Calls, NEW hasDep \in BOOLEAN, Answer(c, hasDep)
        PROVE  Service!Answer(c)
    <3> DEFINE seen == [i \in Slots |-> QueryOutcome(c, i)]
    <3>1. /\ call[c] = "running" /\ call' = [call EXCEPT ![c] = "done"]
          /\ \A i \in SubQueries(c) : Settled(c, i)
          /\ UNCHANGED <<queries, request, exc>>
          /\ answer' = [answer EXCEPT ![c] =
                           IF Successes(c) = {} THEN ErrorText(exc[c][1])
                           ELSE IF \E i \in Successes(c) : HasChunks(c, i)
                           THEN "results" ELSE "no_results"]
      BY <2>8 DEF Answer, Finish
    <3>2. \A d \in Calls, i \in Slots : QueryOutcome(d, i)' = QueryOutcome(d, i)
      BY <3>1 DEF QueryOutcome, Settled, Completed, HasChunks, SubQueries
    <3>3. queries[c] \in Nat /\ 1 \in SubQueries(c) /\ SubQueries(c) \subseteq Slots
      <4>1. CallInv(c)
        BY DEF IInv, Good
      <4>2. queries[c] >= 1 /\ queries[c] \in 0..MAX_QUERIES
        BY <2>1, <3>1, <4>1 DEF CallInv
      <4> QED
        BY <4>2, QueriesAssumption DEF SubQueries, Slots
    <3>4. \A i \in SubQueries(c) :
             /\ i \in Slots
             /\ seen[i] = IF exc[c][i] # NoError THEN exc[c][i]
                          ELSE IF HasChunks(c, i) THEN "found" ELSE "nothing"
             /\ exc[c][i] \in Errors \cup {NoError}
      BY <3>1, <3>3 DEF QueryOutcome, IInv, TypeOK
    <3> HIDE DEF seen
    <3>5. \A i \in SubQueries(c) :
             /\ seen[i] # "unknown"
             /\ seen[i] = "found" <=> i \in Successes(c) /\ HasChunks(c, i)
             /\ seen[i] = "nothing" <=> i \in Successes(c) /\ ~HasChunks(c, i)
      BY <3>4 DEF Successes, Errors
    <3>6. Successes(c) \subseteq SubQueries(c)
      BY DEF Successes
    <3>7. Service!Verdict(seen, queries[c]) = answer'[c]
      <4>1. Service!Verdict(seen, queries[c]) =
               IF \E i \in SubQueries(c) : seen[i] = "found" THEN "results"
               ELSE IF \E i \in SubQueries(c) : seen[i] = "nothing" THEN "no_results"
               ELSE ErrorText(seen[1])
        BY DEF Service!Verdict, SubQueries
      <4>2. answer'[c] = IF Successes(c) = {} THEN ErrorText(exc[c][1])
                         ELSE IF \E i \in Successes(c) : HasChunks(c, i)
                         THEN "results" ELSE "no_results"
        BY <2>1, <3>1
      <4>3. CASE Successes(c) = {}
        <5>1. seen[1] = exc[c][1]
          BY <3>3, <3>4, <4>3 DEF Successes
        <5> QED
          BY <3>5, <4>1, <4>2, <4>3, <5>1
      <4>4. CASE Successes(c) # {}
        BY <3>5, <3>6, <4>1, <4>2, <4>4
      <4> QED
        BY <4>3, <4>4
    <3>8. \A i \in 1..queries[c] : seen[i] # "unknown"
      BY <3>5 DEF SubQueries
    <3>9. answer' = [answer EXCEPT ![c] = Service!Verdict(seen, queries[c])]
      BY <2>1, <3>1, <3>7
    <3> QED
      <4>1. [d \in Calls |-> [i \in Slots |-> QueryOutcome(d, i)]][c] = seen
        BY DEF seen
      <4> QED
        <5> DEFINE Phases == [d \in Calls |-> CASE call[d] = "idle" -> "idle"
                                              [] call[d] = "done" -> "answered"
                                              [] OTHER -> "searching"]
                   Seen == [d \in Calls |-> [i \in Slots |-> QueryOutcome(d, i)]]
        <5>1. Phases[c] = "searching" /\ Phases' = [Phases EXCEPT ![c] = "answered"]
          BY <2>1, <3>1
        <5>2. Seen' = Seen
          BY <3>2
        <5>3. Seen[c] = seen
          BY <4>1
        <5> HIDE DEF Phases, Seen
        <5>4. /\ \A i \in 1..queries[c] : Seen[c][i] # "unknown"
              /\ answer' = [answer EXCEPT ![c] = Service!Verdict(Seen[c], queries[c])]
          BY <3>8, <3>9, <5>3
        <5> QED
          BY <3>1, <5>1, <5>2, <5>4 DEF Service!Answer, Phases, Seen
  <2>9. ASSUME NEW c \in Calls, Cancel(c)
        PROVE  UNCHANGED Service!vars
    <3>1. /\ call[c] = "running" /\ call' = [call EXCEPT ![c] = "cancelling"]
          /\ UNCHANGED <<queries, exc, answer>>
      BY <2>9 DEF Cancel
    <3>2. \A d \in Calls, j \in Slots : QueryOutcome(d, j)' = QueryOutcome(d, j)
      <4> TAKE d \in Calls, j \in Slots
      <4>1. CASE d = c
        BY <2>9, <3>1, <4>1, CancelGood, OutcomeKeeps
      <4>2. CASE d # c
        <5>1. request'[d] = request[d]
          BY <2>1, <2>9, <4>2 DEF Cancel, TypeOK
        <5> QED
          BY <3>1, <5>1 DEF QueryOutcome, Settled, Completed, HasChunks, SubQueries
      <4> QED
        BY <4>1, <4>2
    <3> QED
      BY <2>1, <3>1, <3>2 DEF Service!vars
  <2>10. ASSUME NEW c \in Calls, EndCancelled(c)
         PROVE  Service!Abandon(c)
    <3>1. \A d \in Calls, i \in Slots : QueryOutcome(d, i)' = QueryOutcome(d, i)
      BY <2>10 DEF EndCancelled, QueryOutcome, Settled, Completed, HasChunks, SubQueries
    <3> QED
      BY <2>1, <2>10, <3>1 DEF EndCancelled, Finish, Service!Abandon
  <2>11. ASSUME UNCHANGED vars PROVE UNCHANGED Service!vars
    <3>1. \A d \in Calls, i \in Slots : QueryOutcome(d, i)' = QueryOutcome(d, i)
      BY <2>11 DEF vars, QueryOutcome, Settled, Completed, HasChunks, SubQueries
    <3> QED
      BY <2>3, <2>11, <3>1 DEF vars
  <2> QED
    BY <2>2, <2>4, <2>5, <2>6, <2>7, <2>8, <2>9, <2>10, <2>11
       DEF Next, Transfer, Resume, Service!Next
<1> QED
  BY <1>1, <1>2, Invariance, PTL DEF SafeSpec, ServiceSpec, Service!Spec

-----------------------------------------------------------------------------
(* The accounting. *)

Total(m) == m.solr["success"] + m.solr["error"] + m.solr["timeout"]
Begun == {c \in Calls : call[c] # "idle"}
Over == AllOutcomes \cup {"cancelled"}

(* A call without an answer is counted under none; a call that has one is  *)
(* over.                                                                   *)
AccountInv ==
    /\ \A c \in Calls : call[c] # "done" => answer[c] = "none"
    /\ Tally(Total(metrics), RequestsSent)
    /\ Tally(metrics.resultCount, Ending({"results", "no_results"}))
    /\ Tally(metrics.zeroResults, Ending({"no_results"}))
    /\ \E n \in Nat : Tally(n, Ending({"results"})) /\ metrics.deprecation <= n
    /\ Tally(metrics.toolDuration, Ending(Answers \ {"none"}))
    /\ Tally(metrics.toolCalls, Begun)

LEMMA CountersAreNumbers ==
    ASSUME NEW m \in Metrics
    PROVE  /\ m.toolCalls \in Nat /\ m.toolDuration \in Nat /\ m.resultCount \in Nat
           /\ m.zeroResults \in Nat /\ m.deprecation \in Nat /\ Total(m) \in Nat
BY DEF Metrics, Total, Statuses

LEMMA InitAccounts == Init => AccountInv
<1> SUFFICES ASSUME Init PROVE AccountInv
  OBVIOUS
<1>1. /\ RequestsSent = {} /\ Begun = {} /\ Ending({"results", "no_results"}) = {}
      /\ Ending({"no_results"}) = {} /\ Ending({"results"}) = {}
      /\ Ending(Answers \ {"none"}) = {}
  BY DEF Init, RequestsSent, Begun, Ending, AllOutcomes, Answered, Errors
<1>2. /\ Total(metrics) = 0 /\ metrics.resultCount = 0 /\ metrics.zeroResults = 0
      /\ metrics.deprecation = 0 /\ metrics.toolDuration = 0 /\ metrics.toolCalls = 0
  BY DEF Init, Total, Statuses
<1>3. \E n \in Nat : Tally(n, Ending({"results"})) /\ metrics.deprecation <= n
  BY <1>1, <1>2, TallyNothing
<1> QED
  BY <1>1, <1>2, <1>3, TallyNothing DEF AccountInv, Init

(* A step that ends no request and no call keeps what is counted.          *)
LEMMA NothingEnds ==
    ASSUME AccountInv, UNCHANGED answer,
           \A c \in Calls : call'[c] # "done" => call[c] # "done",
           \A c \in Calls, i \in Slots, k \in Kinds :
              request'[c][i][k] \in Over <=> request[c][i][k] \in Over,
           metrics'.solr = metrics.solr, metrics'.resultCount = metrics.resultCount,
           metrics'.zeroResults = metrics.zeroResults,
           metrics'.deprecation = metrics.deprecation,
           metrics'.toolDuration = metrics.toolDuration,
           Tally(metrics.toolCalls, Begun)'
    PROVE  AccountInv'
<1>1. RequestsSent' = RequestsSent
  BY DEF RequestsSent, Over
<1>2. Total(metrics)' = Total(metrics)
  BY DEF Total
<1>3. /\ Ending({"results", "no_results"})' = Ending({"results", "no_results"})
      /\ Ending({"no_results"})' = Ending({"no_results"})
      /\ Ending({"results"})' = Ending({"results"})
      /\ Ending(Answers \ {"none"})' = Ending(Answers \ {"none"})
  BY DEF Ending
<1> QED
  BY <1>1, <1>2, <1>3 DEF AccountInv

(* A request that ends is counted, once, whoever still waits for it.       *)
LEMMA RequestEndCounts ==
    ASSUME IInv, AccountInv, NEW c \in Calls, NEW i \in Slots, NEW k \in Kinds,
           NEW end \in Over, Update(c, i, k, end), request[c][i][k] \notin Over,
           metrics' = Count(end), UNCHANGED <<call, answer>>
    PROVE  AccountInv'
<1>1. TypeOK /\ metrics \in Metrics
  BY DEF IInv, TypeOK
<1>2. RequestsSent' = RequestsSent \cup {<<c, i, k>>} /\ <<c, i, k>> \notin RequestsSent
  <2>1. \A c2 \in Calls, i2 \in Slots, k2 \in Kinds :
           request'[c2][i2][k2] = IF c2 = c /\ i2 = i /\ k2 = k THEN end
                                  ELSE request[c2][i2][k2]
    BY <1>1, OneRequestChanges
  <2>2. \A r \in Calls \X Slots \X Kinds :
           r \in RequestsSent' <=> r \in RequestsSent \/ r = <<c, i, k>>
    BY <2>1 DEF RequestsSent, Over
  <2>3. <<c, i, k>> \in Calls \X Slots \X Kinds /\ <<c, i, k>> \notin RequestsSent
    BY DEF RequestsSent, Over
  <2> QED
    BY <2>2, <2>3 DEF RequestsSent
<1>3. Total(metrics)' = Total(metrics) + 1
  <2>1. Status(end) \in Statuses
    BY DEF Status, Statuses
  <2>2. metrics'.solr = [metrics.solr EXCEPT ![Status(end)] = metrics.solr[Status(end)] + 1]
    BY <1>1 DEF Count, Metrics
  <2> QED
    BY <1>1, <2>1, <2>2 DEF Total, Metrics, Statuses
<1>4. /\ metrics'.resultCount = metrics.resultCount
      /\ metrics'.zeroResults = metrics.zeroResults
      /\ metrics'.deprecation = metrics.deprecation
      /\ metrics'.toolDuration = metrics.toolDuration
      /\ metrics'.toolCalls = metrics.toolCalls
  BY <1>1 DEF Count, Metrics
<1>5. Tally(Total(metrics), RequestsSent)'
  BY <1>2, <1>3, TallyOneMore DEF AccountInv
<1>6. /\ Ending({"results", "no_results"})' = Ending({"results", "no_results"})
      /\ Ending({"no_results"})' = Ending({"no_results"})
      /\ Ending({"results"})' = Ending({"results"})
      /\ Ending(Answers \ {"none"})' = Ending(Answers \ {"none"})
      /\ Begun' = Begun
  BY DEF Ending, Begun
<1> QED
  BY <1>4, <1>5, <1>6 DEF AccountInv

(* A call that ends joins the calls that ended as it did.                  *)
LEMMA EndingGrows ==
    ASSUME TypeOK, NEW c \in Calls, answer[c] = "none", NEW text,
           answer' = [answer EXCEPT ![c] = text], NEW texts, "none" \notin texts
    PROVE  /\ c \notin Ending(texts)
           /\ text \in texts => Ending(texts)' = Ending(texts) \cup {c}
           /\ text \notin texts => Ending(texts)' = Ending(texts)
BY DEF Ending, TypeOK

LEMMA FinishCounts ==
    ASSUME IInv, AccountInv, NEW c \in Calls, call[c] # "done",
           NEW text \in Answers \ {"none"}, NEW counted \in Metrics,
           Finish(c, text, counted), request' = request,
           counted.toolCalls = metrics.toolCalls + (IF call[c] = "idle" THEN 1 ELSE 0),
           counted.toolDuration = metrics.toolDuration, counted.solr = metrics.solr,
           counted.resultCount = metrics.resultCount
              + (IF text \in {"results", "no_results"} THEN 1 ELSE 0),
           counted.zeroResults = metrics.zeroResults + (IF text = "no_results" THEN 1 ELSE 0),
           \/ counted.deprecation = metrics.deprecation
           \/ text = "results" /\ counted.deprecation = metrics.deprecation + 1
    PROVE  AccountInv'
<1>1. TypeOK /\ metrics \in Metrics /\ answer[c] = "none"
  BY DEF IInv, TypeOK, AccountInv
<1>2. answer' = [answer EXCEPT ![c] = text] /\ call' = [call EXCEPT ![c] = "done"]
  BY DEF Finish
<1>3. /\ metrics'.toolCalls = counted.toolCalls
      /\ metrics'.toolDuration = counted.toolDuration + 1
      /\ metrics'.solr = counted.solr
      /\ metrics'.resultCount = counted.resultCount
      /\ metrics'.zeroResults = counted.zeroResults
      /\ metrics'.deprecation = counted.deprecation
  BY DEF Finish, Metrics
<1>5. /\ metrics.toolCalls \in Nat /\ metrics.resultCount \in Nat
      /\ metrics.zeroResults \in Nat /\ metrics.deprecation \in Nat
  BY <1>1, CountersAreNumbers
<1>6. Tally(Total(metrics), RequestsSent)'
  BY <1>3 DEF AccountInv, Total, RequestsSent
<1>7. Tally(metrics.toolDuration, Ending(Answers \ {"none"}))'
  <2> DEFINE texts == Answers \ {"none"}
             ended == Ending(texts)
  <2>1. c \notin ended /\ ended' = ended \cup {c}
    BY <1>1, <1>2, EndingGrows
  <2>2. Tally(metrics.toolDuration, ended)
    BY DEF AccountInv
  <2>3. metrics'.toolDuration = metrics.toolDuration + 1
    BY <1>3
  <2> HIDE DEF ended
  <2>4. Tally(metrics.toolDuration + 1, ended \cup {c})
    BY <2>1, <2>2, TallyOneMore
  <2>5. Tally(metrics.toolDuration, ended)'
    BY <2>1, <2>3, <2>4
  <2> QED
    BY <2>5 DEF ended
<1>8. Tally(metrics.resultCount, Ending({"results", "no_results"}))'
  <2> DEFINE texts == {"results", "no_results"}
  <2>1. /\ c \notin Ending(texts)
        /\ text \in texts => Ending(texts)' = Ending(texts) \cup {c}
        /\ text \notin texts => Ending(texts)' = Ending(texts)
    <3>1. "none" \notin texts
      OBVIOUS
    <3> QED
      BY <1>1, <1>2, <3>1, EndingGrows
  <2>2. Tally(metrics.resultCount, Ending(texts))
    BY DEF AccountInv
  <2>3. CASE text \in texts
    BY <1>3, <2>1, <2>2, <2>3, TallyOneMore
  <2>4. CASE text \notin texts
    BY <1>3, <1>5, <2>1, <2>2, <2>4
  <2> QED
    BY <2>3, <2>4
<1>9. Tally(metrics.zeroResults, Ending({"no_results"}))'
  <2> DEFINE texts == {"no_results"}
  <2>1. /\ c \notin Ending(texts)
        /\ text \in texts => Ending(texts)' = Ending(texts) \cup {c}
        /\ text \notin texts => Ending(texts)' = Ending(texts)
    <3>1. "none" \notin texts
      OBVIOUS
    <3> QED
      BY <1>1, <1>2, <3>1, EndingGrows
  <2>2. Tally(metrics.zeroResults, Ending(texts))
    BY DEF AccountInv
  <2>3. CASE text = "no_results"
    BY <1>3, <2>1, <2>2, <2>3, TallyOneMore
  <2>4. CASE text # "no_results"
    BY <1>3, <1>5, <2>1, <2>2, <2>4
  <2> QED
    BY <2>3, <2>4
<1>10. (\E n \in Nat : Tally(n, Ending({"results"})) /\ metrics.deprecation <= n)'
  <2> DEFINE texts == {"results"}
  <2>1. /\ c \notin Ending(texts)
        /\ text \in texts => Ending(texts)' = Ending(texts) \cup {c}
        /\ text \notin texts => Ending(texts)' = Ending(texts)
    <3>1. "none" \notin texts
      OBVIOUS
    <3> QED
      BY <1>1, <1>2, <3>1, EndingGrows
  <2>2. PICK n \in Nat : Tally(n, Ending(texts)) /\ metrics.deprecation <= n
    BY DEF AccountInv
  <2>3. CASE text = "results"
    <3>1. Tally(n + 1, Ending(texts)')
      BY <2>1, <2>2, <2>3, TallyOneMore
    <3>2. metrics'.deprecation <= n + 1 /\ n + 1 \in Nat
      BY <1>3, <1>5, <2>2
    <3> QED
      BY <3>1, <3>2
  <2>4. CASE text # "results"
    BY <1>3, <2>1, <2>2, <2>4
  <2> QED
    BY <2>3, <2>4
<1>11. Tally(metrics.toolCalls, Begun)'
  <2>1. Tally(metrics.toolCalls, Begun)
    BY DEF AccountInv
  <2>2. CASE call[c] = "idle"
    <3>1. c \notin Begun /\ Begun' = Begun \cup {c}
      BY <1>1, <1>2, <2>2 DEF Begun, TypeOK
    <3> QED
      BY <1>3, <2>1, <2>2, <3>1, TallyOneMore
  <2>3. CASE call[c] # "idle"
    <3>1. Begun' = Begun
      BY <1>1, <1>2, <2>3 DEF Begun, TypeOK
    <3> QED
      BY <1>3, <1>5, <2>1, <2>3, <3>1
  <2> QED
    BY <2>2, <2>3
<1>12. \A d \in Calls : call'[d] # "done" => answer'[d] = "none"
  BY <1>1, <1>2 DEF AccountInv, TypeOK
<1> QED
  BY <1>6, <1>7, <1>8, <1>9, <1>10, <1>11, <1>12 DEF AccountInv

LEMMA AnswerCounts ==
    ASSUME IInv, AccountInv, NEW c \in Calls, NEW hasDep \in BOOLEAN, Answer(c, hasDep)
    PROVE  AccountInv'
<1> DEFINE found == \E i \in Successes(c) : HasChunks(c, i)
           zero == IF found THEN 0 ELSE 1
           dep == IF hasDep THEN 1 ELSE 0
           counted == [metrics EXCEPT !.resultCount = @ + 1, !.zeroResults = @ + zero,
                                      !.deprecation = @ + dep]
<1>1. /\ call[c] = "running" /\ request' = request
      /\ hasDep => \E i \in Successes(c) : request[c][i]["dep"] = "docs"
      /\ IF Successes(c) = {} THEN Finish(c, ErrorText(exc[c][1]), metrics)
         ELSE Finish(c, IF found THEN "results" ELSE "no_results", counted)
  BY Zenon DEF Answer
<1>2. metrics \in Metrics /\ zero \in Nat /\ dep \in Nat
  BY DEF IInv, TypeOK
<1>3. hasDep => found
  BY <1>1 DEF HasChunks, Kinds
<1>4. /\ found => zero = 0
      /\ ~found => zero = 1
      /\ dep = 0 \/ dep = 1
      /\ ~found => dep = 0
  BY <1>3, Zenon
<1>5. metrics.toolCalls \in Nat /\ metrics.resultCount \in Nat
      /\ metrics.zeroResults \in Nat /\ metrics.deprecation \in Nat
  BY <1>2, CountersAreNumbers
<1> HIDE DEF found, zero, dep
<1>6. counted \in Metrics
  BY <1>2, ResultCounted
<1>7. /\ counted.toolCalls = metrics.toolCalls /\ counted.toolDuration = metrics.toolDuration
      /\ counted.solr = metrics.solr /\ counted.resultCount = metrics.resultCount + 1
      /\ counted.zeroResults = metrics.zeroResults + zero
      /\ counted.deprecation = metrics.deprecation + dep
  BY <1>2 DEF Metrics
<1> HIDE DEF counted
<1>8. CASE Successes(c) = {}
  <2>1. ErrorText(exc[c][1]) \in Answers \ {"none", "results", "no_results"}
    BY DEF ErrorText, Answers
  <2>2. Finish(c, ErrorText(exc[c][1]), metrics)
    BY <1>1, <1>8
  <2> QED
    BY <1>1, <1>2, <1>5, <2>1, <2>2, FinishCounts
<1>9. CASE Successes(c) # {} /\ found
  <2>1. Finish(c, "results", counted)
    BY <1>1, <1>9
  <2>2. "results" \in Answers \ {"none"}
    BY DEF Answers
  <2>3. /\ counted.toolCalls = metrics.toolCalls + (IF call[c] = "idle" THEN 1 ELSE 0)
        /\ counted.zeroResults = metrics.zeroResults
        /\ \/ counted.deprecation = metrics.deprecation
           \/ counted.deprecation = metrics.deprecation + 1
    BY <1>1, <1>4, <1>5, <1>7, <1>9
  <2>4. counted.zeroResults
           = metrics.zeroResults + (IF "results" = "no_results" THEN 1 ELSE 0)
    BY <1>5, <2>3
  <2> QED
    BY <1>1, <1>6, <1>7, <2>1, <2>2, <2>3, <2>4, FinishCounts
<1>10. CASE Successes(c) # {} /\ ~found
  <2>1. Finish(c, "no_results", counted)
    BY <1>1, <1>10
  <2>2. "no_results" \in Answers \ {"none"}
    BY DEF Answers
  <2>3. /\ counted.toolCalls = metrics.toolCalls + (IF call[c] = "idle" THEN 1 ELSE 0)
        /\ counted.zeroResults = metrics.zeroResults + 1
        /\ counted.deprecation = metrics.deprecation
    BY <1>1, <1>4, <1>5, <1>7, <1>10
  <2> QED
    BY <1>1, <1>6, <1>7, <2>1, <2>2, <2>3, FinishCounts
<1> QED
  BY <1>8, <1>9, <1>10

LEMMA RejectCounts ==
    ASSUME IInv, AccountInv, NEW c \in Calls, Reject(c)
    PROVE  AccountInv'
<1> DEFINE counted == [metrics EXCEPT !.toolCalls = @ + 1]
<1>1. call[c] = "idle" /\ Finish(c, "bad_query", counted) /\ request' = request
  BY DEF Reject
<1>2. metrics \in Metrics /\ counted \in Metrics
  BY CallCounted DEF IInv, TypeOK
<1>3. /\ counted.toolCalls = metrics.toolCalls + 1
      /\ counted.toolDuration = metrics.toolDuration /\ counted.solr = metrics.solr
      /\ counted.resultCount = metrics.resultCount
      /\ counted.zeroResults = metrics.zeroResults
      /\ counted.deprecation = metrics.deprecation
  BY <1>2 DEF Metrics
<1>4. metrics.resultCount \in Nat /\ metrics.zeroResults \in Nat
  BY <1>2, CountersAreNumbers
<1>5. "bad_query" \in Answers \ {"none"}
  BY DEF Answers
<1> HIDE DEF counted
<1> QED
  BY <1>1, <1>2, <1>3, <1>4, <1>5, FinishCounts

LEMMA EndCancelledCounts ==
    ASSUME IInv, AccountInv, NEW c \in Calls, EndCancelled(c)
    PROVE  AccountInv'
<1>1. call[c] = "cancelling" /\ Finish(c, "cancelled", metrics) /\ request' = request
  BY DEF EndCancelled
<1>2. metrics \in Metrics
  BY DEF IInv, TypeOK
<1>3. metrics.toolCalls \in Nat /\ metrics.resultCount \in Nat /\ metrics.zeroResults \in Nat
  BY <1>2, CountersAreNumbers
<1>4. "cancelled" \in Answers \ {"none"}
  BY DEF Answers
<1> QED
  BY <1>1, <1>2, <1>3, <1>4, FinishCounts

(* A call starts with requests that have not been sent.                    *)
LEMMA StartCounts ==
    ASSUME IInv, AccountInv, NEW c \in Calls, NEW n \in 1..MaxSubmitted,
           NEW skipped \in SUBSET Slots, Start(c, n, skipped)
    PROVE  AccountInv'
<1>1. TypeOK /\ metrics \in Metrics /\ CallInv(c)
  BY DEF IInv, TypeOK, Good
<1>2. /\ call[c] = "idle" /\ call' = [call EXCEPT ![c] = "running"]
      /\ metrics' = [metrics EXCEPT !.toolCalls = @ + 1] /\ answer' = answer
  BY DEF Start
<1>3. /\ metrics'.toolCalls = metrics.toolCalls + 1 /\ metrics'.solr = metrics.solr
      /\ metrics'.resultCount = metrics.resultCount
      /\ metrics'.zeroResults = metrics.zeroResults
      /\ metrics'.deprecation = metrics.deprecation
      /\ metrics'.toolDuration = metrics.toolDuration
  BY <1>1, <1>2 DEF Metrics
<1>4. \A i \in Slots, k \in Kinds : request[c][i][k] = "absent"
  <2>1. Slots \ SubQueries(c) = Slots
    BY <1>1, <1>2 DEF CallInv, SubQueries, Slots
  <2> QED
    BY <1>1, <2>1 DEF CallInv
<1>5. \A d \in Calls, i \in Slots, k \in Kinds :
         IF d = c THEN request'[d][i][k] \in {"ready", "absent"}
         ELSE request'[d][i][k] = request[d][i][k]
  BY <1>1 DEF Start, TypeOK
<1>6. \A d \in Calls, i \in Slots, k \in Kinds :
         request'[d][i][k] \in Over <=> request[d][i][k] \in Over
  BY <1>4, <1>5 DEF Over, AllOutcomes, Answered, Errors
<1>7. Tally(metrics.toolCalls, Begun)'
  <2>1. c \notin Begun /\ Begun' = Begun \cup {c}
    BY <1>1, <1>2 DEF Begun, TypeOK
  <2>2. Tally(metrics.toolCalls + 1, Begun \cup {c})
    BY <2>1, TallyOneMore DEF AccountInv
  <2> QED
    BY <1>3, <2>1, <2>2
<1>8. \A d \in Calls : call'[d] # "done" => call[d] # "done"
  BY <1>1, <1>2 DEF TypeOK
<1> QED
  BY <1>2, <1>3, <1>6, <1>7, <1>8, NothingEnds

LEMMA CancelCounts ==
    ASSUME IInv, AccountInv, NEW c \in Calls, Cancel(c)
    PROVE  AccountInv'
<1>1. TypeOK
  BY DEF IInv
<1>2. /\ call[c] = "running" /\ call' = [call EXCEPT ![c] = "cancelling"]
      /\ answer' = answer /\ metrics' = metrics
  BY DEF Cancel
<1>3. \A d \in Calls, i \in Slots, k \in Kinds :
         \/ request'[d][i][k] = request[d][i][k]
         \/ request'[d][i][k] = "cancelling" /\ request[d][i][k] = "flying"
         \/ request'[d][i][k] = "unsent" /\ request[d][i][k] = "ready"
  BY <1>1 DEF Cancel, TypeOK
<1>4. \A d \in Calls, i \in Slots, k \in Kinds :
         request'[d][i][k] \in Over <=> request[d][i][k] \in Over
  BY <1>3 DEF Over, AllOutcomes, Answered, Errors
<1>5. Begun' = Begun /\ \A d \in Calls : call'[d] # "done" => call[d] # "done"
  BY <1>1, <1>2 DEF Begun, TypeOK
<1>6. Tally(metrics.toolCalls, Begun)'
  BY <1>2, <1>5 DEF AccountInv
<1> QED
  BY <1>2, <1>4, <1>5, <1>6, NothingEnds

LEMMA SendCounts ==
    ASSUME IInv, AccountInv, NEW c \in Calls, NEW i \in Slots, NEW k \in Kinds,
           Send(c, i, k)
    PROVE  AccountInv'
<1>1. /\ request[c][i][k] = "ready" /\ Update(c, i, k, "flying")
      /\ UNCHANGED <<call, answer, metrics>>
  BY DEF Send, Update
<1>2. \A d \in Calls, j \in Slots, m \in Kinds :
         request'[d][j][m] = IF d = c /\ j = i /\ m = k THEN "flying"
                             ELSE request[d][j][m]
  <2>1. TypeOK
    BY DEF IInv
  <2> TAKE d \in Calls, j \in Slots, m \in Kinds
  <2> QED
    BY <1>1, <2>1, OneRequestChanges
<1>3. \A d \in Calls, j \in Slots, m \in Kinds :
         request'[d][j][m] \in Over <=> request[d][j][m] \in Over
  BY <1>1, <1>2 DEF Over, AllOutcomes, Answered, Errors
<1>4. Tally(metrics.toolCalls, Begun)'
  BY <1>1 DEF AccountInv, Begun
<1> QED
  BY <1>1, <1>3, <1>4, NothingEnds

LEMMA NextAccounts == IInv /\ AccountInv /\ [Next]_vars => AccountInv'
<1> SUFFICES ASSUME IInv, AccountInv, [Next]_vars PROVE AccountInv'
  OBVIOUS
<1>1. ASSUME NEW c \in Calls, NEW i \in Slots, NEW k \in Kinds, RequestCancelled(c, i, k)
      PROVE  AccountInv'
  BY <1>1, RequestEndCounts
     DEF RequestCancelled, Update, Over, AllOutcomes, Answered, Errors
<1>2. ASSUME NEW c \in Calls, NEW i \in Slots, NEW k \in Kinds,
             NEW end \in Outcomes, RequestEnds(c, i, k, end)
      PROVE  AccountInv'
  <2>1. end \in Over /\ "flying" \notin Over
    BY OutcomesAssumption DEF Over, AllOutcomes, Answered, Errors
  <2> QED
    BY <1>2, <2>1, RequestEndCounts DEF RequestEnds, Update
<1>3. ASSUME UNCHANGED vars PROVE AccountInv'
  BY <1>3 DEF vars, AccountInv, Total, RequestsSent, Ending, Begun
<1> QED
  BY <1>1, <1>2, <1>3, RejectCounts, StartCounts, SendCounts, AnswerCounts, CancelCounts,
     EndCancelledCounts DEF Next, Transfer, Resume

LEMMA Accounts == SafeSpec => []AccountInv
  BY InitIInv, NextIInv, InitAccounts, NextAccounts, PTL DEF SafeSpec

(* Every request that was sent is counted under one status as it ends, the *)
(* abandoned and the cancelled ones included (the finally clause of        *)
(* _solr_query).                                                           *)
THEOREM RequestsCounted == SafeSpec => []SolrAccounted
<1>1. AccountInv => SolrAccounted
  BY DEF AccountInv, SolrAccounted, Total, Tally
<1> QED
  BY <1>1, Accounts, PTL

(* The quality metrics observe each search that got a result once and no   *)
(* failed or cancelled one; the durations are those of the calls that      *)
(* ended (search_portal).                                                  *)
THEOREM SearchesCounted == SafeSpec => []SearchesAccounted
<1>1. AccountInv => SearchesAccounted
  BY DEF AccountInv, SearchesAccounted, Tally, Begun
<1> QED
  BY <1>1, Accounts, PTL
=============================================================================
