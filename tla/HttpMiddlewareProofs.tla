------------------------ MODULE HttpMiddlewareProofs --------------------------
(***************************************************************************)
(* The identifiers of HttpMiddleware for any set of requests and of        *)
(* identifiers that clients send: a request's task runs under its own, its *)
(* message too if sessions are stateless, and an answer names the one its  *)
(* handler logged under.                                                   *)
(***************************************************************************)
EXTENDS HttpMiddleware, FiniteSetTheorems, TLAPS

(* The variables of a request: its own identifier is set while it is open  *)
(* and only then, and the scope's state has one as soon as it was received. *)
RequestInv(r) ==
    /\ var[<<r, "request">>] = IF phase[r] = "open" THEN default_request_id(r) ELSE None
    /\ token[<<r, "request">>] = IF phase[r] = "open" THEN {None} ELSE {}
    /\ phase[r] = "new" => start[r] = None /\ message[r] = "none"
    /\ phase[r] # "new" => state[r] \in Ids
    /\ opened[r] \subseteq Ids

(* Those of its message: it runs under an identifier, which is in the      *)
(* state from the moment it is handled on.                                 *)
MessageInv(r) ==
    /\ message[r] \in {"none", "waiting"} => logged[r] = None
    /\ message[r] \in {"waiting", "handling"} => var[<<r, "message">>] \in Ids
    /\ message[r] = "handling" => state[r] = var[<<r, "message">>]
    /\ logged[r] # None => state[r] = logged[r]
    /\ start[r] # None /\ start[r].logged # None => start[r].id = start[r].logged

(* In stateless sessions there is only one identifier to run under.        *)
StatelessInv(r) ==
    Stateless =>
        /\ phase[r] # "new" => state[r] = default_request_id(r)
        /\ message[r] \in {"waiting", "handling"}
              => var[<<r, "message">>] = default_request_id(r)
        /\ start[r] # None => start[r].id = default_request_id(r)

Fine(r) == RequestInv(r) /\ MessageInv(r) /\ StatelessInv(r)

IInv == TypeOK /\ (Instrumented => \A r \in Requests : Fine(r))

-----------------------------------------------------------------------------
LEMMA TaskTypes ==
    ASSUME NEW r \in Requests
    PROVE  <<r, "request">> \in Tasks /\ <<r, "message">> \in Tasks
BY DEF Tasks

LEMMA DefaultTypes ==
    ASSUME TypeOK, NEW r \in Requests
    PROVE  default_request_id(r) \in Ids /\ default_request_id(r) # None
BY IdsAssumption DEF TypeOK, default_request_id, Ids

(* A step of one request and its message leaves the others alone.          *)
LEMMA OthersKeep ==
    ASSUME IInv, Instrumented, NEW r \in Requests, NEW q \in Requests, q # r,
           UNCHANGED settings,
           phase'[q] = phase[q], given'[q] = given[q], state'[q] = state[q],
           opened'[q] = opened[q], message'[q] = message[q], logged'[q] = logged[q],
           start'[q] = start[q],
           \A kind \in {"request", "message"} :
              var'[<<q, kind>>] = var[<<q, kind>>] /\ token'[<<q, kind>>] = token[<<q, kind>>]
    PROVE  Fine(q)'
<1>1. Fine(q)
  BY DEF IInv
<1> QED
  BY <1>1 DEF Fine, RequestInv, MessageInv, StatelessInv, default_request_id, Stateless,
              settings

LEMMA SetTypes ==
    ASSUME TypeOK, NEW t \in Tasks, NEW id \in Ids \cup {None}, set_request_id(t, id)
    PROVE  /\ var' \in [Tasks -> Ids \cup {None}]
           /\ token' \in [Tasks -> SUBSET (Ids \cup {None})]
           /\ var'[t] = id /\ token'[t] = {var[t]}
           /\ \A u \in Tasks \ {t} : var'[u] = var[u] /\ token'[u] = token[u]
BY DEF TypeOK, set_request_id, get_request_id, Slot

LEMMA ResetTypes ==
    ASSUME TypeOK, NEW t \in Tasks, reset_request_id(t)
    PROVE  /\ var' \in [Tasks -> Ids \cup {None}]
           /\ token' \in [Tasks -> SUBSET (Ids \cup {None})]
           /\ token'[t] = {}
           /\ \A id : token[t] = {id} => var'[t] = id
           /\ token[t] = {} => var'[t] = var[t]
           /\ \A u \in Tasks \ {t} : var'[u] = var[u] /\ token'[u] = token[u]
<1> DEFINE back == IF token[t] = {} THEN var[t] ELSE CHOOSE id \in token[t] : TRUE
<1>1. token[t] \subseteq Ids \cup {None} /\ var[t] \in Ids \cup {None}
  BY DEF TypeOK
<1>2. back \in Ids \cup {None}
  BY <1>1
<1>3. /\ token' = [token EXCEPT ![t] = {}]
      /\ var' = [var EXCEPT ![t] = back]
  BY DEF reset_request_id, Slot, TypeOK
<1>4. \A id : token[t] = {id} => back = id
  OBVIOUS
<1>5. token[t] = {} => back = var[t]
  OBVIOUS
<1> HIDE DEF back
<1> QED
  BY <1>2, <1>3, <1>4, <1>5 DEF TypeOK

LEMMA CountTypes ==
    ASSUME TypeOK, NEW r \in Requests, NEW status \in Statuses
    PROVE  emit_metrics(r, status) \in [Statuses -> Nat]
BY DEF TypeOK, emit_metrics

-----------------------------------------------------------------------------
LEMMA Initial == Init => IInv
<1> SUFFICES ASSUME Init PROVE IInv
  OBVIOUS
<1>1. TypeOK
  BY StatusesAssumption DEF Init, TypeOK
<1>2. \A r \in Requests : Fine(r)
  <2> TAKE r \in Requests
  <2> QED
    BY TaskTypes DEF Init, Fine, RequestInv, MessageInv, StatelessInv
<1> QED
  BY <1>1, <1>2 DEF IInv

LEMMA ReceiveKeeps ==
    ASSUME IInv, NEW r \in Requests, NEW header \in ClientIds \cup {None},
           Receive(r, header)
    PROVE  IInv'
<1> DEFINE t == <<r, "request">>
<1>1. TypeOK /\ t \in Tasks
  BY TaskTypes DEF IInv
<1>2. /\ phase[r] = "new" /\ phase' = [phase EXCEPT ![r] = "open"]
      /\ given' = [given EXCEPT ![r] = header]
      /\ UNCHANGED <<settings, messages, counted, answered>>
  BY DEF Receive
<1>3. default_request_id(r)' \in Ids /\ default_request_id(r)' # None
  BY <1>1, <1>2, IdsAssumption DEF TypeOK, default_request_id, Ids
<1>4. phase' \in [Requests -> {"new", "open", "closed"}]
      /\ given' \in [Requests -> ClientIds \cup {None}]
  BY <1>1, <1>2 DEF TypeOK
<1>5. CASE ~Instrumented
  <2>1. UNCHANGED <<contexts, state>>
    BY <1>5 DEF Receive
  <2> QED
    BY <1>1, <1>2, <1>4, <1>5, <2>1
    DEF IInv, TypeOK, Instrumented, settings, contexts, messages, counted, answered
<1>6. CASE Instrumented
  <2> DEFINE id == default_request_id(r)'
  <2>1. set_request_id(t, id) /\ state' = [state EXCEPT ![r] = id]
    BY <1>6 DEF Receive
  <2> HIDE DEF id, t
  <2>2. /\ var' \in [Tasks -> Ids \cup {None}]
        /\ token' \in [Tasks -> SUBSET (Ids \cup {None})]
        /\ var'[t] = id /\ token'[t] = {var[t]}
        /\ \A u \in Tasks \ {t} : var'[u] = var[u] /\ token'[u] = token[u]
    BY <1>1, <1>3, <2>1, SetTypes DEF id
  <2>3. TypeOK'
    BY <1>1, <1>2, <1>3, <1>4, <2>1, <2>2
    DEF TypeOK, settings, messages, counted, answered, id
  <2>4. Fine(r)
    BY <1>6 DEF IInv
  <2>5. phase'[r] = "open" /\ state'[r] = id /\ id \in Ids
    BY <1>1, <1>2, <1>3, <2>1 DEF TypeOK, id
  <2>6. Fine(r)'
    BY <1>2, <2>2, <2>4, <2>5
    DEF Fine, RequestInv, MessageInv, StatelessInv, messages, answered, id, t
  <2>7. \A q \in Requests \ {r} : Fine(q)'
    BY <1>1, <1>2, <1>6, <2>1, <2>2, OthersKeep, TaskTypes DEF messages, answered, t, TypeOK
  <2> QED
    BY <2>3, <2>6, <2>7 DEF IInv
<1> QED
  BY <1>5, <1>6

LEMMA ResponseIdFine ==
    ASSUME IInv, Instrumented, NEW r \in Requests, phase[r] = "open"
    PROVE  ResponseId(r) = state[r] /\ state[r] \in Ids
BY IdsAssumption DEF IInv, Fine, RequestInv, ResponseId

LEMMA ResponseIdTypes ==
    ASSUME TypeOK, NEW r \in Requests
    PROVE  ResponseId(r) \in Ids \cup {None}
BY TaskTypes, DefaultTypes DEF TypeOK, ResponseId, get_request_id, Slot

LEMMA SendStartKeeps ==
    ASSUME IInv, NEW r \in Requests, NEW status \in Statuses, NEW delivered \in BOOLEAN,
           SendStart(r, status, delivered)
    PROVE  IInv'
<1> DEFINE answer == [status |-> status, id |-> ResponseId(r), logged |-> logged[r]]
<1>1. /\ phase[r] = "open"
      /\ start' = IF start[r] # None THEN start ELSE [start EXCEPT ![r] = answer]
      /\ seen' = IF start[r] = None /\ delivered THEN [seen EXCEPT ![r] = status] ELSE seen
      /\ UNCHANGED <<settings, phase, given, contexts, state, messages>>
  BY DEF SendStart
<1>2. answer \in Start
  BY ResponseIdTypes DEF Start, IInv, TypeOK
<1>3. /\ start' \in [Requests -> Start \cup {None}]
      /\ seen' \in [Requests -> Statuses \cup {None}]
  BY <1>1, <1>2 DEF IInv, TypeOK
<1>4. /\ status_code' \in [Requests -> Statuses] /\ recorded' \in [Requests -> BOOLEAN]
      /\ HTTP_REQUESTS' \in [Statuses -> Nat]
  <2>1. CASE Instrumented
    <3>1. /\ status_code' = [status_code EXCEPT ![r] = status]
          /\ recorded' = [recorded EXCEPT ![r] = TRUE]
          /\ HTTP_REQUESTS' = emit_metrics(r, status)
      BY <2>1 DEF SendStart
    <3>2. emit_metrics(r, status) \in [Statuses -> Nat]
      BY CountTypes DEF IInv
    <3> QED
      BY <3>1, <3>2 DEF IInv, TypeOK
  <2>2. CASE ~Instrumented
    BY <2>2 DEF SendStart, counted, IInv, TypeOK
  <2> QED
    BY <2>1, <2>2
<1>5. TypeOK'
  BY <1>1, <1>3, <1>4 DEF IInv, TypeOK, settings, contexts, messages
<1>6. CASE Instrumented
  <2>1. Fine(r)
    BY <1>6 DEF IInv
  <2>2. answer.id = state[r] /\ answer.logged = logged[r]
    BY <1>1, <1>6, ResponseIdFine
  <2>3. start'[r] = IF start[r] # None THEN start[r] ELSE answer
    BY <1>1 DEF IInv, TypeOK
  <2> HIDE DEF answer
  <2>4. Fine(r)'
    BY <1>1, <2>1, <2>2, <2>3
    DEF Fine, RequestInv, MessageInv, StatelessInv, default_request_id, Stateless, settings,
        contexts, messages
  <2>5. \A q \in Requests \ {r} : Fine(q)'
    BY <1>1, <1>6, OthersKeep DEF settings, contexts, messages, IInv, TypeOK
  <2> QED
    BY <1>5, <2>4, <2>5 DEF IInv
<1>7. CASE ~Instrumented
  BY <1>1, <1>5, <1>7 DEF IInv, Instrumented, settings
<1> QED
  BY <1>6, <1>7

LEMMA EndKeeps ==
    ASSUME IInv, NEW r \in Requests, NEW how, NEW delivered \in BOOLEAN,
           End(r, how, delivered)
    PROVE  IInv'
<1> DEFINE t == <<r, "request">>
<1>1. /\ phase[r] = "open" /\ phase' = [phase EXCEPT ![r] = "closed"]
      /\ UNCHANGED <<settings, given, state, messages, recorded, status_code, start>>
  BY DEF End
<1>2. TypeOK /\ t \in Tasks
  BY TaskTypes DEF IInv
<1>3. seen' \in [Requests -> Statuses \cup {None}]
  BY <1>2, StatusesAssumption DEF End, TypeOK
<1>4. HTTP_REQUESTS' \in [Statuses -> Nat]
  <2>1. status_code[r] \in Statuses
    BY <1>2 DEF TypeOK
  <2> QED
    BY <1>2, <2>1, CountTypes DEF End, TypeOK
<1>5. CASE ~Instrumented
  <2>1. UNCHANGED contexts
    BY <1>5 DEF End
  <2> QED
    BY <1>1, <1>2, <1>3, <1>4, <1>5, <2>1
    DEF IInv, TypeOK, Instrumented, settings, contexts, messages
<1>6. CASE Instrumented
  <2>1. reset_request_id(t)
    BY <1>6 DEF End
  <2> HIDE DEF t
  <2>2. /\ var' \in [Tasks -> Ids \cup {None}]
        /\ token' \in [Tasks -> SUBSET (Ids \cup {None})]
        /\ token'[t] = {} /\ (token[t] = {None} => var'[t] = None)
        /\ \A u \in Tasks \ {t} : var'[u] = var[u] /\ token'[u] = token[u]
    BY <1>2, <2>1, ResetTypes
  <2>3. phase'[r] = "closed" /\ phase' \in [Requests -> {"new", "open", "closed"}]
    BY <1>1, <1>2 DEF TypeOK
  <2>4. TypeOK'
    BY <1>1, <1>2, <1>3, <1>4, <2>2, <2>3 DEF TypeOK, settings, messages
  <2>5. Fine(r)
    BY <1>6 DEF IInv
  <2>6. <<r, "message">> \in Tasks \ {t}
    BY TaskTypes DEF t
  <2>7. RequestInv(r)'
    BY <1>1, <2>2, <2>5, <2>3 DEF Fine, RequestInv, messages, t
  <2>8. MessageInv(r)' /\ StatelessInv(r)'
    BY <1>1, <2>2, <2>5, <2>6
    DEF Fine, MessageInv, StatelessInv, messages, settings, Stateless, default_request_id
  <2>9. \A q \in Requests \ {r} : Fine(q)'
    BY <1>1, <1>2, <1>6, <2>2, OthersKeep, TaskTypes DEF messages, t, TypeOK
  <2> QED
    BY <2>4, <2>7, <2>8, <2>9 DEF IInv, Fine
<1> QED
  BY <1>5, <1>6

-----------------------------------------------------------------------------
LEMMA OpenSessionKeeps ==
    ASSUME IInv, NEW r \in Requests, OpenSession(r)
    PROVE  IInv'
<1>1. /\ phase[r] = "open" /\ opened' = [opened EXCEPT ![r] = {var[<<r, "request">>]}]
      /\ UNCHANGED <<settings, phase, given, contexts, state, message, logged, counted,
                     answered>>
  BY DEF OpenSession, get_request_id, Slot
<1>2. TypeOK'
  <2>1. var[<<r, "request">>] \in Ids \cup {None}
    BY TaskTypes DEF IInv, TypeOK
  <2>2. opened' \in [Requests -> SUBSET (Ids \cup {None})]
    BY <1>1, <2>1 DEF IInv, TypeOK
  <2> QED
    BY <1>1, <2>2 DEF IInv, TypeOK, settings, contexts, counted, answered
<1>3. CASE Instrumented
  <2>1. Fine(r) /\ default_request_id(r) \in Ids
    BY <1>3, DefaultTypes DEF IInv
  <2>2. opened'[r] \subseteq Ids
    BY <1>1, <2>1 DEF Fine, RequestInv, IInv, TypeOK
  <2>3. Fine(r)'
    BY <1>1, <2>1, <2>2
    DEF Fine, RequestInv, MessageInv, StatelessInv, default_request_id, Stateless, settings,
        contexts, answered
  <2>4. \A q \in Requests \ {r} : Fine(q)'
    BY <1>1, <1>3, OthersKeep DEF settings, contexts, answered, IInv, TypeOK
  <2> QED
    BY <1>2, <2>3, <2>4 DEF IInv
<1>4. CASE ~Instrumented
  BY <1>1, <1>2, <1>4 DEF IInv, Instrumented, settings
<1> QED
  BY <1>3, <1>4

LEMMA DeliverKeeps ==
    ASSUME IInv, NEW r \in Requests, NEW s \in Requests, Deliver(r, s)
    PROVE  IInv'
<1> DEFINE t == <<r, "message">>
<1>1. /\ message[r] = "none" /\ message' = [message EXCEPT ![r] = "waiting"]
      /\ UNCHANGED <<settings, phase, given, token, state, opened, logged, counted, answered>>
  BY DEF Deliver
<1>2. TypeOK /\ t \in Tasks /\ <<r, "request">> \in Tasks
  BY TaskTypes DEF IInv
<1>3. var' = var \/ \E id \in Ids \cup {None} : var' = [var EXCEPT ![t] = id]
  BY <1>2 DEF Deliver, TypeOK, get_request_id, Slot
<1>4. TypeOK'
  BY <1>1, <1>2, <1>3 DEF TypeOK, settings, counted, answered
<1>5. CASE Instrumented
  <2>1. Fine(r) /\ Fine(s) /\ default_request_id(r) \in Ids
    BY <1>5, DefaultTypes DEF IInv
  <2>2. phase[r] = "open" /\ transport # "stdio"
    BY <1>5 DEF Deliver, Instrumented
  <2>3. \E id \in Ids : /\ var' = [var EXCEPT ![t] = id]
                        /\ Stateless => id = default_request_id(r)
    <3>1. CASE Stateless
      <4>1. var' = [var EXCEPT ![t] = default_request_id(r)]
        BY <2>1, <2>2, <3>1 DEF Deliver, get_request_id, Slot, Fine, RequestInv
      <4> QED
        BY <2>1, <4>1
    <3>2. CASE ~Stateless
      <4>1. PICK id \in opened[s] : var' = [var EXCEPT ![t] = id]
        BY <2>2, <3>2 DEF Deliver, Slot
      <4> QED
        BY <2>1, <3>2, <4>1 DEF Fine, RequestInv
    <3> QED
      BY <3>1, <3>2
  <2>4. PICK id \in Ids : /\ var' = [var EXCEPT ![t] = id]
                          /\ Stateless => id = default_request_id(r)
    BY <2>3
  <2>5. /\ var'[t] = id /\ message'[r] = "waiting"
        /\ \A u \in Tasks \ {t} : var'[u] = var[u]
    BY <1>1, <1>2, <2>4 DEF TypeOK
  <2>6. <<r, "request">> \in Tasks \ {t}
    BY TaskTypes
  <2> HIDE DEF t
  <2>7. RequestInv(r)'
    BY <1>1, <2>1, <2>2, <2>5, <2>6
    DEF Fine, RequestInv, default_request_id, settings, answered
  <2>8. MessageInv(r)' /\ StatelessInv(r)'
    BY <1>1, <2>1, <2>4, <2>5
    DEF Fine, MessageInv, StatelessInv, default_request_id, Stateless, settings, answered, t
  <2>9. \A q \in Requests \ {r} : Fine(q)'
    BY <1>1, <1>2, <1>5, <2>5, OthersKeep, TaskTypes DEF settings, answered, TypeOK, t
  <2> QED
    BY <1>4, <2>7, <2>8, <2>9 DEF IInv, Fine
<1>6. CASE ~Instrumented
  BY <1>1, <1>4, <1>6 DEF IInv, Instrumented, settings
<1> QED
  BY <1>5, <1>6

LEMMA ResolveTypes ==
    ASSUME TypeOK, NEW r \in Requests, NEW hasContext
    PROVE  resolve_request_id(r, hasContext) \in Ids \cup {None}
BY TaskTypes DEF TypeOK, resolve_request_id, get_request_id, Slot, Ids

LEMMA OnMessageKeeps ==
    ASSUME IInv, NEW r \in Requests, NEW hasContext \in BOOLEAN, OnMessage(r, hasContext)
    PROVE  IInv'
<1> DEFINE t == <<r, "message">>
           id == resolve_request_id(r, hasContext)
<1>1. /\ message[r] = "waiting" /\ message' = [message EXCEPT ![r] = "handling"]
      /\ UNCHANGED <<settings, phase, given, opened, logged, counted, answered>>
  BY DEF OnMessage
<1>2. IF id = None THEN UNCHANGED contexts ELSE set_request_id(t, id)
  BY DEF OnMessage
<1>3. state' = IF id = None \/ transport = "stdio" THEN state ELSE [state EXCEPT ![r] = id]
  BY DEF OnMessage, store_request_id
<1>4. TypeOK /\ t \in Tasks /\ id \in Ids \cup {None}
  BY TaskTypes, ResolveTypes DEF IInv
<1> HIDE DEF id
<1>5. /\ var' \in [Tasks -> Ids \cup {None}]
      /\ token' \in [Tasks -> SUBSET (Ids \cup {None})]
  <2>1. CASE id = None
    BY <1>2, <1>4, <2>1 DEF TypeOK, contexts
  <2>2. CASE id # None
    BY <1>2, <1>4, <2>2, SetTypes
  <2> QED
    BY <2>1, <2>2
<1>6. state' \in [Requests -> Ids \cup {None}]
      /\ message' \in [Requests -> {"none", "waiting", "handling", "done"}]
  BY <1>1, <1>3, <1>4 DEF TypeOK
<1>7. TypeOK'
  BY <1>1, <1>4, <1>5, <1>6 DEF TypeOK, settings, counted, answered
<1>8. CASE Instrumented
  <2>1. Fine(r)
    BY <1>8 DEF IInv
  <2>2. id = var[t] /\ id \in Ids /\ id # None
    BY <1>1, <2>1, IdsAssumption
    DEF id, resolve_request_id, get_request_id, Slot, Fine, MessageInv
  <2>3. transport # "stdio"
    BY <1>8 DEF Instrumented
  <2> HIDE DEF t
  <2>4. /\ var'[t] = id
        /\ \A u \in Tasks \ {t} : var'[u] = var[u] /\ token'[u] = token[u]
    BY <1>2, <1>4, <2>2, SetTypes
  <2>5. /\ state' = [state EXCEPT ![r] = id] /\ state'[r] = id
        /\ message'[r] = "handling"
    BY <1>1, <1>3, <1>4, <2>2, <2>3 DEF TypeOK
  <2>6. <<r, "request">> \in Tasks \ {t}
    BY TaskTypes DEF t
  <2>7. phase[r] # "new"
    BY <1>1, <2>1 DEF Fine, RequestInv
  <2>8. RequestInv(r)'
    BY <1>1, <2>1, <2>2, <2>4, <2>5, <2>6, <2>7
    DEF Fine, RequestInv, default_request_id, answered
  <2>9. MessageInv(r)' /\ StatelessInv(r)'
    BY <1>1, <2>1, <2>2, <2>4, <2>5
    DEF Fine, MessageInv, StatelessInv, default_request_id, Stateless, settings, answered, t
  <2>10. \A q \in Requests \ {r} : Fine(q)'
    BY <1>1, <1>4, <1>8, <2>4, <2>5, OthersKeep, TaskTypes DEF settings, answered, TypeOK, t
  <2> QED
    BY <1>7, <2>8, <2>9, <2>10 DEF IInv, Fine
<1>9. CASE ~Instrumented
  BY <1>1, <1>7, <1>9 DEF IInv, Instrumented, settings
<1> QED
  BY <1>8, <1>9

LEMMA LogKeeps ==
    ASSUME IInv, NEW r \in Requests, Log(r)
    PROVE  IInv'
<1> DEFINE id == LogFilter(<<r, "message">>)
<1>1. /\ message[r] = "handling" /\ logged' = [logged EXCEPT ![r] = id]
      /\ UNCHANGED <<settings, phase, given, contexts, state, opened, message, counted,
                     answered>>
  BY DEF Log
<1>2. id \in Ids \cup {None, "-"}
  BY TaskTypes DEF LogFilter, get_request_id, Slot, IInv, TypeOK
<1>3. logged' \in [Requests -> Ids \cup {None, "-"}]
  BY <1>1, <1>2 DEF IInv, TypeOK
<1>4. TypeOK'
  BY <1>1, <1>3 DEF IInv, TypeOK, settings, contexts, counted, answered
<1>5. CASE Instrumented
  <2>1. Fine(r)
    BY <1>5 DEF IInv
  <2>2. id = state[r]
    BY <1>1, <2>1, IdsAssumption DEF LogFilter, get_request_id, Slot, Fine, MessageInv
  <2>3. logged'[r] = id
    BY <1>1 DEF IInv, TypeOK
  <2> HIDE DEF id
  <2>4. Fine(r)'
    BY <1>1, <2>1, <2>2, <2>3
    DEF Fine, RequestInv, MessageInv, StatelessInv, default_request_id, Stateless, settings,
        contexts, answered
  <2>5. \A q \in Requests \ {r} : Fine(q)'
    BY <1>1, <1>5, OthersKeep DEF settings, contexts, answered, IInv, TypeOK
  <2> QED
    BY <1>4, <2>4, <2>5 DEF IInv
<1>6. CASE ~Instrumented
  BY <1>1, <1>4, <1>6 DEF IInv, Instrumented, settings
<1> QED
  BY <1>5, <1>6

LEMMA EndMessageKeeps ==
    ASSUME IInv, NEW r \in Requests, EndMessage(r)
    PROVE  IInv'
<1> DEFINE t == <<r, "message">>
<1>1. /\ message[r] = "handling" /\ message' = [message EXCEPT ![r] = "done"]
      /\ reset_request_id(t)
      /\ UNCHANGED <<settings, phase, given, state, opened, logged, counted, answered>>
  BY DEF EndMessage
<1>2. TypeOK /\ t \in Tasks /\ <<r, "request">> \in Tasks \ {t}
  BY TaskTypes DEF IInv
<1> HIDE DEF t
<1>3. /\ var' \in [Tasks -> Ids \cup {None}]
      /\ token' \in [Tasks -> SUBSET (Ids \cup {None})]
      /\ \A u \in Tasks \ {t} : var'[u] = var[u] /\ token'[u] = token[u]
  BY <1>1, <1>2, ResetTypes
<1>4. message'[r] = "done"
      /\ message' \in [Requests -> {"none", "waiting", "handling", "done"}]
  BY <1>1, <1>2 DEF TypeOK
<1>5. TypeOK'
  BY <1>1, <1>2, <1>3, <1>4 DEF TypeOK, settings, counted, answered
<1>6. CASE Instrumented
  <2>1. Fine(r)
    BY <1>6 DEF IInv
  <2>2. RequestInv(r)'
    BY <1>1, <1>2, <1>3, <1>4, <2>1 DEF Fine, RequestInv, default_request_id, answered
  <2>3. MessageInv(r)' /\ StatelessInv(r)'
    BY <1>1, <1>4, <2>1
    DEF Fine, MessageInv, StatelessInv, default_request_id, Stateless, settings, answered
  <2>4. \A q \in Requests \ {r} : Fine(q)'
    BY <1>1, <1>2, <1>3, <1>6, OthersKeep, TaskTypes DEF settings, answered, TypeOK, t
  <2> QED
    BY <1>5, <2>2, <2>3, <2>4 DEF IInv, Fine
<1>7. CASE ~Instrumented
  BY <1>1, <1>5, <1>7 DEF IInv, Instrumented, settings
<1> QED
  BY <1>6, <1>7

LEMMA Inductive == IInv /\ [Next]_vars => IInv'
<1> SUFFICES ASSUME IInv, [Next]_vars PROVE IInv'
  OBVIOUS
<1>1. ASSUME NEW r \in Requests, RequestStep(r) PROVE IInv'
  BY <1>1, ReceiveKeeps, SendStartKeeps, EndKeeps DEF RequestStep
<1>2. ASSUME NEW r \in Requests, MessageStep(r) PROVE IInv'
  BY <1>2, OpenSessionKeeps, LogKeeps, EndMessageKeeps, DeliverKeeps, OnMessageKeeps
  DEF MessageStep
<1>3. CASE UNCHANGED vars
  <2>1. UNCHANGED <<settings, phase, given, contexts, state, messages, counted, answered>>
    BY <1>3 DEF vars
  <2>2. TypeOK'
    BY <2>1 DEF IInv, TypeOK, settings, contexts, messages, counted, answered
  <2>3. Instrumented' => \A r \in Requests : Fine(r)'
    BY <2>1 DEF IInv, Fine, RequestInv, MessageInv, StatelessInv, Instrumented, Stateless,
                default_request_id, settings, contexts, messages, answered
  <2> QED
    BY <2>2, <2>3 DEF IInv
<1> QED
  BY <1>1, <1>2, <1>3 DEF Next

LEMMA Invariant == Spec => []IInv
BY Initial, Inductive, PTL DEF Spec

(* The middlewares' variables keep their types: what a reset restores is   *)
(* an identifier, and no counter goes down below zero (request_id.py,      *)
(* metrics.py).                                                            *)
THEOREM TypeCorrect == Spec => []TypeOK
<1>1. IInv => TypeOK
  BY DEF IInv
<1> QED
  BY <1>1, Invariant, PTL

(* However requests and messages overlap, no task of a request runs under  *)
(* another's identifier, and in stateless sessions its message, its log    *)
(* lines and its response name it (RequestIDHeaderMiddleware).             *)
THEOREM IdentifiersCorrect == Spec => []OwnIdentifier
<1>1. IInv => OwnIdentifier
  <2> SUFFICES ASSUME IInv, Instrumented, NEW r \in Requests
               PROVE  /\ var[<<r, "request">>] =
                            IF phase[r] = "open" THEN default_request_id(r) ELSE None
                      /\ Stateless =>
                            /\ logged[r] \in {None, default_request_id(r)}
                            /\ start[r] # None => start[r].id = default_request_id(r)
    BY DEF OwnIdentifier
  <2>1. Fine(r)
    BY DEF IInv
  <2>2. logged[r] # None => phase[r] # "new"
    BY <2>1 DEF Fine, RequestInv, MessageInv
  <2> QED
    BY <2>1, <2>2 DEF Fine, RequestInv, MessageInv, StatelessInv
<1> QED
  BY <1>1, Invariant, PTL

(* An answer that starts after its message was handled carries the         *)
(* identifier the handler logged under, whichever request opened the       *)
(* session (RequestIDContextMiddleware).                                   *)
THEOREM AnswersCorrect == Spec => []AnswerTellsTheLog
<1>1. IInv => AnswerTellsTheLog
  BY DEF IInv, AnswerTellsTheLog, Fine, MessageInv
<1> QED
  BY <1>1, Invariant, PTL

-----------------------------------------------------------------------------
(* The counter. *)

(* A request is recorded when its first answer starts; until then its      *)
(* status is the server error it would be counted under, and its client    *)
(* sees nothing but that.                                                  *)
Once(r) ==
    /\ recorded[r] <=> start[r] # None
    /\ ~recorded[r] => status_code[r] = ServerError
    /\ phase[r] = "new" => seen[r] = None
    /\ seen[r] # None /\ start[r] # None => start[r].status = seen[r]
    /\ seen[r] # None /\ start[r] = None => phase[r] = "closed" /\ seen[r] = ServerError

Balanced == \A status \in Statuses : HTTP_REQUESTS[status] = Cardinality(Owed(status))

CountInv == Instrumented => Balanced /\ \A r \in Requests : Once(r)

LEMMA OwedFinite == \A status : IsFiniteSet(Owed(status))
<1> TAKE status
<1>1. Owed(status) \subseteq Requests
  BY DEF Owed
<1> QED
  BY <1>1, RequestsAssumption, FS_Subset

(* Counting one more request that is owed one more status.                 *)
LEMMA OneMore ==
    ASSUME TypeOK, Balanced, NEW r, NEW status \in Statuses,
           r \notin Owed(status), Owed(status)' = Owed(status) \cup {r},
           \A s \in Statuses \ {status} : Owed(s)' = Owed(s),
           HTTP_REQUESTS' = [HTTP_REQUESTS EXCEPT ![status] = @ + 1]
    PROVE  Balanced'
<1>1. Cardinality(Owed(status) \cup {r}) = Cardinality(Owed(status)) + 1
  BY OwedFinite, FS_AddElement
<1>2. /\ HTTP_REQUESTS'[status] = HTTP_REQUESTS[status] + 1
      /\ \A s \in Statuses \ {status} : HTTP_REQUESTS'[s] = HTTP_REQUESTS[s]
  BY DEF TypeOK
<1>3. Cardinality(Owed(status))' = HTTP_REQUESTS'[status]
  BY <1>1, <1>2 DEF Balanced
<1>4. \A s \in Statuses \ {status} : HTTP_REQUESTS'[s] = Cardinality(Owed(s))'
  BY <1>2 DEF Balanced
<1>5. \A s \in Statuses : HTTP_REQUESTS'[s] = Cardinality(Owed(s))'
  BY <1>3, <1>4
<1> QED
  BY <1>5 DEF Balanced

LEMMA CountInitial == Init => CountInv
<1> SUFFICES ASSUME Init PROVE Balanced /\ \A r \in Requests : Once(r)
  BY DEF CountInv
<1>1. \A status \in Statuses : Owed(status) = {}
  BY DEF Init, Owed
<1>2. Balanced
  BY <1>1, FS_EmptySet DEF Balanced, Init
<1>3. \A r \in Requests : Once(r)
  BY DEF Init, Once
<1> QED
  BY <1>2, <1>3

(* Steps that start and end no request.                                    *)
LEMMA QuietKeeps ==
    ASSUME CountInv, UNCHANGED <<settings, phase, counted, answered>>
    PROVE  CountInv'
<1>1. /\ transport' = transport /\ phase' = phase /\ start' = start /\ seen' = seen
      /\ recorded' = recorded /\ status_code' = status_code /\ HTTP_REQUESTS' = HTTP_REQUESTS
  BY DEF settings, counted, answered
<1>2. \A status \in Statuses : Owed(status)' = Owed(status)
  BY <1>1 DEF Owed
<1>3. Balanced => Balanced'
  BY <1>1, <1>2 DEF Balanced
<1>4. \A r \in Requests : Once(r) => Once(r)'
  BY <1>1 DEF Once
<1> QED
  BY <1>1, <1>3, <1>4 DEF CountInv, Instrumented

LEMMA ReceiveCounts ==
    ASSUME IInv, CountInv, NEW r \in Requests, NEW header, Receive(r, header)
    PROVE  CountInv'
<1>1. /\ phase[r] = "new" /\ phase' = [phase EXCEPT ![r] = "open"]
      /\ transport' = transport /\ start' = start /\ seen' = seen
      /\ recorded' = recorded /\ status_code' = status_code /\ HTTP_REQUESTS' = HTTP_REQUESTS
  BY DEF Receive, settings, counted, answered
<1>2. \A q \in Requests : phase'[q] = IF q = r THEN "open" ELSE phase[q]
  BY <1>1 DEF IInv, TypeOK
<1>3. \A status \in Statuses : Owed(status)' = Owed(status)
  BY <1>1, <1>2 DEF Owed
<1>4. Balanced => Balanced'
  BY <1>1, <1>3 DEF Balanced
<1>5. \A q \in Requests : Once(q) => Once(q)'
  BY <1>1, <1>2 DEF Once
<1> QED
  BY <1>1, <1>4, <1>5 DEF CountInv, Instrumented

LEMMA SendStartCounts ==
    ASSUME IInv, CountInv, NEW r \in Requests, NEW status \in Statuses,
           NEW delivered \in BOOLEAN, SendStart(r, status, delivered)
    PROVE  CountInv'
<1> SUFFICES ASSUME Instrumented PROVE Balanced' /\ \A q \in Requests : Once(q)'
  BY DEF CountInv, SendStart, Instrumented, settings
<1> DEFINE answer == [status |-> status, id |-> ResponseId(r), logged |-> logged[r]]
<1>1. /\ phase[r] = "open" /\ phase' = phase
      /\ start' = IF start[r] # None THEN start ELSE [start EXCEPT ![r] = answer]
      /\ seen' = IF start[r] = None /\ delivered THEN [seen EXCEPT ![r] = status] ELSE seen
      /\ status_code' = [status_code EXCEPT ![r] = status]
      /\ recorded' = [recorded EXCEPT ![r] = TRUE]
      /\ HTTP_REQUESTS' = IF recorded[r] THEN HTTP_REQUESTS
                          ELSE [HTTP_REQUESTS EXCEPT ![status] = @ + 1]
  BY DEF SendStart, emit_metrics
<1>2. TypeOK /\ Balanced /\ \A q \in Requests : Once(q)
  BY DEF IInv, CountInv
<1>3. answer \in Start /\ answer.status = status
  BY <1>2, ResponseIdTypes DEF Start, TypeOK
<1>4. answer # None
  BY <1>3, NoneAssumption
<1> HIDE DEF answer
<1>5. \A q \in Requests \ {r} : /\ start'[q] = start[q] /\ seen'[q] = seen[q]
                               /\ recorded'[q] = recorded[q] /\ status_code'[q] = status_code[q]
  BY <1>1, <1>2 DEF TypeOK
<1>6. recorded'[r] = TRUE /\ start'[r] = IF start[r] # None THEN start[r] ELSE answer
  BY <1>1, <1>2 DEF TypeOK
<1>7. seen'[r] = IF start[r] = None /\ delivered THEN status ELSE seen[r]
  BY <1>1, <1>2 DEF TypeOK
<1>8. \A q \in Requests : Once(q)'
  <2>1. Once(r)'
    BY <1>1, <1>2, <1>3, <1>4, <1>6, <1>7 DEF Once
  <2>2. \A q \in Requests \ {r} : Once(q)'
    BY <1>1, <1>2, <1>5 DEF Once
  <2> QED
    BY <2>1, <2>2
<1>9. Balanced'
  <2>1. CASE recorded[r]
    <3>1. start' = start /\ phase' = phase /\ HTTP_REQUESTS' = HTTP_REQUESTS
      BY <1>1, <1>2, <2>1 DEF Once
    <3>2. \A s \in Statuses : Owed(s)' = Owed(s)
      BY <3>1 DEF Owed
    <3> QED
      BY <1>2, <3>1, <3>2 DEF Balanced
  <2>2. CASE ~recorded[r]
    <3>1. start[r] = None /\ start'[r] = answer
      BY <1>2, <1>6, <2>2 DEF Once
    <3>2. \A s \in Statuses : r \notin Owed(s)
      BY <1>1, <3>1 DEF Owed
    <3>3. Owed(status)' = Owed(status) \cup {r}
      BY <1>1, <1>3, <1>4, <1>5, <3>1 DEF Owed
    <3>4. \A s \in Statuses \ {status} : Owed(s)' = Owed(s)
      BY <1>1, <1>3, <1>4, <1>5, <3>1, <3>2 DEF Owed
    <3> QED
      BY <1>1, <1>2, <2>2, <3>2, <3>3, <3>4, OneMore
  <2> QED
    BY <2>1, <2>2
<1> QED
  BY <1>8, <1>9

LEMMA EndCounts ==
    ASSUME IInv, CountInv, NEW r \in Requests, NEW how, NEW delivered \in BOOLEAN,
           End(r, how, delivered)
    PROVE  CountInv'
<1> SUFFICES ASSUME Instrumented PROVE Balanced' /\ \A q \in Requests : Once(q)'
  BY DEF CountInv, End, Instrumented, settings
<1>1. /\ phase[r] = "open" /\ phase' = [phase EXCEPT ![r] = "closed"] /\ start' = start
      /\ recorded' = recorded /\ status_code' = status_code
      /\ seen' = IF start[r] = None /\ how # "cancelled" /\ delivered
                 THEN [seen EXCEPT ![r] = ServerError] ELSE seen
      /\ HTTP_REQUESTS' = IF recorded[r] THEN HTTP_REQUESTS
                          ELSE [HTTP_REQUESTS EXCEPT ![status_code[r]] = @ + 1]
  BY DEF End, emit_metrics
<1>2. TypeOK /\ Balanced /\ \A q \in Requests : Once(q)
  BY DEF IInv, CountInv
<1>3. \A q \in Requests : phase'[q] = IF q = r THEN "closed" ELSE phase[q]
  BY <1>1, <1>2 DEF TypeOK
<1>4. /\ seen'[r] \in {seen[r], ServerError} /\ (start[r] # None => seen'[r] = seen[r])
      /\ \A q \in Requests \ {r} : seen'[q] = seen[q]
  BY <1>1, <1>2 DEF TypeOK
<1>5. \A q \in Requests : Once(q)'
  <2>1. Once(r)'
    BY <1>1, <1>2, <1>3, <1>4 DEF Once
  <2>2. \A q \in Requests \ {r} : Once(q)'
    BY <1>1, <1>2, <1>3, <1>4 DEF Once
  <2> QED
    BY <2>1, <2>2
<1>6. Balanced'
  <2>1. CASE recorded[r]
    <3>1. start[r] # None /\ HTTP_REQUESTS' = HTTP_REQUESTS
      BY <1>1, <1>2, <2>1 DEF Once
    <3>2. \A s \in Statuses : Owed(s)' = Owed(s)
      BY <1>1, <1>3, <3>1 DEF Owed
    <3> QED
      BY <1>2, <3>1, <3>2 DEF Balanced
  <2>2. CASE ~recorded[r]
    <3>1. start[r] = None /\ status_code[r] = ServerError
      BY <1>2, <2>2 DEF Once
    <3>2. \A s \in Statuses : r \notin Owed(s)
      BY <1>1, <3>1 DEF Owed
    <3>3. Owed(ServerError)' = Owed(ServerError) \cup {r}
      BY <1>1, <1>3, <3>1 DEF Owed
    <3>4. \A s \in Statuses \ {ServerError} : Owed(s)' = Owed(s)
      BY <1>1, <1>3, <3>1 DEF Owed
    <3> QED
      BY <1>1, <1>2, <2>2, <3>1, <3>2, <3>3, <3>4, StatusesAssumption, OneMore
  <2> QED
    BY <2>1, <2>2
<1> QED
  BY <1>5, <1>6

LEMMA CountInductive == IInv /\ CountInv /\ [Next]_vars => CountInv'
<1> SUFFICES ASSUME IInv, CountInv, [Next]_vars PROVE CountInv'
  OBVIOUS
<1>1. ASSUME NEW r \in Requests, RequestStep(r) PROVE CountInv'
  BY <1>1, ReceiveCounts, SendStartCounts, EndCounts DEF RequestStep
<1>2. ASSUME NEW r \in Requests, MessageStep(r) PROVE CountInv'
  BY <1>2, QuietKeeps DEF MessageStep, OpenSession, Deliver, OnMessage, Log, EndMessage
<1>3. CASE UNCHANGED vars
  BY <1>3, QuietKeeps DEF vars
<1> QED
  BY <1>1, <1>2, <1>3 DEF Next

(* Every request that was answered or has ended is counted once, under the *)
(* status its answer started with or as a server error, and so under what  *)
(* its client saw (PrometheusMiddleware).                                  *)
THEOREM RequestsCounted == Spec => []HttpAccounted
<1>1. IInv /\ CountInv => HttpAccounted
  <2> SUFFICES ASSUME IInv, CountInv, Instrumented, NEW status \in Statuses
               PROVE  /\ HTTP_REQUESTS[status] = Cardinality(Owed(status))
                      /\ \A r \in Requests : seen[r] = status => r \in Owed(status)
    BY DEF HttpAccounted
  <2>1. Balanced /\ \A r \in Requests : Once(r)
    BY DEF CountInv
  <2>2. status # None
    BY NoneAssumption
  <2> QED
    BY <2>1, <2>2 DEF Balanced, Once, Owed
<1> QED
  BY <1>1, Initial, Inductive, CountInitial, CountInductive, PTL DEF Spec
=============================================================================
