---------------------------- MODULE HttpMiddleware ---------------------------
(***************************************************************************)
(* The two ASGI middlewares around every HTTP request, PrometheusMiddleware*)
(* (metrics.py) outside RequestIDHeaderMiddleware (request_id.py), and the *)
(* FastMCP middleware RequestIDContextMiddleware around every MCP message, *)
(* under each transport config.py accepts.                                 *)
(*                                                                         *)
(* A request and the message it carries are handled by tasks of their own. *)
(* The message's task starts with a copy of a context: of its own request  *)
(* in stateless mode, of the request that opened the session otherwise.    *)
(* The HTTP server, Starlette's error page and the MCP sessions are        *)
(* external: they decide when a request arrives, when the application      *)
(* answers, raises or is cancelled, and when a message is handled.         *)
(***************************************************************************)
EXTENDS Naturals, FiniteSets

CONSTANTS
    Requests,  \* each made once; a request stands for the uuid it is given
    ClientIds, \* X-Request-ID values that clients send
    RpcId,     \* a JSON-RPC message id: small integers, the same everywhere
    None,      \* no identifier
    Statuses   \* HTTP statuses the application answers with

ServerError == 500

Ids == Requests \cup ClientIds \cup {RpcId}

(* What is kept of a response start. *)
Start == [status : Statuses, id : Ids \cup {None}, logged : Ids \cup {None, "-"}]

ASSUME IdsAssumption == None \notin Ids /\ RpcId \notin Requests \cup ClientIds
ASSUME StatusesAssumption == ServerError \in Statuses
ASSUME NoneAssumption == None \notin Statuses \cup Start
ASSUME RequestsAssumption == IsFiniteSet(Requests)

Transport == {"http", "sse", "stdio", "streamable-http"}

Tasks == Requests \X {"request", "message"}

VARIABLES
    transport, stateless_http, \* settings
    phase,      \* of a request: "new", "open" or "closed"
    given,      \* the request's X-Request-ID header, or None
    var,        \* _request_id_var
    token,      \* what a task's reset restores: a set, empty without a token
    state,      \* request_id in the scope's state
    opened,     \* the context a session runs in, by the request that opened it
    message,    \* of a request's message: "none", "waiting", "handling", "done"
    logged,     \* the identifier its handler logs under, or None
    recorded, status_code,     \* variables of PrometheusMiddleware.__call__
    HTTP_REQUESTS,             \* the counter, by status
    start,      \* the first response start: status, X-Request-ID, logged before
    seen        \* the status the client saw, or None

settings == <<transport, stateless_http>>
contexts == <<var, token>>
counted  == <<recorded, status_code, HTTP_REQUESTS>>
answered == <<start, seen>>
messages == <<opened, message, logged>>
vars == <<settings, phase, given, contexts, state, messages, counted, answered>>

-----------------------------------------------------------------------------
(* transport_kwargs: who gets the middlewares and stateless sessions.      *)

Instrumented == transport \in {"streamable-http", "sse"}

Stateless == transport = "streamable-http" /\ stateless_http

-----------------------------------------------------------------------------
(* The context variable. *)

(* Mutant: a module variable in place of a ContextVar. *)
SlotGlobal(t) == CHOOSE u \in Tasks : TRUE

(* Every task reads and writes its own copy. *)
Slot(t) == t

get_request_id(t) == var[Slot(t)]

set_request_id(t, id) ==
    /\ token' = [token EXCEPT ![t] = {get_request_id(t)}]
    /\ var' = [var EXCEPT ![Slot(t)] = id]

reset_request_id(t) ==
    /\ token' = [token EXCEPT ![t] = {}]
    /\ var' = [var EXCEPT ![Slot(t)] = IF token[t] = {} THEN @ ELSE CHOOSE id \in token[t] : TRUE]

LogFilter(t) == IF get_request_id(t) # None THEN get_request_id(t) ELSE "-"

-----------------------------------------------------------------------------
(* A request. *)

default_request_id(r) == IF given[r] # None THEN given[r] ELSE r

(* Mutant: the flag is not looked at. *)
EmitAlways(r, status) == [HTTP_REQUESTS EXCEPT ![status] = @ + 1]

(* Once per request: under its first status, or that of the finally clause. *)
emit_metrics(r, status) ==
    IF recorded[r] THEN HTTP_REQUESTS ELSE [HTTP_REQUESTS EXCEPT ![status] = @ + 1]

(* Both middlewares up to their call of the application. *)
Receive(r, header) ==
    /\ transport # "stdio"
    /\ phase[r] = "new"
    /\ phase' = [phase EXCEPT ![r] = "open"]
    /\ given' = [given EXCEPT ![r] = header]
    /\ IF Instrumented
       THEN /\ set_request_id(<<r, "request">>, default_request_id(r)')
            /\ state' = [state EXCEPT ![r] = default_request_id(r)']
       ELSE UNCHANGED <<contexts, state>>
    /\ UNCHANGED <<settings, messages, counted, answered>>

(* send_with_request_id: the state, which a message may have replaced.     *)
ResponseId(r) ==
    IF ~Instrumented THEN None
    ELSE IF state[r] # None THEN state[r]
    ELSE IF get_request_id(<<r, "request">>) # None THEN get_request_id(<<r, "request">>)
    ELSE default_request_id(r)

(* The application starts a response: counted once, then sent.  The client *)
(* may be gone; a second start is refused by the server.                   *)
SendStart(r, status, delivered) ==
    /\ phase[r] = "open"
    /\ IF Instrumented
       THEN /\ status_code' = [status_code EXCEPT ![r] = status]
            /\ recorded' = [recorded EXCEPT ![r] = TRUE]
            /\ HTTP_REQUESTS' = emit_metrics(r, status)
       ELSE UNCHANGED counted
    /\ start' = IF start[r] # None THEN start ELSE
          [start EXCEPT ![r] = [status |-> status, id |-> ResponseId(r), logged |-> logged[r]]]
    /\ seen' = IF start[r] = None /\ delivered THEN [seen EXCEPT ![r] = status] ELSE seen
    /\ UNCHANGED <<settings, phase, given, contexts, state, messages>>

(* The application returns, raises or is cancelled, and both finally       *)
(* clauses run.  If nothing was sent the server answers for it, outside    *)
(* the middlewares, unless the request was cancelled.                      *)
End(r, how, delivered) ==
    /\ phase[r] = "open"
    /\ phase' = [phase EXCEPT ![r] = "closed"]
    /\ IF Instrumented
       THEN /\ reset_request_id(<<r, "request">>)
            /\ HTTP_REQUESTS' = emit_metrics(r, status_code[r])
       ELSE UNCHANGED <<contexts, HTTP_REQUESTS>>
    /\ seen' = IF start[r] = None /\ how # "cancelled" /\ delivered
               THEN [seen EXCEPT ![r] = ServerError] ELSE seen
    /\ UNCHANGED <<settings, given, state, messages, recorded, status_code, start>>

-----------------------------------------------------------------------------
(* A message. *)

(* A request opens a session, whose task copies the context it is in.      *)
OpenSession(r) ==
    /\ phase[r] = "open" /\ ~Stateless
    /\ opened[r] = {}
    /\ opened' = [opened EXCEPT ![r] = {get_request_id(<<r, "request">>)}]
    /\ UNCHANGED <<settings, phase, given, contexts, state, message, logged, counted, answered>>

(* r's message gets a task: in its own context, in that of the session     *)
(* opened by s, or without any request.                                    *)
Deliver(r, s) ==
    /\ message[r] = "none"
    /\ message' = [message EXCEPT ![r] = "waiting"]
    /\ IF transport = "stdio" THEN UNCHANGED var
       ELSE /\ phase[r] = "open"
            /\ IF Stateless
               THEN var' = [var EXCEPT ![Slot(<<r, "message">>)] = get_request_id(<<r, "request">>)]
               ELSE \E id \in opened[s] : var' = [var EXCEPT ![Slot(<<r, "message">>)] = id]
    /\ UNCHANGED <<settings, phase, given, token, state, opened, logged, counted, answered>>

(* The identifier to log under.  Handshake messages have no request        *)
(* context, and stdio no HTTP request.                                     *)
resolve_request_id(r, hasContext) ==
    IF get_request_id(<<r, "message">>) # None THEN get_request_id(<<r, "message">>)
    ELSE IF hasContext THEN RpcId
    ELSE IF transport = "stdio" THEN None
    ELSE IF state[r] # None THEN state[r] ELSE given[r]

(* Mutant: the identifier is not kept for the response. *)
StoreNothing(r, id) == UNCHANGED state

(* Keep the identifier for the response's headers, if there is a response. *)
store_request_id(r, id) ==
    state' = IF id = None \/ transport = "stdio" THEN state ELSE [state EXCEPT ![r] = id]

(* on_message up to call_next. *)
OnMessage(r, hasContext) ==
    LET id == resolve_request_id(r, hasContext)
    IN  /\ message[r] = "waiting"
        /\ message' = [message EXCEPT ![r] = "handling"]
        /\ IF id = None THEN UNCHANGED contexts ELSE set_request_id(<<r, "message">>, id)
        /\ store_request_id(r, id)
        /\ UNCHANGED <<settings, phase, given, opened, logged, counted, answered>>

Log(r) ==
    /\ message[r] = "handling" /\ logged[r] = None
    /\ logged' = [logged EXCEPT ![r] = LogFilter(<<r, "message">>)]
    /\ UNCHANGED <<settings, phase, given, contexts, state, opened, message, counted, answered>>

(* The finally clause of on_message. *)
EndMessage(r) ==
    /\ message[r] = "handling"
    /\ message' = [message EXCEPT ![r] = "done"]
    /\ reset_request_id(<<r, "message">>)
    /\ UNCHANGED <<settings, phase, given, state, opened, logged, counted, answered>>

-----------------------------------------------------------------------------
Init ==
    /\ transport \in Transport /\ stateless_http \in BOOLEAN
    /\ phase = [r \in Requests |-> "new"]
    /\ given = [r \in Requests |-> None]
    /\ var = [t \in Tasks |-> None]
    /\ token = [t \in Tasks |-> {}]
    /\ state = [r \in Requests |-> None]
    /\ opened = [r \in Requests |-> {}]
    /\ message = [r \in Requests |-> "none"]
    /\ logged = [r \in Requests |-> None]
    /\ recorded = [r \in Requests |-> FALSE]
    /\ status_code = [r \in Requests |-> ServerError]
    /\ HTTP_REQUESTS = [s \in Statuses |-> 0]
    /\ start = [r \in Requests |-> None]
    /\ seen = [r \in Requests |-> None]

RequestStep(r) ==
    \/ \E header \in ClientIds \cup {None} : Receive(r, header)
    \/ \E delivered \in BOOLEAN :
          \/ \E status \in Statuses : SendStart(r, status, delivered)
          \/ \E how \in {"returned", "raised", "cancelled"} : End(r, how, delivered)

MessageStep(r) ==
    \/ OpenSession(r) \/ Log(r) \/ EndMessage(r)
    \/ \E s \in Requests : Deliver(r, s)
    \/ \E hasContext \in BOOLEAN : OnMessage(r, hasContext)

Next == \E r \in Requests : RequestStep(r) \/ MessageStep(r)

Spec == Init /\ [][Next]_vars

-----------------------------------------------------------------------------
TypeOK ==
    /\ transport \in Transport /\ stateless_http \in BOOLEAN
    /\ phase \in [Requests -> {"new", "open", "closed"}]
    /\ given \in [Requests -> ClientIds \cup {None}]
    /\ var \in [Tasks -> Ids \cup {None}]
    /\ token \in [Tasks -> SUBSET (Ids \cup {None})]
    /\ state \in [Requests -> Ids \cup {None}]
    /\ opened \in [Requests -> SUBSET (Ids \cup {None})]
    /\ message \in [Requests -> {"none", "waiting", "handling", "done"}]
    /\ logged \in [Requests -> Ids \cup {None, "-"}]
    /\ recorded \in [Requests -> BOOLEAN]
    /\ status_code \in [Requests -> Statuses]
    /\ HTTP_REQUESTS \in [Statuses -> Nat]
    /\ start \in [Requests -> Start \cup {None}]
    /\ seen \in [Requests -> Statuses \cup {None}]

(* The requests the counter owes a status: those whose answer started with *)
(* it, or that ended with no answer, which count as server errors.         *)
Owed(status) ==
    {r \in Requests : \/ start[r] # None /\ start[r].status = status
                      \/ start[r] = None /\ phase[r] = "closed" /\ status = ServerError}

(* "Record HTTP request count and duration once per request": with the     *)
(* middlewares in place every request is counted once, at its headers if   *)
(* it has any, under the status its client saw, in every order of answers, *)
(* repeated answers, errors, cancellations and clients that go away.       *)
HttpAccounted ==
    Instrumented =>
        \A status \in Statuses :
            /\ HTTP_REQUESTS[status] = Cardinality(Owed(status))
            /\ \A r \in Requests : seen[r] = status => r \in Owed(status)

(* "RequestIDHeaderMiddleware sets a UUID in the contextvar for each HTTP  *)
(* request": the task of an open request runs under that request's own     *)
(* identifier, however requests and messages overlap.  With stateless      *)
(* sessions that holds for its message, its log lines and its response     *)
(* too; otherwise a message runs under the opener's of its session.        *)
OwnIdentifier ==
    Instrumented =>
        \A r \in Requests :
            /\ var[<<r, "request">>] =
                  IF phase[r] = "open" THEN default_request_id(r) ELSE None
            /\ Stateless =>
                  /\ logged[r] \in {None, default_request_id(r)}
                  /\ start[r] # None => start[r].id = default_request_id(r)

(* "Persist the canonical request ID for response header middleware": an   *)
(* answer that starts after its message was handled carries the identifier *)
(* the handler logged under, in sessions opened by another request too.    *)
AnswerTellsTheLog ==
    Instrumented =>
        \A r \in Requests :
            start[r] # None /\ start[r].logged # None => start[r].id = start[r].logged
=============================================================================
