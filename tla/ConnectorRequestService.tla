------------------------ MODULE ConnectorRequestService ------------------------
(***************************************************************************)
(* The connector request service of                                       *)
(* apollo-router/src/services/connector/request_service.rs.               *)
(*                                                                         *)
(* ConnectorRequestServiceFactory::new puts one tower Buffer in front of  *)
(* the service of each connector source; a caller's request waits in the  *)
(* Buffer (bounded by BufferSize) until its worker takes it, in order,    *)
(* and runs ConnectorRequestService::call.  call reads the context        *)
(* synchronously (request limit, request event and its condition) and     *)
(* returns a future; the caller drives the futures of its requests        *)
(* concurrently.  The future checks the limit, logs the request, awaits  *)
(* the HTTP client, bumps the connectors counter and awaits               *)
(* process_response; each await splits the request into steps.           *)
(*                                                                         *)
(* The environment: RequestLimits (whether a limit exists for the         *)
(* connector, and whether allow() admits the request), the HTTP client    *)
(* (its outcome) and process_response are outside this file and are      *)
(* nondeterministic choices.                                              *)
(***************************************************************************)
EXTENDS Naturals, Sequences, FiniteSets

CONSTANTS
    Requests,       \* connector requests
    Connectors,     \* [subgraph, source] records
    HttpClients,    \* the source keys http_client_service_factory serves
    BufferSize,     \* DEFAULT_BUFFER_SIZE of the tower Buffer
    None

ASSUME BufferSize \in Nat \ {0}

VARIABLES
    conn,           \* request.connector
    ctx,            \* what request.context holds: limits present, request event
    pc,             \* where each request is
    queue,          \* the Buffer: requests not yet taken by its worker
    limit,          \* request_limit, read by call (TRUE: a RequestLimit)
    logLevel,       \* log_request_level, computed by call
    logged,         \* log_request emitted the connector.request event
    result,         \* the Result the future passes to process_response
    counter,        \* apollo.router.operations.connectors
    answer          \* the Response's transport_result

vars == <<conn, ctx, pc, queue, limit, logLevel, logged, result, counter, answer>>

Events == {"unset", "none", "true", "false", "undecided"}

Result(kind, service) == [kind |-> kind, service |-> service]

\* connector.id.subgraph_source()
SubgraphSource(c) == <<c.subgraph, c.source>>

Results ==
    {Result(k, None) : k \in {"ok", "limit", "no_client", "other_fetch", "other"}}
    \cup {Result("subrequest_http", s) :
            s \in {c.subgraph : c \in Connectors} \cup {SubgraphSource(c) : c \in Connectors}}

(***************************************************************************)
(* log_request_level: the event's level when it has no condition or its   *)
(* condition evaluates the request to Some(true).                         *)
(***************************************************************************)
LogRequestLevel(event) ==
    IF event \in {"none", "true"} THEN "level" ELSE None

(***************************************************************************)
(* replace_subgraph_name: a FetchError::SubrequestHttpError gets the      *)
(* connector's subgraph_source as its service; any other FetchError and   *)
(* any other error is returned as it is.                                  *)
(***************************************************************************)
\* Mutant: the error returned as the HTTP client reported it.
ReplaceSubgraphNameKeep(err, c) == err

ReplaceSubgraphName(err, c) ==
    IF err.kind = "subrequest_http"
    THEN [err EXCEPT !.service = SubgraphSource(c)]
    ELSE err

Init ==
    /\ conn \in [Requests -> Connectors]
    /\ ctx \in [Requests -> [limits : BOOLEAN, event : Events]]
    /\ pc = [r \in Requests |-> "idle"]
    /\ queue = <<>>
    /\ limit = [r \in Requests |-> FALSE]
    /\ logLevel = [r \in Requests |-> None]
    /\ logged = [r \in Requests |-> FALSE]
    /\ result = [r \in Requests |-> None]
    /\ counter = 0
    /\ answer = [r \in Requests |-> None]

(***************************************************************************)
(* ConnectorRequestServiceFactory::create(source).oneshot(request): the   *)
(* caller starts waiting in the Buffer's poll_ready for a permit of its   *)
(* semaphore, one per free slot.                                          *)
(***************************************************************************)
Oneshot(r) ==
    /\ pc[r] = "idle"
    /\ pc' = [pc EXCEPT ![r] = "waiting"]
    /\ UNCHANGED <<conn, ctx, queue, limit, logLevel, logged, result, counter, answer>>

\* Mutant: a permit needs two free slots.
SubmitOffByOne(r) ==
    /\ pc[r] = "waiting"
    /\ Len(queue) < BufferSize - 1
    /\ queue' = Append(queue, r)
    /\ pc' = [pc EXCEPT ![r] = "buffered"]
    /\ UNCHANGED <<conn, ctx, limit, logLevel, logged, result, counter, answer>>

\* poll_ready gets a permit once a slot is free, and the request is sent
\* to the worker's channel.
Submit(r) ==
    /\ pc[r] = "waiting"
    /\ Len(queue) < BufferSize
    /\ queue' = Append(queue, r)
    /\ pc' = [pc EXCEPT ![r] = "buffered"]
    /\ UNCHANGED <<conn, ctx, limit, logLevel, logged, result, counter, answer>>

(***************************************************************************)
(* ConnectorRequestService::call, run by the Buffer's worker on the       *)
(* oldest request: with the context's extensions locked it reads the     *)
(* RequestLimits entry of the connector (limits.get may find none), then  *)
(* evaluates the request event's condition.                               *)
(***************************************************************************)
Call ==
    /\ queue # <<>>
    /\ LET r == Head(queue)
       IN  /\ \E l \in IF ctx[r].limits THEN BOOLEAN ELSE {FALSE} :
                 limit' = [limit EXCEPT ![r] = l]
           /\ logLevel' = [logLevel EXCEPT ![r] = LogRequestLevel(ctx[r].event)]
           /\ pc' = [pc EXCEPT ![r] = "called"]
    /\ queue' = Tail(queue)
    /\ UNCHANGED <<conn, ctx, logged, result, counter, answer>>

(***************************************************************************)
(* The future, up to the HTTP client's await.  A request whose limit does *)
(* not allow() it ends with RequestLimitExceeded, unlogged and uncounted. *)
(* Otherwise log_request emits the event when a level was computed; with *)
(* no HTTP client for source_config_key() the result is a                 *)
(* TransportFailure, counted at once.                                     *)
(***************************************************************************)
\* Mutant: the counter bumped after the if/else, refused requests included.
PollCountsRefused(r) ==
    /\ pc[r] = "called"
    /\ \E allowed \in IF limit[r] THEN BOOLEAN ELSE {TRUE} :
         IF ~allowed
         THEN /\ result' = [result EXCEPT ![r] = Result("limit", None)]
              /\ pc' = [pc EXCEPT ![r] = "result"]
              /\ counter' = counter + 1
              /\ UNCHANGED logged
         ELSE /\ logged' = [logged EXCEPT ![r] = logLevel[r] # None]
              /\ IF conn[r].source \in HttpClients
                 THEN /\ pc' = [pc EXCEPT ![r] = "sending"]
                      /\ UNCHANGED <<result, counter>>
                 ELSE /\ result' = [result EXCEPT ![r] = Result("no_client", None)]
                      /\ counter' = counter + 1
                      /\ pc' = [pc EXCEPT ![r] = "result"]
    /\ UNCHANGED <<conn, ctx, queue, limit, logLevel, answer>>

\* Mutant: the counter bumped as soon as the limit admits the request.
PollCountsEarly(r) ==
    /\ pc[r] = "called"
    /\ \E allowed \in IF limit[r] THEN BOOLEAN ELSE {TRUE} :
         IF ~allowed
         THEN /\ result' = [result EXCEPT ![r] = Result("limit", None)]
              /\ pc' = [pc EXCEPT ![r] = "result"]
              /\ UNCHANGED <<logged, counter>>
         ELSE /\ logged' = [logged EXCEPT ![r] = logLevel[r] # None]
              /\ counter' = counter + 1
              /\ IF conn[r].source \in HttpClients
                 THEN /\ pc' = [pc EXCEPT ![r] = "sending"]
                      /\ UNCHANGED result
                 ELSE /\ result' = [result EXCEPT ![r] = Result("no_client", None)]
                      /\ pc' = [pc EXCEPT ![r] = "result"]
    /\ UNCHANGED <<conn, ctx, queue, limit, logLevel, answer>>

\* Mutant: log_request called before the limit check.
PollLogsFirst(r) ==
    /\ pc[r] = "called"
    /\ logged' = [logged EXCEPT ![r] = logLevel[r] # None]
    /\ \E allowed \in IF limit[r] THEN BOOLEAN ELSE {TRUE} :
         IF ~allowed
         THEN /\ result' = [result EXCEPT ![r] = Result("limit", None)]
              /\ pc' = [pc EXCEPT ![r] = "result"]
              /\ UNCHANGED counter
         ELSE IF conn[r].source \in HttpClients
              THEN /\ pc' = [pc EXCEPT ![r] = "sending"]
                   /\ UNCHANGED <<result, counter>>
              ELSE /\ result' = [result EXCEPT ![r] = Result("no_client", None)]
                   /\ counter' = counter + 1
                   /\ pc' = [pc EXCEPT ![r] = "result"]
    /\ UNCHANGED <<conn, ctx, queue, limit, logLevel, answer>>

Poll(r) ==
    /\ pc[r] = "called"
    /\ \E allowed \in IF limit[r] THEN BOOLEAN ELSE {TRUE} :
         IF ~allowed
         THEN /\ result' = [result EXCEPT ![r] = Result("limit", None)]
              /\ pc' = [pc EXCEPT ![r] = "result"]
              /\ UNCHANGED <<logged, counter>>
         ELSE /\ logged' = [logged EXCEPT ![r] = logLevel[r] # None]
              /\ IF conn[r].source \in HttpClients
                 THEN /\ pc' = [pc EXCEPT ![r] = "sending"]
                      /\ UNCHANGED <<result, counter>>
                 ELSE /\ result' = [result EXCEPT ![r] = Result("no_client", None)]
                      /\ counter' = counter + 1
                      /\ pc' = [pc EXCEPT ![r] = "result"]
    /\ UNCHANGED <<conn, ctx, queue, limit, logLevel, answer>>

(***************************************************************************)
(* The HTTP client answers (the client of create(original_subgraph_name)  *)
(* reports a SubrequestHttpError under that name); its error goes through *)
(* replace_subgraph_name, and the counter is bumped.                     *)
(***************************************************************************)
TransportReturns(r) ==
    /\ pc[r] = "sending"
    /\ \E k \in {"ok", "subrequest_http", "other_fetch", "other"} :
         LET reported == Result(k, IF k = "subrequest_http" THEN conn[r].subgraph ELSE None)
         IN  result' = [result EXCEPT ![r] =
                          IF k = "ok" THEN reported ELSE ReplaceSubgraphName(reported, conn[r])]
    /\ counter' = counter + 1
    /\ pc' = [pc EXCEPT ![r] = "result"]
    /\ UNCHANGED <<conn, ctx, queue, limit, logLevel, logged, answer>>

(***************************************************************************)
(* Ok(process_response(result, ..).await): the Response keeps the result *)
(* as its transport_result.                                               *)
(***************************************************************************)
ProcessResponse(r) ==
    /\ pc[r] = "result"
    /\ answer' = [answer EXCEPT ![r] = result[r]]
    /\ pc' = [pc EXCEPT ![r] = "done"]
    /\ UNCHANGED <<conn, ctx, queue, limit, logLevel, logged, result, counter>>

Next ==
    \/ Call
    \/ \E r \in Requests :
         \/ Oneshot(r)
         \/ Submit(r)
         \/ Poll(r)
         \/ TransportReturns(r)
         \/ ProcessResponse(r)

(***************************************************************************)
(* Fairness: the Buffer's worker runs while requests wait; the caller     *)
(* polls every future it holds; the HTTP client answers (the router's     *)
(* timeout layers turn a hung call into GatewayTimeout, an "other"        *)
(* error); a waiting caller gets a permit once a slot stays free (the     *)
(* Buffer's tokio semaphore hands permits out in FIFO order).  Callers   *)
(* are free never to call oneshot.                                        *)
(***************************************************************************)
Spec ==
    /\ Init /\ [][Next]_vars
    /\ WF_vars(Call)
    /\ \A r \in Requests :
         /\ WF_vars(Submit(r))
         /\ WF_vars(Poll(r))
         /\ WF_vars(TransportReturns(r))
         /\ WF_vars(ProcessResponse(r))

-----------------------------------------------------------------------------
TypeOK ==
    /\ pc \in [Requests -> {"idle", "waiting", "buffered", "called", "sending", "result", "done"}]
    /\ queue \in Seq(Requests) /\ Len(queue) <= BufferSize
    /\ limit \in [Requests -> BOOLEAN]
    /\ logLevel \in [Requests -> {"level", None}]
    /\ logged \in [Requests -> BOOLEAN]
    /\ result \in [Requests -> Results \cup {None}]
    /\ answer \in [Requests -> Results \cup {None}]
    /\ counter \in 0..Cardinality(Requests)

\* The requests the future took past the limit check.
PastLimit(r) ==
    /\ pc[r] \in {"sending", "result", "done"}
    /\ result[r] = None \/ result[r].kind # "limit"

\* The configured request event wants this request logged.
EventWanted(event) == event = "none" \/ event = "true"

(***************************************************************************)
(* The counter apollo.router.operations.connectors counts exactly the     *)
(* requests whose future got a result past the limit check: a refused     *)
(* request is never counted, a request without HTTP client is, and none   *)
(* is counted twice, in whatever order the futures are polled.            *)
(***************************************************************************)
CounterCountsAttempts ==
    counter = Cardinality({r \in Requests :
                             /\ pc[r] \in {"result", "done"}
                             /\ result[r].kind # "limit"})

(***************************************************************************)
(* The connector.request event is emitted for exactly the requests that   *)
(* passed the limit and whose configured event (and condition, evaluated  *)
(* in call before the future ran) wants them: log_request sits after the  *)
(* limit check in call's future.                                          *)
(***************************************************************************)
LoggedExactlyAdmitted ==
    \A r \in Requests :
        logged[r] <=> PastLimit(r) /\ EventWanted(ctx[r].event)

(***************************************************************************)
(* Refinement: with the Buffer, the await points and logging hidden, the *)
(* service implements ConnectorRequests: every request a caller hands to *)
(* oneshot, including one still waiting for a slot of a full Buffer, is  *)
(* answered once, eventually, with a result its context and connector     *)
(* allow (an HTTP status failure under the connector's subgraph_source),  *)
(* and the counter of answered requests matches.                          *)
(***************************************************************************)
AbstractStatus(r) ==
    CASE pc[r] = "idle" -> "idle"
      [] pc[r] = "done" -> "answered"
      [] OTHER          -> "pending"

Abstract == INSTANCE ConnectorRequests WITH
    status  <- [r \in Requests |-> AbstractStatus(r)],
    counter <- Cardinality({r \in Requests : pc[r] = "done" /\ answer[r].kind # "limit"})

ImplementsConnectorRequests == Abstract!ASpec
=============================================================================
