--------------------------- MODULE ConnectorRequests ---------------------------
(***************************************************************************)
(* What the connector request service promises its callers, with no       *)
(* buffer, no await points and no logging: a submitted request is         *)
(* answered exactly once, and eventually, with a result that its context  *)
(* and its connector allow:                                               *)
(*   - "limit" (RequestLimitExceeded) only when the context carries       *)
(*     request limits;                                                     *)
(*   - "no_client" when no HTTP client serves the connector's source;     *)
(*   - otherwise what the transport returned, where an HTTP status        *)
(*     failure names the connector (subgraph_source), never the internal  *)
(*     subgraph name.                                                     *)
(* The metric apollo.router.operations.connectors counts the answered     *)
(* requests that were not refused by the limit.                           *)
(***************************************************************************)
EXTENDS Naturals, FiniteSets

CONSTANTS
    Requests,       \* connector requests
    Connectors,     \* [subgraph, source] records
    HttpClients,    \* the source keys http_client_service_factory serves
    None

VARIABLES
    conn,           \* the connector of each request
    ctx,            \* the context of each request
    status,         \* "idle", "pending" or "answered"
    answer,         \* the result each request was answered with
    counter         \* apollo.router.operations.connectors

avars == <<conn, ctx, status, answer, counter>>

\* The Error a failed transport call is reported with, or "ok".
Result(kind, service) == [kind |-> kind, service |-> service]

\* connector.id.subgraph_source(): the name the connector is known by.
SubgraphSource(c) == <<c.subgraph, c.source>>

TransportKinds == {"ok", "subrequest_http", "other_fetch", "other"}

\* The results request r may be answered with.
Admissible(r) ==
    LET c == conn[r]
    IN  (IF ctx[r].limits THEN {Result("limit", None)} ELSE {})
        \cup
        (IF c.source \in HttpClients
         THEN {Result(k, None) : k \in TransportKinds \ {"subrequest_http"}}
              \cup {Result("subrequest_http", SubgraphSource(c))}
         ELSE {Result("no_client", None)})

AInit ==
    /\ conn \in [Requests -> Connectors]
    /\ ctx \in [Requests -> [limits : BOOLEAN, event : {"none", "true", "false", "undecided", "unset"}]]
    /\ status = [r \in Requests |-> "idle"]
    /\ answer = [r \in Requests |-> None]
    /\ counter = 0

Submit(r) ==
    /\ status[r] = "idle"
    /\ status' = [status EXCEPT ![r] = "pending"]
    /\ UNCHANGED <<conn, ctx, answer, counter>>

Answer(r) ==
    /\ status[r] = "pending"
    /\ \E res \in Admissible(r) :
         /\ answer' = [answer EXCEPT ![r] = res]
         /\ counter' = IF res.kind = "limit" THEN counter ELSE counter + 1
    /\ status' = [status EXCEPT ![r] = "answered"]
    /\ UNCHANGED <<conn, ctx>>

ANext == \E r \in Requests : Submit(r) \/ Answer(r)

ASpec == AInit /\ [][ANext]_avars /\ \A r \in Requests : WF_avars(Answer(r))
=============================================================================
