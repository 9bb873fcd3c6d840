-------------------------- MODULE ContentNegotiation --------------------------
(***************************************************************************)
(* Content negotiation of apollo-router/src/services/layers/              *)
(* content_negotiation.rs: the router-service layer that rejects a request *)
(* with 415 or 406 or records the parsed Accept header                    *)
(* (ClientRequestAccepts) in the context, and the supergraph-service      *)
(* layer that reads it back to set the first response's Content-Type.     *)
(*                                                                         *)
(* A header value is [valid, items]: valid is FALSE when                 *)
(* HeaderValue::to_str fails; items is the sequence of its media-type     *)
(* list, each a media type [ty, subty, suffix, param] or Malformed (an   *)
(* Err item of the list).                                                  *)
(***************************************************************************)
EXTENDS Naturals, Sequences, SequencesExt, FiniteSets

CONSTANTS
    Requests,   \* [method, contentType : Seq(value), accept : Seq(value), op]
    None

VARIABLES
    req,          \* the request
    stage,        \* "router", "service", "response", "done"
    accepts,      \* ClientRequestAccepts in the context extensions, or None
    hasNext,      \* has_next of the first GraphQL response
    status,       \* HTTP status of the response
    contentType   \* its Content-Type header, or None

vars == <<req, stage, accepts, hasNext, status, contentType>>

JsonCT == "application/json"
DeferCT == "multipart/mixed;boundary=\"graphql\";deferSpec=20220824"
SubscriptionCT == "multipart/mixed;boundary=\"graphql\";subscriptionSpec=1.0"

\* An item of a media-type list that does not parse.
Malformed == [ty |-> "", subty |-> "", suffix |-> None, param |-> ""]

\* The well-formed media types of the values that are valid strings.
MediaTypesOf(values) ==
    UNION {ToSet(v.items) : v \in {v \in ToSet(values) : v.valid}} \ {Malformed}

\* application/json or application/graphql-response+json
IsJsonType(m) ==
    \/ m.ty = "application" /\ m.subty = "json"
    \/ m.ty = "application" /\ m.subty = "graphql-response" /\ m.suffix = "json"

\* content_type_is_json
ContentTypeIsJson(values) == \E m \in MediaTypesOf(values) : IsJsonType(m)

IsMixed(m) == m.ty = "multipart" /\ m.subty = "mixed"

\* Mutant: header_present only set for values that are valid strings.
ParseAcceptPresentIfValid(values) ==
    LET ms == MediaTypesOf(values)
    IN [json |-> (\E m \in ms : IsJsonType(m))
                 \/ \A i \in 1..Len(values) : ~values[i].valid,
        wildcard |-> \E m \in ms : m.ty = "*" /\ m.subty = "*",
        multipart_defer |-> \E m \in ms : IsMixed(m) /\ m.param = "deferSpec=20220824",
        multipart_subscription |-> \E m \in ms : IsMixed(m) /\ m.param = "subscriptionSpec=1.0"]

\* parse_accept: each flag set by some media type of some Accept value;
\* no Accept header at all means JSON.
ParseAccept(values) ==
    LET ms == MediaTypesOf(values)
    IN [json |-> (\E m \in ms : IsJsonType(m)) \/ values = <<>>,
        wildcard |-> \E m \in ms : m.ty = "*" /\ m.subty = "*",
        multipart_defer |-> \E m \in ms : IsMixed(m) /\ m.param = "deferSpec=20220824",
        multipart_subscription |-> \E m \in ms : IsMixed(m) /\ m.param = "subscriptionSpec=1.0"]

AcceptsAnything(a) == a.wildcard \/ a.multipart_defer \/ a.multipart_subscription \/ a.json

Init ==
    /\ req \in Requests
    /\ stage = "router"
    /\ accepts = None
    /\ hasNext = None
    /\ status = None
    /\ contentType = None

\* Mutant: an unacceptable Accept header answered 400 instead of 406.
RouterCheckpointBadRequest ==
    /\ stage = "router"
    /\ IF req.method # "GET" /\ ~ContentTypeIsJson(req.contentType)
       THEN /\ status' = 415
            /\ contentType' = JsonCT
            /\ stage' = "done"
            /\ UNCHANGED accepts
       ELSE LET a == ParseAccept(req.accept) IN
            IF AcceptsAnything(a)
            THEN /\ accepts' = a
                 /\ stage' = "service"
                 /\ UNCHANGED <<status, contentType>>
            ELSE /\ status' = 400
                 /\ contentType' = JsonCT
                 /\ stage' = "done"
                 /\ UNCHANGED accepts
    /\ UNCHANGED <<req, hasNext>>

(***************************************************************************)
(* RouterLayer's checkpoint: a non-GET request without a JSON             *)
(* Content-Type is answered 415; otherwise the Accept header is parsed    *)
(* and the request continues with it in the context, or is answered 406 *)
(* when it accepts nothing the router can send.                           *)
(***************************************************************************)
RouterCheckpoint ==
    /\ stage = "router"
    /\ IF req.method # "GET" /\ ~ContentTypeIsJson(req.contentType)
       THEN /\ status' = 415
            /\ contentType' = JsonCT
            /\ stage' = "done"
            /\ UNCHANGED accepts
       ELSE LET a == ParseAccept(req.accept) IN
            IF AcceptsAnything(a)
            THEN /\ accepts' = a
                 /\ stage' = "service"
                 /\ UNCHANGED <<status, contentType>>
            ELSE /\ status' = 406
                 /\ contentType' = JsonCT
                 /\ stage' = "done"
                 /\ UNCHANGED accepts
    /\ UNCHANGED <<req, hasNext>>

(***************************************************************************)
(* The supergraph service between the two layers (not in this file): it   *)
(* streams (has_next) a @defer response only to a client that accepts the *)
(* defer multipart format, a subscription only to one that accepts the    *)
(* subscription format; any other response is a single one.              *)
(***************************************************************************)
ServiceResponds ==
    /\ stage = "service"
    /\ \E hn \in BOOLEAN :
          /\ hn => \/ req.op = "defer" /\ accepts.multipart_defer
                   \/ req.op = "subscription" /\ accepts.multipart_subscription
          /\ hasNext' = hn
    /\ stage' = "response"
    /\ UNCHANGED <<req, accepts, status, contentType>>

\* ClientRequestAccepts read back from the context, default all false.
ContextAccepts ==
    IF accepts = None
    THEN [json |-> FALSE, wildcard |-> FALSE, multipart_defer |-> FALSE,
          multipart_subscription |-> FALSE]
    ELSE accepts

\* Mutant: a single response gets JSON whatever the client accepts.
SetContentTypeJsonByDefault ==
    /\ stage = "response"
    /\ LET a == ContextAccepts IN
         contentType' =
            CASE ~hasNext -> JsonCT
              [] a.multipart_defer -> DeferCT
              [] a.multipart_subscription -> SubscriptionCT
              [] OTHER -> None
    /\ status' = 200
    /\ stage' = "done"
    /\ UNCHANGED <<req, accepts, hasNext>>

\* Mutant: the has_next test dropped.
SetContentTypeIgnoringHasNext ==
    /\ stage = "response"
    /\ LET a == ContextAccepts IN
         contentType' =
            CASE a.json \/ a.wildcard -> JsonCT
              [] a.multipart_defer -> DeferCT
              [] a.multipart_subscription -> SubscriptionCT
              [] OTHER -> None
    /\ status' = 200
    /\ stage' = "done"
    /\ UNCHANGED <<req, accepts, hasNext>>

(***************************************************************************)
(* SupergraphLayer on the first response: JSON for a single response to a *)
(* client that accepts JSON or anything, else the defer multipart type,   *)
(* else the subscription multipart type, else no Content-Type.            *)
(***************************************************************************)
SetContentType ==
    /\ stage = "response"
    /\ LET a == ContextAccepts IN
         contentType' =
            CASE ~hasNext /\ (a.json \/ a.wildcard) -> JsonCT
              [] a.multipart_defer -> DeferCT
              [] a.multipart_subscription -> SubscriptionCT
              [] OTHER -> None
    /\ status' = 200
    /\ stage' = "done"
    /\ UNCHANGED <<req, accepts, hasNext>>

Next == RouterCheckpoint \/ ServiceResponds \/ SetContentType

Spec == Init /\ [][Next]_vars

-----------------------------------------------------------------------------
MediaTypeRec == [ty : STRING, subty : STRING, suffix : STRING \cup {None}, param : STRING]
Flags == [json : BOOLEAN, wildcard : BOOLEAN, multipart_defer : BOOLEAN,
          multipart_subscription : BOOLEAN]

TypeOK ==
    /\ req \in Requests
    /\ stage \in {"router", "service", "response", "done"}
    /\ accepts \in Flags \cup {None}
    /\ hasNext \in BOOLEAN \cup {None}
    /\ status \in {None, 200, 406, 415}
    /\ contentType \in {None, JsonCT, DeferCT, SubscriptionCT}

\* Whether the client's Accept header admits a response Content-Type, by
\* HTTP media-range matching: */* admits everything, the two JSON types
\* admit JSON, multipart/mixed with a spec parameter admits that multipart
\* format.  No Accept header admits anything.
Admits(m, ct) ==
    \/ m.ty = "*" /\ m.subty = "*"
    \/ /\ ct = JsonCT
       /\ m.ty = "application"
       /\ \/ m.subty = "json"
          \/ m.subty = "graphql-response" /\ m.suffix = "json"
    \/ ct = DeferCT /\ m.ty = "multipart" /\ m.subty = "mixed" /\ m.param = "deferSpec=20220824"
    \/ ct = SubscriptionCT /\ m.ty = "multipart" /\ m.subty = "mixed" /\ m.param = "subscriptionSpec=1.0"

ClientAdmits(ct) ==
    \/ req.accept = <<>>
    \/ \E m \in MediaTypesOf(req.accept) : Admits(m, ct)

\* The router can answer a request in some Content-Type the client admits.
Answerable == \E ct \in {JsonCT, DeferCT, SubscriptionCT} : ClientAdmits(ct)

(***************************************************************************)
(* RouterLayer answers 415 exactly to a non-GET request none of whose     *)
(* well-formed Content-Type values is a JSON type, and 406 exactly to a   *)
(* remaining request whose Accept headers are present but admit nothing   *)
(* the router sends; non-ASCII values and malformed list items count as   *)
(* absent, while a header made only of them still counts as present.     *)
(***************************************************************************)
RejectionStatus ==
    stage = "done" =>
        /\ (status = 415) = (req.method # "GET"
                              /\ ~\E m \in MediaTypesOf(req.contentType) : IsJsonType(m))
        /\ (status = 406) = (status # 415 /\ ~Answerable)

(***************************************************************************)
(* A response that passed the RouterLayer gets, from the SupergraphLayer, *)
(* a Content-Type the client's Accept header admits: a JSON body is only  *)
(* labelled JSON for a client that takes JSON or */*, and a multipart     *)
(* label only goes to a client that asked for that multipart format.  A   *)
(* streamed first response (has_next) is never labelled as a single JSON *)
(* document.  The label is chosen from what the RouterLayer stored, not   *)
(* from the response, so both halves depend on the two layers agreeing.  *)
(***************************************************************************)
ContentTypeAcceptable ==
    (stage = "done" /\ status = 200) =>
        /\ contentType # None
        /\ ClientAdmits(contentType)
        /\ hasNext = TRUE => contentType \in {DeferCT, SubscriptionCT}

=============================================================================
