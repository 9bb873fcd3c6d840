------------------------- MODULE MC_ConnectorRequestService -------------------------
(***************************************************************************)
(* Two requests, a Buffer of one slot (so the second waits for the        *)
(* worker), and two connectors of the subgraph "products": one whose      *)
(* source has an HTTP client and one whose source has none.              *)
(***************************************************************************)
EXTENDS ConnectorRequestService

CONSTANTS r1, r2, products, rest, legacy

MCRequests == {r1, r2}

MCConnectors ==
    {[subgraph |-> products, source |-> rest],
     [subgraph |-> products, source |-> legacy]}

MCHttpClients == {rest}
=============================================================================
