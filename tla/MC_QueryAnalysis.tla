---------------------------- MODULE MC_QueryAnalysis ----------------------------
(***************************************************************************)
(* Three concurrent requests over: a document whose only operation is the *)
(* query A; a document with the introspection query A and the mutation B; *)
(* an anonymous query; a document that does not validate; and absent or   *)
(* whitespace-only queries.  A request names A, B or no operation.  The   *)
(* cache has two entries so that evictions happen.                        *)
(***************************************************************************)
EXTENDS QueryAnalysis, TLC

CONSTANTS r1, r2, r3, single, multi, anon, bad, ws, absent, A, B, none

MCRequests == {r1, r2, r3}
MCQueries == {single, multi, anon, bad, ws, absent}

Op(name, type, root) == [name |-> name, type |-> type, root |-> root]

MCDocuments ==
    [q \in MCQueries |->
        [valid |-> q \in {single, multi, anon},
         ops |-> CASE q = single -> {Op(A, "query", {"__typename", "field"})}
                   [] q = multi  -> {Op(A, "query", {"__schema"}),
                                     Op(B, "mutation", {"__type", "field"})}
                   [] q = anon   -> {Op(none, "query", {"__type"})}
                   [] OTHER      -> {}]]

Symmetry == Permutations(MCRequests)
=============================================================================
