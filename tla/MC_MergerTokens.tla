----------------------------- MODULE MC_MergerTokens -----------------------------
(***************************************************************************)
(* Up to three subgraphs with a Query type, and perhaps the link__Purpose *)
(* enum of a subgraph that @links the link spec, whose names are drawn   *)
(* from Names: names that sort differently from their tokens ("Z" < "a" < "_z" *)
(* by byte, tokens "Z", "A", "_Z"), a name whose token is not a GraphQL    *)
(* name ("1a"), and in the collision configuration "a" next to "A".       *)
(***************************************************************************)
EXTENDS Merger

CONSTANT Names

Q == <<"", "Query">>

Field(desc) == [desc |-> desc, args |-> {}, requires |-> None,
                provides |-> None, external |-> FALSE]

QueryType(f) ==
    [kind |-> "object", desc |-> None, keys |-> <<>>, implements |-> <<>>,
     interfaceObject |-> FALSE, fields |-> IMFromSeq(<<<<f, Field(None)>>>>)]

\* The link__Purpose enum of a subgraph that @links the link spec.
LinkPurpose ==
    [kind |-> "enum", desc |-> None,
     values |-> IMFromSeq(<<<<"SECURITY", None>>, <<"EXECUTION", None>>>>)]

SchemaDef == [desc |-> None, query |-> Q, mutation |-> None, subscription |-> None]

MCSubgraphs ==
    {[name |-> n, url |-> <<"url", n>>, schemaDef |-> SchemaDef,
      types |-> IMFromSeq(<<<<Q, QueryType(f)>>>> \o link), directives |-> IMEmpty] :
        n \in Names, f \in {"me", "top"},
        link \in {<<>>, <<<<<<"link__", "Purpose">>, LinkPurpose>>>>}}

\* "Z", "a", "_z", "1a"
DistinctTokenNames == {<<90>>, <<97>>, <<95, 122>>, <<49, 97>>}

\* "a", "A", "b"
CollidingNames == {<<97>>, <<65>>, <<98>>}
=============================================================================
