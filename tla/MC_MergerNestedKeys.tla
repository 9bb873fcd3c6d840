--------------------------- MODULE MC_MergerNestedKeys ---------------------------
(***************************************************************************)
(* Subgraphs "a" and "b" whose entity Product has the fields id, owner    *)
(* and name and is keyed by id or by the nested selection                 *)
(* "owner { name }", whose word "name" is not a top-level field.           *)
(***************************************************************************)
EXTENDS Merger

Product == <<"", "Product">>
Q == <<"", "Query">>

Field(desc) == [desc |-> desc, args |-> {}, requires |-> None,
                provides |-> None, external |-> FALSE]

Key(words) == [fields |-> words, resolvable |-> None]

ProductType(keys) ==
    [kind |-> "object", desc |-> None, keys |-> keys, implements |-> <<>>,
     interfaceObject |-> FALSE,
     fields |-> IMFromSeq(<<<<"id", Field(None)>>, <<"owner", Field(None)>>,
                            <<"name", Field(None)>>>>)]

Keys == {<<Key(<<"id">>)>>, <<Key(<<"owner", "{", "name", "}">>)>>}

SchemaDef == [desc |-> None, query |-> Q, mutation |-> None, subscription |-> None]

MCSubgraphs ==
    {[name |-> n, url |-> <<"url", n>>, schemaDef |-> SchemaDef,
      types |-> IMFromSeq(<<<<Product, ProductType(ks)>>>>), directives |-> IMEmpty] :
        n \in {<<97>>, <<98>>}, ks \in Keys}
=============================================================================
