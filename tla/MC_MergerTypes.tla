----------------------------- MODULE MC_MergerTypes -----------------------------
(***************************************************************************)
(* Two subgraphs named "a" and "b" that each hold one of two families of   *)
(* schemas next to their Query type:                                      *)
(*   entity schemas: the entity Product (keys with or without resolvable, *)
(*     an interface, descriptions, an id field with or without an         *)
(*     argument), a built-in and a federation type, and                   *)
(*     executable or type-system directive definitions;                   *)
(*   abstract schemas: the interface Node (or an @interfaceObject Node),   *)
(*     the enum Status, the union Result and the input Filter, with        *)
(*     overlapping members, values and fields.                            *)
(* Either subgraph may hold a schema of either family, so an entity        *)
(* schema also meets an abstract one.                                      *)
(***************************************************************************)
EXTENDS Merger

Q       == <<"", "Query">>
Product == <<"", "Product">>
Str     == <<"", "String">>
Service == <<"", "_Service">>
Node    == <<"", "Node">>
Status  == <<"", "Status">>
Res     == <<"", "Result">>
Filter  == <<"", "Filter">>

FieldWith(desc, args) == [desc |-> desc, args |-> args, requires |-> None,
                          provides |-> None, external |-> FALSE]

Field(desc) == FieldWith(desc, {})

Object(desc, fields, keys, implements) ==
    [kind |-> "object", desc |-> desc, fields |-> IMFromSeq(fields),
     keys |-> keys, implements |-> implements, interfaceObject |-> FALSE]

Key(words, resolvable) == [fields |-> words, resolvable |-> resolvable]

IdKey == <<Key(<<"id">>, None)>>

QueryType ==
    Object(None, <<<<"product", Field(None)>>, <<"_service", Field(None)>>>>, <<>>, <<>>)

\* ---- entity schemas ----

ProductTypes ==
    {Object(d, fs, ks, is) :
        d \in {"d1", "d2"},
        fs \in {<<<<"id", Field(None)>>>>,
                <<<<"id", FieldWith(None, {"format"})>>, <<"name", Field("n1")>>>>},
        ks \in {<<>>, IdKey, <<Key(<<"id">>, FALSE)>>},
        is \in {<<>>, <<Node>>}}

Directives ==
    {<<<<"cached", [locations |-> {"FIELD"}, shape |-> "s1"]>>>>,
     <<<<"cached", [locations |-> {"FIELD", "OBJECT"}, shape |-> "s2"]>>,
       <<"tag", [locations |-> {"OBJECT"}, shape |-> "s1"]>>>>}

EntitySchemas ==
    {<<<<Str, [kind |-> "scalar", desc |-> None]>>,
       <<Service, [kind |-> "object", desc |-> None, fields |-> IMEmpty, keys |-> <<>>,
                   implements |-> <<>>, interfaceObject |-> FALSE]>>,
       <<Q, QueryType>>, <<Product, p>>>> : p \in ProductTypes}
    \cup {<<<<Q, QueryType>>>>}

\* ---- abstract schemas ----

NodeDefs ==
    {<<>>,
     <<<<Node, [kind |-> "interface", desc |-> None, keys |-> IdKey, implements |-> <<>>,
                fields |-> IMFromSeq(<<<<"id", Field(None)>>>>)]>>>>,
     <<<<Node, [kind |-> "interface", desc |-> None, keys |-> <<>>, implements |-> <<>>,
                fields |-> IMFromSeq(<<<<"id", Field(None)>>, <<"name", Field(None)>>>>)]>>>>,
     <<<<Node, [kind |-> "object", desc |-> None, keys |-> IdKey, implements |-> <<>>,
                interfaceObject |-> TRUE,
                fields |-> IMFromSeq(<<<<"id", Field(None)>>, <<"extra", Field(None)>>>>)]>>>>}

StatusDefs ==
    {<<>>,
     <<<<Status, [kind |-> "enum", desc |-> "d1",
                  values |-> IMFromSeq(<<<<"ACTIVE", None>>>>)]>>>>,
     <<<<Status, [kind |-> "enum", desc |-> "d2",
                  values |-> IMFromSeq(<<<<"RETIRED", "v1">>, <<"ACTIVE", "v2">>>>)]>>>>}

ResultDefs ==
    {<<>>,
     <<<<Res, [kind |-> "union", desc |-> None, members |-> <<Product>>]>>>>,
     <<<<Res, [kind |-> "union", desc |-> None, members |-> <<Node, Product>>]>>>>}

FilterDefs ==
    {<<>>,
     <<<<Filter, [kind |-> "input", desc |-> None,
                  fields |-> IMFromSeq(<<<<"id", Field(None)>>>>)]>>>>}

AbstractSchemas ==
    {nd \o sd \o rd \o fd :
        nd \in NodeDefs, sd \in StatusDefs, rd \in ResultDefs, fd \in FilterDefs}

SchemaDef == [desc |-> None, query |-> Q, mutation |-> None, subscription |-> None]

MCSubgraphs ==
    {[name |-> n, url |-> <<"url", n>>, schemaDef |-> SchemaDef,
      types |-> IMFromSeq(ts), directives |-> IMFromSeq(ds)] :
        n \in {<<97>>, <<98>>}, ts \in EntitySchemas, ds \in Directives}
    \cup
    {[name |-> n, url |-> <<"url", n>>, schemaDef |-> SchemaDef,
      types |-> IMFromSeq(ts), directives |-> IMEmpty] :
        n \in {<<97>>, <<98>>}, ts \in AbstractSchemas}

\* ---- contextArguments items ----

CONSTANT Number   \* a value that is not a string

\* Every input object of up to four fields named from the four and one
\* unknown name, with string or non-string values; the four fields with
\* a fifth inserted anywhere; and a non-object.
ContextPairs == {"name", "type", "context", "selection", "other"} \X {"s", Number}

ContextItems ==
    {[object |-> FALSE]}
    \cup UNION {{[object |-> TRUE, fields |-> fs] : fs \in [1..n -> ContextPairs]} : n \in 0..4}
    \cup {[object |-> TRUE,
           fields |-> InsertAt([i \in 1..4 |-> <<ContextFields[i], "s">>], k, p)] :
             k \in 1..5, p \in ContextPairs}

\* The input field names an item repeats, lacks, does not know, or gives a
\* value that is not a string.
OffendingFields(item) ==
    LET fs == item.fields
        named(n) == {i \in 1..Len(fs) : fs[i][1] = n}
    IN {n \in {fs[i][1] : i \in 1..Len(fs)} : Cardinality(named(n)) > 1}
       \cup ({fs[i][1] : i \in 1..Len(fs)} \ Range(ContextFields))
       \cup {n \in Range(ContextFields) : named(n) = {}}
       \cup {fs[i][1] : i \in {j \in 1..Len(fs) : fs[j][1] \in Range(ContextFields) /\ fs[j][2] \notin STRING}}

\* Every item decodes as spec 4.4 says (a constant, computed once).
ContextItemsDecodeStrictly ==
    \A item \in ContextItems :
        LET r == ContextArgumentTryFrom(item)
        IN /\ r.ok = (item.object /\ OffendingFields(item) = {})
           /\ r.ok => \A i \in 1..Len(item.fields) :
                        r[item.fields[i][1]] = item.fields[i][2]
           /\ ~r.ok /\ item.object => r.field \in OffendingFields(item)

(***************************************************************************)
(* contextArguments decoding (spec 4.4): an item decodes exactly when it  *)
(* is an object with the four fields name, type, context and selection,   *)
(* each once and each a string, and then to those strings; any other      *)
(* object fails with an error naming one of the fields it repeats, lacks, *)
(* does not know, or gives a non-string value.  The decoder reads the     *)
(* supergraph a composition produced, so the property is stated of every  *)
(* composed state; the part over the items is a constant, computed once.  *)
(***************************************************************************)
ContextArgumentsDecodeStrictly == Composed => ContextItemsDecodeStrictly
=============================================================================
