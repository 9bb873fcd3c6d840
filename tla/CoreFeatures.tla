----------------------------- MODULE CoreFeatures -----------------------------
(***************************************************************************)
(* The supergraph skeleton that merge.rs installs before any subgraph is  *)
(* merged: add_core_feature_link and add_core_feature_join, with the      *)
(* directive definitions they insert and the join__Graph enum built from *)
(* the (subgraph, token) pairs.                                            *)
(*                                                                         *)
(* A supergraph is [schemaDef, types, directiveDefs]: the schema          *)
(* definition (description, root operation types, applied directives),  *)
(* the IndexMap of types and the IndexMap of directive definitions.  A    *)
(* directive definition keeps its argument names, locations and whether   *)
(* it is repeatable; argument types and descriptions are left out.        *)
(***************************************************************************)
EXTENDS TypeMergers

LinkPurposeName == <<"link__", "Purpose">>
LinkImportName  == <<"link__", "Import">>
JoinFieldSetName == <<"join__", "FieldSet">>
JoinGraphName   == <<"join__", "Graph">>

BootstrapTypeNames ==
    {LinkPurposeName, LinkImportName, JoinFieldSetName, JoinGraphName}

DirectiveDef(args, locations, repeatable) ==
    [args |-> args, locations |-> locations, repeatable |-> repeatable]

\* link_directive_definition
LinkDirectiveDefinition ==
    DirectiveDef(<<"url", "as", "for", "import">>, {"SCHEMA"}, TRUE)

\* link_purpose_enum_type: SECURITY then EXECUTION, each described.
LinkPurposeEnumType ==
    [MergedType("enum", None, IMEmpty, <<>>) EXCEPT
        !.values = IMFromSeq(<<<<"SECURITY", [desc |-> "security_doc", directives |-> <<>>]>>,
                               <<"EXECUTION", [desc |-> "execution_doc", directives |-> <<>>]>>>>)]

Scalar == MergedType("scalar", None, IMEmpty, <<>>)

\* The @link applications on the schema definition.
LinkApplied(url, for) == [name |-> "link", url |-> url, for |-> for]

\* add_core_feature_link
AddCoreFeatureLink(sg) ==
    [sg EXCEPT !.schemaDef.directives = Append(@, LinkApplied("link/v1.0", None)),
               !.types = IMPut(IMPut(@, LinkPurposeName, LinkPurposeEnumType),
                               LinkImportName, Scalar),
               !.directiveDefs = IMPut(@, "link", LinkDirectiveDefinition)]

(***************************************************************************)
(* The six join directive definitions, in insertion order.                 *)
(***************************************************************************)
JoinGraphDirectiveDefinition ==
    DirectiveDef(<<"name", "url">>, {"ENUM_VALUE"}, FALSE)

JoinTypeDirectiveDefinition ==
    DirectiveDef(<<"graph", "key", "extension", "resolvable", "isInterfaceObject">>,
                 {"ENUM", "INPUT_OBJECT", "INTERFACE", "OBJECT", "SCALAR", "UNION"},
                 TRUE)

JoinFieldDirectiveDefinition ==
    DirectiveDef(<<"graph", "requires", "provides", "type", "external",
                   "override", "usedOverridden">>,
                 {"FIELD_DEFINITION", "INPUT_FIELD_DEFINITION"}, TRUE)

JoinImplementsDirectiveDefinition ==
    DirectiveDef(<<"graph", "interface">>, {"INTERFACE", "OBJECT"}, TRUE)

JoinUnionMemberDirectiveDefinition ==
    DirectiveDef(<<"graph", "member">>, {"UNION"}, TRUE)

JoinEnumValueDirectiveDefinition ==
    DirectiveDef(<<"graph">>, {"ENUM_VALUE"}, TRUE)

JoinDirectiveDefinitions ==
    <<<<"join__graph", JoinGraphDirectiveDefinition>>,
      <<"join__type", JoinTypeDirectiveDefinition>>,
      <<"join__field", JoinFieldDirectiveDefinition>>,
      <<"join__implements", JoinImplementsDirectiveDefinition>>,
      <<"join__unionMember", JoinUnionMemberDirectiveDefinition>>,
      <<"join__enumValue", JoinEnumValueDirectiveDefinition>>>>

\* join_graph_enum_type: one value per (subgraph, token) pair, inserted
\* under the token; a repeated token replaces the earlier value in place.
JoinGraphEnumType(pairs) ==
    [MergedType("enum", None, IMEmpty, <<>>) EXCEPT
        !.values = IMFromSeq(
            [i \in 1..Len(pairs) |->
               <<pairs[i].token,
                 [desc |-> None,
                  directives |-> <<[name |-> "join__graph",
                                    args |-> <<Arg("name", pairs[i].sg.name),
                                               Arg("url", pairs[i].sg.url)>>]>>]>>])]

\* add_core_feature_join
AddCoreFeatureJoin(sg, pairs) ==
    [sg EXCEPT !.schemaDef.directives = Append(@, LinkApplied("join/v0.3", "EXECUTION")),
               !.types = IMPut(IMPut(@, JoinFieldSetName, Scalar),
                               JoinGraphName, JoinGraphEnumType(pairs)),
               !.directiveDefs =
                   FoldLeft(LAMBDA m, p : IMPut(m, p[1], p[2]), @,
                            JoinDirectiveDefinitions)]

\* Schema::new()
EmptySchema ==
    [schemaDef |-> [desc |-> None, query |-> None, mutation |-> None,
                    subscription |-> None, directives |-> <<>>],
     types |-> IMEmpty, directiveDefs |-> IMEmpty]

CoreSchema(pairs) == AddCoreFeatureJoin(AddCoreFeatureLink(EmptySchema), pairs)
(***************************************************************************)
(* How a reader finds the join spec's definitions in a supergraph:        *)
(* JoinSpecDefinition's accessors (link/join_spec_definition.rs), for the *)
(* join versions JOIN_VERSIONS knows.  A version is <<major, minor>>.     *)
(* The accessors return Ok(definition), or Ok(None) for a definition the  *)
(* version predates, or an Internal error when the schema lacks it.      *)
(***************************************************************************)
JoinVersions == {<<0, 1>>, <<0, 2>>, <<0, 3>>, <<0, 4>>, <<0, 5>>}

\* Version's ordering: by major, then minor.
VersionLess(a, b) == a[1] < b[1] \/ (a[1] = b[1] /\ a[2] < b[2])

\* SpecDefinition::directive_definition and type_definition: the element
\* under the spec's default prefix join__, if the schema has it.
JoinDirectiveDefinitionNamed(sg, n) ==
    IF IMHas(sg.directiveDefs, "join__" \o n)
    THEN [some |-> TRUE, def |-> IMGet(sg.directiveDefs, "join__" \o n)]
    ELSE [some |-> FALSE]

JoinTypeDefinitionNamed(sg, n) ==
    IF IMHas(sg.types, <<"join__", n>>)
    THEN [some |-> TRUE, def |-> IMGet(sg.types, <<"join__", n>>)]
    ELSE [some |-> FALSE]

InternalError == [ok |-> FALSE]
Found(d) == [ok |-> TRUE, def |-> d]

\* .ok_or_else(|| SingleFederationError::Internal { .. })
RequiredDefinition(lookup) == IF lookup.some THEN Found(lookup.def) ELSE InternalError

\* graph_enum_definition: the join__Graph type, which must be an enum.
GraphEnumDefinition(sg) ==
    LET t == JoinTypeDefinitionNamed(sg, "Graph")
    IN IF t.some /\ t.def.kind = "enum" THEN Found(t.def) ELSE InternalError

GraphDirectiveDefinition(sg) == RequiredDefinition(JoinDirectiveDefinitionNamed(sg, "graph"))
TypeDirectiveDefinition(sg) == RequiredDefinition(JoinDirectiveDefinitionNamed(sg, "type"))
FieldDirectiveDefinition(sg) == RequiredDefinition(JoinDirectiveDefinitionNamed(sg, "field"))

\* A definition introduced by version `since`: Ok(None) for an older one.
GatedDefinition(v, since, sg, n) ==
    IF VersionLess(v, since) THEN Found(None)
    ELSE RequiredDefinition(JoinDirectiveDefinitionNamed(sg, n))

ImplementsDirectiveDefinition(v, sg) == GatedDefinition(v, <<0, 2>>, sg, "implements")

\* Mutant: the gate written `<=`, so v0.3 itself has no @join__unionMember.
UnionMemberDirectiveDefinitionAtOrBelow(v, sg) ==
    IF VersionLess(v, <<0, 3>>) \/ v = <<0, 3>> THEN Found(None)
    ELSE RequiredDefinition(JoinDirectiveDefinitionNamed(sg, "unionMember"))

UnionMemberDirectiveDefinition(v, sg) == GatedDefinition(v, <<0, 3>>, sg, "unionMember")
EnumValueDirectiveDefinition(v, sg) == GatedDefinition(v, <<0, 3>>, sg, "enumValue")
=============================================================================
