-------------------------------- MODULE Merger --------------------------------
(***************************************************************************)
(* Merger::merge of apollo-federation/src/merge.rs: one composition call, *)
(* one step per statement group of its loops.                              *)
(*                                                                         *)
(*   DeriveTokens        sort by name, one token per subgraph (52-64)     *)
(*   AbortOnTokenErrors  early return without a schema (65-71)            *)
(*   Bootstrap           link and join core features (73-79)              *)
(*   MergeSchema         root operation types of one subgraph (83)        *)
(*   Merge<Kind> / SkipType   one type of that subgraph (86-127)          *)
(*   MergeDirectives     its executable directive definitions (129-134)  *)
(*   Finish              packaging of the result (137-148)                *)
(*                                                                         *)
(* The call is synchronous and single-threaded: the only freedom is the   *)
(* input, chosen in Init from the subgraph pool Subgraphs, in any caller *)
(* order, with pairwise distinct names.                                    *)
(***************************************************************************)
EXTENDS CoreFeatures

CONSTANTS
    Subgraphs,      \* pool of subgraphs a caller may pass
    MaxSubgraphs    \* bound on the number of subgraphs of one call

ASSUME MaxSubgraphs \in Nat

VARIABLES
    input,       \* the Vec<&Subgraph> argument, in caller order
    pc,          \* the statement of merge() about to run
    sorted,      \* subgraphs_and_enum_values: Seq of [sg, token]
    errors,      \* self.errors (every entry is the same message: a count)
    hints,       \* self.composition_hints (a count)
    supergraph,  \* the Schema under construction
    sgIdx,       \* index in sorted of the subgraph being merged
    typeQueue,   \* names of that subgraph's types not yet visited
    result       \* None until merge() returns, then its Result

vars == <<input, pc, sorted, errors, hints, supergraph, sgIdx, typeQueue, result>>

(***************************************************************************)
(* Names.  A subgraph name is a sequence of character codes.               *)
(***************************************************************************)
\* str::to_uppercase on the modelled (ASCII) alphabet
ToUppercase(s) == [i \in DOMAIN s |-> IF s[i] \in 97..122 THEN s[i] - 32 ELSE s[i]]

IsNameStart(c) == c \in (65..90) \cup (97..122) \cup {95}

\* Name::new accepts a GraphQL name: /[_A-Za-z][_0-9A-Za-z]*/
IsValidName(s) ==
    /\ Len(s) > 0
    /\ IsNameStart(s[1])
    /\ \A i \in 2..Len(s) : IsNameStart(s[i]) \/ s[i] \in 48..57

\* String::cmp: byte-wise lexicographic order
RECURSIVE LexLess(_, _)
LexLess(a, b) ==
    IF a = <<>> \/ b = <<>> THEN a = <<>> /\ b # <<>>
    ELSE IF a[1] # b[1] THEN a[1] < b[1]
    ELSE LexLess(Tail(a), Tail(b))

(***************************************************************************)
(* Type-name and directive filters.                                        *)
(***************************************************************************)
BuiltInTypeNames ==
    {<<"", n>> : n \in {"String", "Int", "Float", "Boolean", "ID", "__Schema",
                        "__Type", "__Field", "__InputValue", "__EnumValue",
                        "__Directive", "__TypeKind", "__DirectiveLocation"}}

FederationTypes == {<<"", n>> : n \in {"_Any", "_Entity", "_Service", "@key"}}

\* Mutant: only federation__ names are filtered, not link__ ones.
IsMergeableTypeFederationOnly(n) ==
    /\ n[1] # "federation__"
    /\ n \notin FederationTypes

\* is_mergeable_type
IsMergeableType(n) ==
    /\ n[1] \notin {"federation__", "link__"}
    /\ n \notin FederationTypes

ExecutableDirectiveLocations ==
    {"QUERY", "MUTATION", "SUBSCRIPTION", "FIELD", "FRAGMENT_DEFINITION",
     "FRAGMENT_SPREAD", "INLINE_FRAGMENT", "VARIABLE_DEFINITION"}

\* is_executable_directive
IsExecutableDirective(d) == d.locations \cap ExecutableDirectiveLocations # {}

\* Mutant: a later definition replaces the earlier one.
MergeDirectiveLastWriter(defs, name, d) == IMPut(defs, name, d)

\* merge_directive: insert unless a definition of that name exists.
MergeDirective(defs, name, d) == IMOrInsert(defs, name, d)

(***************************************************************************)
(* Inputs: the calls a caller can make.                                    *)
(***************************************************************************)
Inputs ==
    UNION {{s \in [1..n -> Subgraphs] :
               \A i, j \in 1..n : i # j => s[i].name # s[j].name}
           : n \in 0..MaxSubgraphs}

Init ==
    /\ input \in Inputs
    /\ pc = "start"
    /\ sorted = <<>>
    /\ errors = 0
    /\ hints = 0
    /\ supergraph = EmptySchema
    /\ sgIdx = 0
    /\ typeQueue = <<>>
    /\ result = None

(***************************************************************************)
(* subgraphs.sort_by(name); for each, Name::new(name.to_uppercase()):    *)
(* keep the pair, or push an error.                                        *)
(***************************************************************************)
\* Mutant: the name itself used as the token, to_uppercase forgotten.
DeriveTokensRawName ==
    /\ pc = "start"
    /\ LET s == SortSeq(input, LAMBDA a, b : LexLess(a.name, b.name))
           ok == SelectSeq(s, LAMBDA g : IsValidName(g.name))
       IN /\ sorted' = [i \in 1..Len(ok) |-> [sg |-> ok[i], token |-> ok[i].name]]
          /\ errors' = errors + (Len(s) - Len(ok))
    /\ pc' = "checkErrors"
    /\ UNCHANGED <<input, hints, supergraph, sgIdx, typeQueue, result>>

\* Mutant: Name::new's error ignored, every subgraph kept.
DeriveTokensNoValidation ==
    /\ pc = "start"
    /\ LET s == SortSeq(input, LAMBDA a, b : LexLess(a.name, b.name))
       IN sorted' = [i \in 1..Len(s) |-> [sg |-> s[i], token |-> ToUppercase(s[i].name)]]
    /\ pc' = "checkErrors"
    /\ UNCHANGED <<input, errors, hints, supergraph, sgIdx, typeQueue, result>>

\* Mutant: subgraphs sorted by token instead of by name.
DeriveTokensSortByToken ==
    /\ pc = "start"
    /\ LET s == SortSeq(input, LAMBDA a, b : LexLess(ToUppercase(a.name), ToUppercase(b.name)))
           ok == SelectSeq(s, LAMBDA g : IsValidName(ToUppercase(g.name)))
       IN /\ sorted' = [i \in 1..Len(ok) |->
                          [sg |-> ok[i], token |-> ToUppercase(ok[i].name)]]
          /\ errors' = errors + (Len(s) - Len(ok))
    /\ pc' = "checkErrors"
    /\ UNCHANGED <<input, hints, supergraph, sgIdx, typeQueue, result>>

DeriveTokens ==
    /\ pc = "start"
    /\ LET s == SortSeq(input, LAMBDA a, b : LexLess(a.name, b.name))
           ok == SelectSeq(s, LAMBDA g : IsValidName(ToUppercase(g.name)))
       IN /\ sorted' = [i \in 1..Len(ok) |->
                          [sg |-> ok[i], token |-> ToUppercase(ok[i].name)]]
          /\ errors' = errors + (Len(s) - Len(ok))
    /\ pc' = "checkErrors"
    /\ UNCHANGED <<input, hints, supergraph, sgIdx, typeQueue, result>>

\* if !self.errors.is_empty(): return Err(MergeFailure { schema: None, .. })
AbortOnTokenErrors ==
    /\ pc = "checkErrors"
    /\ errors # 0
    /\ result' = [ok |-> FALSE, schema |-> None, errors |-> errors, hints |-> hints]
    /\ pc' = "done"
    /\ UNCHANGED <<input, sorted, errors, hints, supergraph, sgIdx, typeQueue>>

Bootstrap ==
    /\ pc = "checkErrors"
    /\ errors = 0
    /\ supergraph' = CoreSchema(sorted)
    /\ sgIdx' = 1
    /\ pc' = "mergeSchema"
    /\ UNCHANGED <<input, sorted, errors, hints, typeQueue, result>>

Current == sorted[sgIdx]

(***************************************************************************)
(* merge_schema: description merged, each root operation type the         *)
(* subgraph defines overwrites the supergraph's (last writer wins).       *)
(***************************************************************************)
MergeSchema ==
    /\ pc = "mergeSchema"
    /\ sgIdx <= Len(sorted)
    /\ LET sd == Current.sg.schemaDef
           root(old, new) == IF new # None THEN new ELSE old
       IN /\ supergraph' = [supergraph EXCEPT
                 !.schemaDef.desc = MergeDesc(@, sd.desc),
                 !.schemaDef.query = root(@, sd.query),
                 !.schemaDef.mutation = root(@, sd.mutation),
                 !.schemaDef.subscription = root(@, sd.subscription)]
          /\ hints' = hints + HintIf(DescConflict(supergraph.schemaDef.desc, sd.desc))
    /\ typeQueue' = Current.sg.types.order
    /\ pc' = "mergeTypes"
    /\ UNCHANGED <<input, sorted, errors, sgIdx, result>>

(***************************************************************************)
(* One iteration of the loop over subgraph.schema.types.                   *)
(***************************************************************************)
TypeName == Head(typeQueue)
TypeDef == Current.sg.types.val[TypeName]

Dispatched(kind) ==
    /\ pc = "mergeTypes"
    /\ typeQueue # <<>>
    /\ TypeName \notin BuiltInTypeNames
    /\ IsMergeableType(TypeName)
    /\ TypeDef.kind = kind

\* Apply a merger's result and move to the next type.
ApplyMerge(r) ==
    /\ supergraph' = [supergraph EXCEPT !.types = r.types]
    /\ hints' = hints + r.hints
    /\ typeQueue' = Tail(typeQueue)
    /\ UNCHANGED <<input, pc, sorted, errors, sgIdx, result>>

\* built-ins and federation types are skipped; scalars: DO NOTHING
SkipType ==
    /\ pc = "mergeTypes"
    /\ typeQueue # <<>>
    /\ \/ TypeName \in BuiltInTypeNames
       \/ ~IsMergeableType(TypeName)
       \/ TypeDef.kind = "scalar"
    /\ typeQueue' = Tail(typeQueue)
    /\ UNCHANGED <<input, pc, sorted, errors, hints, supergraph, sgIdx, result>>

MergeEnum ==
    /\ Dispatched("enum")
    /\ ApplyMerge(MergeEnumType(supergraph.types, Current.token, TypeName, TypeDef))

MergeInputObject ==
    /\ Dispatched("input")
    /\ ApplyMerge(MergeInputObjectType(supergraph.types, Current.token, TypeName, TypeDef))

MergeInterface ==
    /\ Dispatched("interface")
    /\ ApplyMerge(MergeInterfaceType(supergraph.types, Current.token, TypeName, TypeDef))

MergeObject ==
    /\ Dispatched("object")
    /\ ApplyMerge(MergeObjectType(supergraph.types, Current.token, TypeName, TypeDef))

MergeUnion ==
    /\ Dispatched("union")
    /\ ApplyMerge(MergeUnionType(supergraph.types, Current.token, TypeName, TypeDef))

(***************************************************************************)
(* The executable directive definitions of the subgraph, first writer     *)
(* wins; then the next subgraph.                                           *)
(***************************************************************************)
MergeDirectives ==
    /\ pc = "mergeTypes"
    /\ typeQueue = <<>>
    /\ LET ds == Current.sg.directives
           exec == SelectSeq(ds.order, LAMBDA d : IsExecutableDirective(ds.val[d]))
       IN supergraph' = [supergraph EXCEPT !.directiveDefs =
                           FoldLeft(LAMBDA m, d : MergeDirective(m, d, ds.val[d]),
                                    @, exec)]
    /\ sgIdx' = sgIdx + 1
    /\ pc' = "mergeSchema"
    /\ UNCHANGED <<input, sorted, errors, hints, typeQueue, result>>

\* Ok(MergeSuccess) if no error was pushed, else Err(MergeFailure(Some)).
Finish ==
    /\ pc = "mergeSchema"
    /\ sgIdx > Len(sorted)
    /\ result' = [ok |-> errors = 0, schema |-> supergraph,
                  errors |-> errors, hints |-> hints]
    /\ pc' = "done"
    /\ UNCHANGED <<input, sorted, errors, hints, supergraph, sgIdx, typeQueue>>

Next ==
    \/ DeriveTokens
    \/ AbortOnTokenErrors
    \/ Bootstrap
    \/ MergeSchema
    \/ SkipType
    \/ MergeEnum
    \/ MergeInputObject
    \/ MergeInterface
    \/ MergeObject
    \/ MergeUnion
    \/ MergeDirectives
    \/ Finish

\* merge() runs to completion on the calling thread: every enabled
\* statement eventually runs.
Spec == Init /\ [][Next]_vars /\ WF_vars(Next)

(***************************************************************************)
(* Properties                                                              *)
(***************************************************************************)
Kinds == {"object", "interface", "union", "enum", "input", "scalar"}

Tokens == {p.token : p \in ToSet(sorted)}

MergedTypes == IMKeys(supergraph.types) \ BootstrapTypeNames

TypeOK ==
    /\ input \in Inputs
    /\ pc \in {"start", "checkErrors", "mergeSchema", "mergeTypes", "done"}
    /\ errors \in 0..MaxSubgraphs
    /\ hints \in Nat
    /\ sgIdx \in 0..Len(sorted) + 1
    \* every token is a legal GraphQL name and a subgraph's uppercased name
    /\ \A i \in 1..Len(sorted) :
          /\ IsValidName(sorted[i].token)
          /\ sorted[i].token = ToUppercase(sorted[i].sg.name)
          /\ sorted[i].sg \in ToSet(input)
    /\ \A t \in IMKeys(supergraph.types) :
          /\ supergraph.types.val[t].kind \in Kinds
          /\ \A i \in 1..Len(supergraph.types.val[t].directives) :
                JoinGraphOf(supergraph.types.val[t].directives[i]) \in Tokens
    /\ ToSet(supergraph.types.order) = IMKeys(supergraph.types)
    /\ result \in {None} \cup [ok : BOOLEAN, schema : {None, supergraph},
                               errors : Nat, hints : Nat]

(***************************************************************************)
(* The composed supergraph, read against the subgraphs that produced it.  *)
(***************************************************************************)
Composed == pc = "done" /\ result.schema # None

Defines(p, t) == t \in IMKeys(p.sg.types)

DefOf(p, t) == p.sg.types.val[t]

KindOf(t) == supergraph.types.val[t].kind

KeysOf(def) == IF def.kind \in {"object", "interface"} THEN def.keys ELSE <<>>

\* The subgraphs that define t as the kind it was composed as.
SameKindDefiners(t) ==
    {i \in 1..Len(sorted) : Defines(sorted[i], t) /\ DefOf(sorted[i], t).kind = KindOf(t)}

\* The decoded @join__type arguments of t for graph g.
JoinTypesOf(t, g) ==
    DecodeSeq(SelectSeq(supergraph.types.val[t].directives,
                        LAMBDA d : d.name = "join__type" /\ JoinGraphOf(d) = g))

\* The @join__type directives spec 3 and 6 give subgraph p's definition of
\* t: one per @key, with its field set and resolvable unless the key says
\* resolvable: false, or one with the graph alone; isInterfaceObject when
\* an object is folded into an interface.  None when p lacks t or defines
\* it as another kind.
SpecJoinTypes(p, t, isIO) ==
    LET keys == KeysOf(DefOf(p, t))
    IN IF keys = <<>>
       THEN <<[graph |-> p.token, key |-> None, extension |-> FALSE,
               resolvable |-> TRUE, isInterfaceObject |-> isIO]>>
       ELSE [k \in 1..Len(keys) |->
               [graph |-> p.token, key |-> keys[k].fields, extension |-> FALSE,
                resolvable |-> keys[k].resolvable # FALSE, isInterfaceObject |-> isIO]]

ExpectedJoinTypes(p, t) ==
    IF ~Defines(p, t) THEN <<>>
    ELSE IF DefOf(p, t).kind = KindOf(t) THEN SpecJoinTypes(p, t, FALSE)
    ELSE IF DefOf(p, t).kind = "object" /\ KindOf(t) = "interface"
         THEN SpecJoinTypes(p, t, TRUE)
    ELSE <<>>

(***************************************************************************)
(* Query planning reads a type's owners from @join__type (spec 1, 6):     *)
(* after merge(), the @join__type list of every composed type holds, for  *)
(* each subgraph, exactly the directives its own definition calls for,    *)
(* in its @key order, whichever subgraph created the type and whatever    *)
(* the other subgraphs merged into it before or after.                     *)
(***************************************************************************)
JoinTypeGraphsExact ==
    Composed =>
        \A t \in MergedTypes, i \in 1..Len(sorted) :
            JoinTypesOf(t, sorted[i].token) = ExpectedJoinTypes(sorted[i], t)

\* The subgraphs whose definition of t is folded into the composed type:
\* those of the same kind, and an object folded into an interface.
FieldContributors(t) ==
    {i \in 1..Len(sorted) :
        Defines(sorted[i], t)
        /\ \/ DefOf(sorted[i], t).kind = KindOf(t)
           \/ DefOf(sorted[i], t).kind = "object" /\ KindOf(t) = "interface"}

(***************************************************************************)
(* The fields of a composed object or interface type are the union of    *)
(* the fields every subgraph gives it (spec 3: "union of field names"),   *)
(* entity plumbing fields _service and _entities excluded. Input types    *)
(* and interfaces some subgraph models as an @interfaceObject are left    *)
(* out: merge_input_object_type keeps the first subgraph's fields and the *)
(* @interfaceObject branch is marked "TODO merge fields" (see hazards).   *)
(***************************************************************************)
FieldNamesUnion ==
    Composed =>
        \A t \in MergedTypes :
            /\ KindOf(t) \in {"object", "interface"}
            /\ \A i \in FieldContributors(t) : DefOf(sorted[i], t).kind = KindOf(t)
            =>
                IMKeys(supergraph.types.val[t].fields) =
                    UNION {IMKeys(DefOf(sorted[i], t).fields) \ EntityFields :
                             i \in FieldContributors(t)}

\* The subgraph whose definition created t: the first, in name order, to
\* define it.
Creator(t) == Min({i \in 1..Len(sorted) : Defines(sorted[i], t)})

(***************************************************************************)
(* Field signatures (spec 4.2): the stub copies the arguments of every    *)
(* field of the subgraph that creates an object or interface type, and   *)
(* later subgraphs enrich it, never replace it: after merge(), each such  *)
(* field has exactly the arguments the creating subgraph declares,        *)
(* whatever arguments later subgraphs give the same field.                *)
(***************************************************************************)
StubArgumentsKept ==
    Composed =>
        \A t \in MergedTypes :
            /\ KindOf(t) \in {"object", "interface"}
            /\ DefOf(sorted[Creator(t)], t).kind = KindOf(t)
            =>
                \A f \in IMKeys(DefOf(sorted[Creator(t)], t).fields) \ EntityFields :
                    supergraph.types.val[t].fields.val[f].args =
                        DefOf(sorted[Creator(t)], t).fields.val[f].args

DirectivesNamed(ds, n, g) == SelectSeq(ds, LAMBDA d : d.name = n /\ JoinGraphOf(d) = g)

(***************************************************************************)
(* Membership attribution (spec 3): in a composed union every member, in  *)
(* a composed enum every value and on a composed object every interface   *)
(* is the union of what the subgraphs declare, and carries one            *)
(* @join__unionMember / @join__enumValue / @join__implements per          *)
(* subgraph that declares it, in declaration order, and none for a        *)
(* subgraph that does not: the planner reads from these which subgraph   *)
(* can return which member, value or interface.                           *)
(***************************************************************************)
MembershipsAttributed ==
    Composed =>
        \A t \in MergedTypes :
            LET m == supergraph.types.val[t]
                decl(i) == i \in SameKindDefiners(t)
            IN /\ KindOf(t) = "union" =>
                    /\ ToSet(m.members) = UNION {ToSet(DefOf(sorted[i], t).members) : i \in SameKindDefiners(t)}
                    /\ \A i \in 1..Len(sorted) :
                          DecodeSeq(DirectivesNamed(m.directives, "join__unionMember", sorted[i].token)) =
                            IF decl(i)
                            THEN [j \in 1..Len(DefOf(sorted[i], t).members) |->
                                    [graph |-> sorted[i].token,
                                     member |-> DefOf(sorted[i], t).members[j]]]
                            ELSE <<>>
               /\ KindOf(t) = "enum" =>
                    /\ IMKeys(m.values) = UNION {IMKeys(DefOf(sorted[i], t).values) : i \in SameKindDefiners(t)}
                    /\ \A v \in IMKeys(m.values), i \in 1..Len(sorted) :
                          Len(DirectivesNamed(m.values.val[v].directives, "join__enumValue", sorted[i].token))
                            = IF decl(i) /\ v \in IMKeys(DefOf(sorted[i], t).values) THEN 1 ELSE 0
               /\ KindOf(t) = "object" =>
                    /\ ToSet(m.implements) = UNION {ToSet(DefOf(sorted[i], t).implements) : i \in SameKindDefiners(t)}
                    /\ \A i \in 1..Len(sorted) :
                          DecodeSeq(DirectivesNamed(m.directives, "join__implements", sorted[i].token)) =
                            IF decl(i)
                            THEN [j \in 1..Len(DefOf(sorted[i], t).implements) |->
                                    [graph |-> sorted[i].token,
                                     interface |-> DefOf(sorted[i], t).implements[j]]]
                            ELSE <<>>

JoinGraphValues == supergraph.types.val[JoinGraphName].values

JoinDirectiveNames ==
    {"join__type", "join__field", "join__implements", "join__unionMember", "join__enumValue"}

\* The join directives composition applied to a type, its fields or its values.
JoinApplications ==
    UNION {LET m == supergraph.types.val[t]
           IN ToSet(m.directives)
              \cup UNION {ToSet(m.fields.val[f].directives) : f \in IMKeys(m.fields)}
              \cup UNION {ToSet(m.values.val[v].directives) : v \in IMKeys(m.values)}
           : t \in MergedTypes}

(***************************************************************************)
(* The supergraph reads back (spec 1, 6): every @join__type, @join__field, *)
(* @join__implements, @join__unionMember and @join__enumValue that         *)
(* merge() applies carries the arguments its join_spec_definition decoder *)
(* requires, and its graph argument is a value of the join__Graph enum:   *)
(* the query planner never meets a directive it cannot decode or a graph  *)
(* it cannot resolve.                                                     *)
(***************************************************************************)
JoinDirectivesDecode ==
    Composed =>
        \A d \in JoinApplications : d.name \in JoinDirectiveNames =>
            /\ Decode(d) # DecodeError
            /\ JoinGraphOf(d) \in IMKeys(JoinGraphValues)

CoreDirectiveNames ==
    {"link"} \cup {JoinDirectiveDefinitions[i][1] : i \in 1..Len(JoinDirectiveDefinitions)}

ExecutableIn(p, d) ==
    d \in IMKeys(p.sg.directives) /\ IsExecutableDirective(p.sg.directives.val[d])

(***************************************************************************)
(* Executable directive definitions (spec 4): the supergraph defines      *)
(* exactly the executable directives some subgraph defines, each with the *)
(* definition of the first subgraph in name order that has it; type-     *)
(* system directives are not carried over.                                 *)
(***************************************************************************)
ExecutableDirectivesFirstWriter ==
    Composed =>
        /\ IMKeys(supergraph.directiveDefs) \ CoreDirectiveNames =
              {d \in UNION {IMKeys(sorted[i].sg.directives) : i \in 1..Len(sorted)} :
                 \E i \in 1..Len(sorted) : ExecutableIn(sorted[i], d)}
        /\ \A i \in 1..Len(sorted) : \A d \in IMKeys(sorted[i].sg.directives) :
              (/\ ExecutableIn(sorted[i], d)
               /\ \A j \in 1..i - 1 : ~ExecutableIn(sorted[j], d))
              => supergraph.directiveDefs.val[d] = sorted[i].sg.directives.val[d]

\* The top-level field names of a field set: the words outside braces.
RECURSIVE TopLevelWords(_, _)
TopLevelWords(ws, depth) ==
    IF ws = <<>> THEN {}
    ELSE CASE Head(ws) = "{" -> TopLevelWords(Tail(ws), depth + 1)
           [] Head(ws) = "}" -> TopLevelWords(Tail(ws), depth - 1)
           [] OTHER -> (IF depth = 0 THEN {Head(ws)} ELSE {})
                         \cup TopLevelWords(Tail(ws), depth)

(***************************************************************************)
(* Field routing (spec 3, Object): on an object a subgraph declares with  *)
(* @key, or on Query, each field of that subgraph that is not a top-level *)
(* field of one of its keys carries exactly one @join__field for it; key  *)
(* fields, and the fields of a subgraph without keys, carry none.         *)
(***************************************************************************)
JoinFieldOnNonKeyFields ==
    Composed =>
        \A t \in MergedTypes : KindOf(t) = "object" =>
            \A i \in SameKindDefiners(t) :
                LET def == DefOf(sorted[i], t)
                    keyFields == UNION {TopLevelWords(def.keys[k].fields, 0) :
                                          k \in 1..Len(def.keys)}
                    routed == keyFields # {} \/ t = QueryTypeName
                IN \A f \in IMKeys(def.fields) \ EntityFields :
                      Len(DirectivesNamed(supergraph.types.val[t].fields.val[f].directives,
                                          "join__field", sorted[i].token))
                        = IF routed /\ f \notin keyFields THEN 1 ELSE 0

\* The input in the order merge() visits it: by name.
ByName == SortSeq(input, LAMBDA a, b : LexLess(a.name, b.name))

(***************************************************************************)
(* Token derivation (spec 2, 9e): merge() fails, without a schema, exactly *)
(* when some subgraph's uppercased name is not a GraphQL name, and        *)
(* otherwise composes; a failure reports one error per such subgraph.     *)
(***************************************************************************)
FailsOnlyOnInvalidNames ==
    pc = "done" =>
        LET bad == {i \in 1..Len(input) : ~IsValidName(ToUppercase(input[i].name))}
        IN /\ result.ok = (bad = {})
           /\ (result.schema = None) = (bad # {})
           /\ result.errors = Cardinality(bad)

(***************************************************************************)
(* The join__Graph enum (spec 2) has one value per subgraph, in name      *)
(* order, and the value of the i-th subgraph names that subgraph and its *)
(* url: every @join__*(graph:) token of a composed schema resolves to     *)
(* exactly one subgraph.                                                  *)
(***************************************************************************)
JoinGraphOnePerSubgraph ==
    Composed =>
        /\ Len(JoinGraphValues.order) = Len(input)
        /\ \A i \in 1..Len(input) :
              LET tok == JoinGraphValues.order[i]
              IN DecodeSeq(JoinGraphValues.val[tok].directives) =
                    <<[name |-> ByName[i].name, url |-> ByName[i].url]>>

(***************************************************************************)
(* The bootstrap elements (spec 3, 5: "contains exactly the bootstrap")   *)
(* are never touched by merging: once add_core_feature_link and           *)
(* add_core_feature_join have run, no step of the loop over subgraphs     *)
(* changes link__Purpose, link__Import, join__FieldSet or join__Graph,   *)
(* although a subgraph that @links the link spec defines its own         *)
(* link__Purpose enum.  is_mergeable_type's namespace filter is what      *)
(* keeps that enum's values and @join__type out of the bootstrap one.    *)
(***************************************************************************)
BootstrapUntouched ==
    pc \in {"mergeSchema", "mergeTypes"} =>
        \A n \in BootstrapTypeNames : supergraph'.types.val[n] = supergraph.types.val[n]

BootstrapIntact == [][BootstrapUntouched]_vars

(***************************************************************************)
(* A reader of the composed supergraph finds the join spec where the      *)
(* bootstrap put it (spec 3, 5): for every join version, the join__Graph *)
(* enum read back is the one built from the subgraphs, and each join     *)
(* directive definition is the one installed, except that @join__         *)
(* implements reads as absent before v0.2 and @join__unionMember and      *)
(* @join__enumValue before v0.3.  Composition links join v0.3, so every  *)
(* directive it writes must be readable under that version.              *)
(***************************************************************************)
JoinSince == [join__implements |-> <<0, 2>>, join__unionMember |-> <<0, 3>>,
              join__enumValue |-> <<0, 3>>]

ReadDefinition(n, v) ==
    CASE n = "join__graph"       -> GraphDirectiveDefinition(supergraph)
      [] n = "join__type"        -> TypeDirectiveDefinition(supergraph)
      [] n = "join__field"       -> FieldDirectiveDefinition(supergraph)
      [] n = "join__implements"  -> ImplementsDirectiveDefinition(v, supergraph)
      [] n = "join__unionMember" -> UnionMemberDirectiveDefinition(v, supergraph)
      [] OTHER                   -> EnumValueDirectiveDefinition(v, supergraph)

JoinDefinitionsReadable ==
    Composed =>
        /\ GraphEnumDefinition(supergraph) = Found(JoinGraphEnumType(sorted))
        /\ \A v \in JoinVersions, i \in 1..Len(JoinDirectiveDefinitions) :
              LET n == JoinDirectiveDefinitions[i][1]
              IN ReadDefinition(n, v) =
                    IF n \in DOMAIN JoinSince /\ VersionLess(v, JoinSince[n])
                    THEN Found(None) ELSE Found(JoinDirectiveDefinitions[i][2])

=============================================================================
