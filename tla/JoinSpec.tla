------------------------------- MODULE JoinSpec -------------------------------
(***************************************************************************)
(* The argument decoders of apollo-federation/src/link/join_spec_         *)
(* definition.rs: how a reader of the supergraph (the query planner)      *)
(* reads back the @join__* directive applications composition writes.    *)
(*                                                                         *)
(* A directive application is [name |-> n, args |-> a sequence of         *)
(* <<argument name, value>> pairs] in push order, as Directive::arguments *)
(* is a Vec<Node<Argument>>.  Argument values are the model's tokens,     *)
(* field sets and booleans; the GraphQL value kinds (Enum, String,        *)
(* Boolean) the decoders also check are not represented, and the          *)
(* contextArguments list, which composition never writes, is not decoded.*)
(***************************************************************************)
EXTENDS Naturals, Sequences, SequencesExt

CONSTANT None   \* Option::None

\* What a decoder returns when a required argument is missing.
DecodeError == [error |-> "missing required argument"]

(***************************************************************************)
(* The argument lookups of link/argument.rs, which the decoders call:     *)
(* the first argument of that name; a required one is an error when      *)
(* absent, an optional one is None.                                       *)
(***************************************************************************)
HasArgument(app, n) == \E i \in 1..Len(app.args) : app.args[i][1] = n

ArgumentValue(app, n) ==
    app.args[CHOOSE i \in 1..Len(app.args) :
                app.args[i][1] = n /\ \A j \in 1..i - 1 : app.args[j][1] # n][2]

OptionalArgument(app, n) == IF HasArgument(app, n) THEN ArgumentValue(app, n) ELSE None

\* directive_optional_boolean_argument(..)?.unwrap_or(default)
BooleanArgumentOr(app, n, default) ==
    IF HasArgument(app, n) THEN ArgumentValue(app, n) ELSE default

\* The decoders return Err as soon as a required argument is missing (`?`).
Required(app, names, decoded) ==
    IF \A n \in names : HasArgument(app, n) THEN decoded ELSE DecodeError

(***************************************************************************)
(* graph_directive_arguments: @join__graph(name:, url:), both required.   *)
(***************************************************************************)
GraphDirectiveArguments(app) ==
    Required(app, {"name", "url"},
             [name |-> ArgumentValue(app, "name"), url |-> ArgumentValue(app, "url")])

(***************************************************************************)
(* type_directive_arguments: graph required; key optional; extension,    *)
(* resolvable and isInterfaceObject default to false, true and false.    *)
(***************************************************************************)
\* Mutant: resolvable read with the default of the other booleans.
TypeDirectiveArgumentsResolvableFalse(app) ==
    Required(app, {"graph"},
             [graph |-> ArgumentValue(app, "graph"),
              key |-> OptionalArgument(app, "key"),
              extension |-> BooleanArgumentOr(app, "extension", FALSE),
              resolvable |-> BooleanArgumentOr(app, "resolvable", FALSE),
              isInterfaceObject |-> BooleanArgumentOr(app, "isInterfaceObject", FALSE)])

TypeDirectiveArguments(app) ==
    Required(app, {"graph"},
             [graph |-> ArgumentValue(app, "graph"),
              key |-> OptionalArgument(app, "key"),
              extension |-> BooleanArgumentOr(app, "extension", FALSE),
              resolvable |-> BooleanArgumentOr(app, "resolvable", TRUE),
              isInterfaceObject |-> BooleanArgumentOr(app, "isInterfaceObject", FALSE)])

(***************************************************************************)
(* ContextArgument::try_from: one item of @join__field(contextArguments:). *)
(* An item is [object |-> FALSE] or [object |-> TRUE, fields |-> a        *)
(* sequence of <<input field name, value>>]; a value is a string, or a    *)
(* model value standing for every value that is not one.  The loop stops at   *)
(* the first unknown or repeated input field; then the four fields are   *)
(* required, in order, each present and a string.  An error names its    *)
(* kind and the field.                                                     *)
(***************************************************************************)
ContextFields == <<"name", "type", "context", "selection">>

ContextError(kind, field) == [ok |-> FALSE, kind |-> kind, field |-> field]

\* Mutant: a repeated input field overwrites the earlier value.
InsertValueOverwrite(st, n, v) == [st EXCEPT !.slots[n] = v]

\* insert_value: bail if the field already has a value.
InsertValue(st, n, v) ==
    IF st.slots[n] # None
    THEN [st EXCEPT !.err = ContextError("repeated", n)]
    ELSE [st EXCEPT !.slots[n] = v]

\* The for loop over the input object, with its early returns.
ContextFieldsLoop(fields) ==
    FoldLeft(LAMBDA st, p :
                IF st.err # None THEN st
                ELSE IF p[1] \notin Range(ContextFields)
                     THEN [st EXCEPT !.err = ContextError("unknown", p[1])]
                     ELSE InsertValue(st, p[1], p[2]),
             [slots |-> [n \in Range(ContextFields) |-> None], err |-> None],
             fields)

\* field_or_else, for name, type, context and selection in that order.
FieldOrElse(slots) ==
    LET bad == {i \in 1..4 : slots[ContextFields[i]] \notin STRING}
        i == Min(bad)
    IN IF bad = {} THEN None
       ELSE IF slots[ContextFields[i]] = None
            THEN ContextError("missing", ContextFields[i])
            ELSE ContextError("not a string", ContextFields[i])

ContextArgumentTryFrom(item) ==
    IF ~item.object THEN ContextError("not an object", None)
    ELSE LET st == ContextFieldsLoop(item.fields)
         IN IF st.err # None THEN st.err
            ELSE IF FieldOrElse(st.slots) # None THEN FieldOrElse(st.slots)
            ELSE [ok |-> TRUE, name |-> st.slots["name"], type |-> st.slots["type"],
                  context |-> st.slots["context"], selection |-> st.slots["selection"]]

\* The list decoded with try_collect: the first failing item fails it.
ContextArguments(items) ==
    LET decoded == [i \in 1..Len(items) |-> ContextArgumentTryFrom(items[i])]
        failed == {i \in 1..Len(items) : ~decoded[i].ok}
    IN IF failed = {} THEN decoded ELSE decoded[Min(failed)]

(***************************************************************************)
(* field_directive_arguments: every argument optional, with no defaults; *)
(* a contextArguments item that fails to decode fails the whole call.    *)
(***************************************************************************)
FieldDirectiveArguments(app) ==
    LET ca == IF HasArgument(app, "contextArguments")
              THEN ContextArguments(ArgumentValue(app, "contextArguments"))
              ELSE None
    IN IF ca # None /\ "kind" \in DOMAIN ca THEN ca
       ELSE [graph |-> OptionalArgument(app, "graph"),
             requires |-> OptionalArgument(app, "requires"),
             provides |-> OptionalArgument(app, "provides"),
             type |-> OptionalArgument(app, "type"),
             external |-> OptionalArgument(app, "external"),
             override |-> OptionalArgument(app, "override"),
             overrideLabel |-> OptionalArgument(app, "overrideLabel"),
             userOverridden |-> OptionalArgument(app, "usedOverridden"),
             contextArguments |-> ca]

\* Mutant: the interface read from the argument "name".
ImplementsDirectiveArgumentsByName(app) ==
    Required(app, {"graph", "name"},
             [graph |-> ArgumentValue(app, "graph"), interface |-> ArgumentValue(app, "name")])

\* implements_directive_arguments: graph and interface, both required.
ImplementsDirectiveArguments(app) ==
    Required(app, {"graph", "interface"},
             [graph |-> ArgumentValue(app, "graph"), interface |-> ArgumentValue(app, "interface")])

\* union_member_directive_arguments: graph and member, both required.
UnionMemberDirectiveArguments(app) ==
    Required(app, {"graph", "member"},
             [graph |-> ArgumentValue(app, "graph"), member |-> ArgumentValue(app, "member")])

\* enum_value_directive_arguments: graph, required.
EnumValueDirectiveArguments(app) ==
    Required(app, {"graph"}, [graph |-> ArgumentValue(app, "graph")])

\* The decoder a reader applies to an application of each join directive.
Decode(app) ==
    CASE app.name = "join__graph"       -> GraphDirectiveArguments(app)
      [] app.name = "join__type"        -> TypeDirectiveArguments(app)
      [] app.name = "join__field"       -> FieldDirectiveArguments(app)
      [] app.name = "join__implements"  -> ImplementsDirectiveArguments(app)
      [] app.name = "join__unionMember" -> UnionMemberDirectiveArguments(app)
      [] app.name = "join__enumValue"   -> EnumValueDirectiveArguments(app)
      [] OTHER                          -> DecodeError

\* The graph argument of a join directive, as the planner decodes it.
JoinGraphOf(d) == LET a == Decode(d) IN IF "graph" \in DOMAIN a THEN a.graph ELSE None

DecodeSeq(ds) == [k \in 1..Len(ds) |-> Decode(ds[k])]
=============================================================================
