--------------------------- MODULE SchemaDirectives ---------------------------
(***************************************************************************)
(* apollo-federation/src/schema/mod.rs: the FederationSchema accessors    *)
(* that list the applications of a federation directive (@key, @provides,*)
(* @requires, @context, @fromContext).  Each returns a                    *)
(* FallibleDirectiveIterator, Result<Vec<Result<D, _>>, _>: the outer Err *)
(* when the federation spec, the directive's definition or its           *)
(* referencers cannot be found (each a `?`), and otherwise one inner     *)
(* entry per application found, or per referencing position that cannot  *)
(* be looked up.                                                          *)
(*                                                                         *)
(* A schema is a record:                                                   *)
(*   spec        whether get_federation_spec_definition_from_subgraph    *)
(*               succeeds;                                                 *)
(*   defined     the federation directives whose definition is found;     *)
(*   referencers directive -> position kind -> the sequence (IndexSet) of *)
(*               the positions that reference it;                         *)
(*   elements    position -> [directives, ty]: what position.get(schema) *)
(*               finds (a position outside its domain is an Err), its     *)
(*               directive applications [name, argsOk] in order and, for  *)
(*               a field, its inner named type.                           *)
(***************************************************************************)
EXTENDS Sequences, SequencesExt

\* The entry of one application, or of a position that cannot be got.
Applied(pos, d, extra) ==
    IF d.argsOk THEN [ok |-> TRUE, target |-> pos] @@ extra ELSE [ok |-> FALSE, at |-> pos]
GetError(pos) == [ok |-> FALSE, at |-> pos]

\* What an entry carries besides its target: the return type of the field
\* for a provides, nothing for the others.
Extra(schema, name, pos) ==
    IF name = "provides" THEN [target_return_type |-> schema.elements[pos].ty] ELSE <<>>

\* The loop over the referencing positions of one kind: per position the
\* applications of `name` in its directive list (directives.get_all), or
\* the error of position.get.
ApplicationsAt(schema, positions, name) ==
    FlattenSeq([i \in 1..Len(positions) |->
        LET pos == positions[i] IN
        IF pos \in DOMAIN schema.elements
        THEN LET ds == SelectSeq(schema.elements[pos].directives, LAMBDA d : d.name = name)
             IN [j \in 1..Len(ds) |-> Applied(pos, ds[j], Extra(schema, name, pos))]
        ELSE <<GetError(pos)>>])


\* Mutant: position.get(..)? makes one stale position fail the whole list.
ApplicationsShortCircuit(schema, name, kinds) ==
    LET at(ps) == ApplicationsAt(schema, ps, name)
        bad == \E k \in 1..Len(kinds) : \E p \in ToSet(schema.referencers[name][kinds[k]]) :
                   p \notin DOMAIN schema.elements
    IN IF ~schema.spec \/ name \notin schema.defined \/ name \notin DOMAIN schema.referencers \/ bad
       THEN [ok |-> FALSE]
       ELSE [ok |-> TRUE, apps |-> FlattenSeq([k \in 1..Len(kinds) |-> at(schema.referencers[name][kinds[k]])])]

\* The three `?` before the loops; `kinds` are the referencer sets the
\* accessor walks, in its order.
Applications(schema, name, kinds) ==
    IF ~schema.spec \/ name \notin schema.defined \/ name \notin DOMAIN schema.referencers
    THEN [ok |-> FALSE]
    ELSE [ok |-> TRUE,
          apps |-> FlattenSeq([k \in 1..Len(kinds) |->
                      ApplicationsAt(schema, schema.referencers[name][kinds[k]], name)])]

KeyDirectiveApplications(schema) ==
    Applications(schema, "key", <<"object_types", "interface_types">>)

ProvidesDirectiveApplications(schema) ==
    Applications(schema, "provides", <<"object_fields">>)

RequiresDirectiveApplications(schema) ==
    Applications(schema, "requires", <<"object_fields">>)

ContextDirectiveApplications(schema) ==
    Applications(schema, "context", <<"interface_types", "object_types", "union_types">>)

FromContextDirectiveApplications(schema) ==
    Applications(schema, "fromContext",
                 <<"interface_field_arguments", "object_field_arguments">>)
=============================================================================
