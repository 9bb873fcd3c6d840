----------------------------- MODULE TypeMergers -----------------------------
(***************************************************************************)
(* The per-kind type mergers of apollo-federation/src/merge.rs and the    *)
(* join-spec directive applications they emit.                            *)
(*                                                                         *)
(* Each merger is an operator from the supergraph's type map, the         *)
(* subgraph's token, the type's name and the subgraph's definition to     *)
(* [types |-> new type map, hints |-> number of hints pushed]: the        *)
(* function takes &mut self only to push composition hints and            *)
(* &mut IndexMap for the types.                                            *)
(*                                                                         *)
(* Data abstraction.  A type name is a pair <<namespace, base>> so that   *)
(* the name filters can be evaluated; a field set is the sequence of its *)
(* whitespace-separated words (words "{" and "}" open and close a nested *)
(* selection); descriptions, urls and directive-argument strings are      *)
(* small model values.  A subgraph type definition is a record with a     *)
(* kind; a merged supergraph type is one record shape for every kind,    *)
(* whose directives field is the type's directive list in push order.    *)
(***************************************************************************)
EXTENDS Integers, Sequences, SequencesExt, FiniteSets, IndexMaps, JoinSpec

\* The literal the object merger compares the type name with.
QueryTypeName == <<"", "Query">>

\* Fields the object merger and copy_fields always skip.
EntityFields == {"_service", "_entities"}

(***************************************************************************)
(* merge_descriptions: keep the first description; a different later one *)
(* is a "conflicting descriptions" hint.                                   *)
(***************************************************************************)
MergeDesc(merged, new) == IF merged = None THEN new ELSE merged

DescConflict(merged, new) == merged # None /\ new # None /\ merged # new

HintIf(b) == IF b THEN 1 ELSE 0

(***************************************************************************)
(* Applied join directives: [name, args] with the arguments in the order  *)
(* merge.rs pushes them, read back by the decoders of JoinSpec.           *)
(***************************************************************************)
Arg(n, v) == <<n, v>>

\* The @join__type without a key: graph, then isInterfaceObject if true.
JoinTypeDir(graph, isIO) ==
    [name |-> "join__type",
     args |-> <<Arg("graph", graph)>> \o (IF isIO THEN <<Arg("isInterfaceObject", TRUE)>> ELSE <<>>)]

\* The clone for one @key: key pushed, then resolvable only when false.
JoinTypeDirWithKey(base, fields, resolvable) ==
    [base EXCEPT !.args = @ \o <<Arg("key", fields)>>
                           \o (IF resolvable THEN <<>> ELSE <<Arg("resolvable", FALSE)>>)]

\* Mutant: a missing resolvable argument read as false.
KeyResolvableDefaultFalse(k) == IF k.resolvable \in BOOLEAN THEN k.resolvable ELSE FALSE

\* directive_bool_arg_value(key, "resolvable").unwrap_or(&true)
KeyResolvable(k) == IF k.resolvable \in BOOLEAN THEN k.resolvable ELSE TRUE

\* join_type_applied_directive: one @join__type per @key, else one with
\* the graph only.
JoinTypeAppliedDirective(graph, keys, isIO) ==
    IF keys = <<>>
    THEN <<JoinTypeDir(graph, isIO)>>
    ELSE [i \in 1..Len(keys) |->
            JoinTypeDirWithKey(JoinTypeDir(graph, isIO), keys[i].fields, KeyResolvable(keys[i]))]

\* join_type_implements
JoinTypeImplements(graph, intf) ==
    [name |-> "join__implements", args |-> <<Arg("graph", graph), Arg("interface", intf)>>]

\* join_field_applied_directive: requires, provides and external pushed
\* only when present.
JoinFieldAppliedDirective(graph, requires, provides, external) ==
    [name |-> "join__field",
     args |-> <<Arg("graph", graph)>>
              \o (IF requires # None THEN <<Arg("requires", requires)>> ELSE <<>>)
              \o (IF provides # None THEN <<Arg("provides", provides)>> ELSE <<>>)
              \o (IF external THEN <<Arg("external", TRUE)>> ELSE <<>>)]

JoinUnionMember(graph, member) ==
    [name |-> "join__unionMember", args |-> <<Arg("graph", graph), Arg("member", member)>>]

\* Mutant: only the members the union does not have yet (spec 3 wording).
UnionMemberDirectivesNewOnly(graph, members, existing) ==
    LET new == SelectSeq(members, LAMBDA m : ~Contains(existing, m))
    IN [j \in 1..Len(new) |-> JoinUnionMember(graph, new[j])]

\* merge_union_type: one @join__unionMember per member of this subgraph.
UnionMemberDirectives(graph, members, existing) ==
    [j \in 1..Len(members) |-> JoinUnionMember(graph, members[j])]

JoinEnumValue(graph) == [name |-> "join__enumValue", args |-> <<Arg("graph", graph)>>]

(***************************************************************************)
(* parse_keys: every whitespace-separated word of every @key field set.    *)
(***************************************************************************)
ParseKeys(keys) == UNION {ToSet(keys[i].fields) : i \in 1..Len(keys)}

(***************************************************************************)
(* The stubs a merger inserts when the supergraph lacks the type.          *)
(***************************************************************************)
MergedType(kind, desc, fields, implements) ==
    [kind |-> kind, desc |-> desc, directives |-> <<>>, fields |-> fields,
     implements |-> implements, members |-> <<>>, values |-> IMEmpty]

MergedField(desc, args) == [desc |-> desc, args |-> args, directives |-> <<>>]

\* Mutant: the _service/_entities filter forgotten.
CopyFieldsUnfiltered(fs) ==
    [order |-> fs.order,
     val   |-> [f \in IMKeys(fs) |-> MergedField(fs.val[f].desc, fs.val[f].args)]]

\* copy_fields: all fields but _service/_entities, arguments kept.
CopyFields(fs) ==
    [order |-> SelectSeq(fs.order, LAMBDA f : f \notin EntityFields),
     val   |-> [f \in IMKeys(fs) \ EntityFields |->
                  MergedField(fs.val[f].desc, fs.val[f].args)]]

CopyEnumType(def) == MergedType("enum", def.desc, IMEmpty, <<>>)

\* copy_input_object_type: every field with its description and type.
CopyInputObjectType(def) ==
    MergedType("input",  def.desc,
               [order |-> def.fields.order,
                val |-> [f \in IMKeys(def.fields) |->
                           MergedField(def.fields.val[f].desc, {})]], <<>>)

CopyInterfaceType(def) ==
    MergedType("interface", def.desc, CopyFields(def.fields), def.implements)

\* copy_object_type_stub: an @interfaceObject becomes an interface.
CopyObjectTypeStub(def, isIO) ==
    MergedType(IF isIO THEN "interface" ELSE "object",
               def.desc, CopyFields(def.fields), def.implements)

CopyUnionType(desc) == MergedType("union", desc, IMEmpty, <<>>)

Result(types, hints) == [types |-> types, hints |-> hints]

(***************************************************************************)
(* merge_enum_type                                                         *)
(***************************************************************************)
MergeEnumType(types, graph, name, def) ==
    LET t0 == IMOrInsert(types, name, CopyEnumType(def))
        e  == IMGet(t0, name)
        vs == def.values
        \* each value: entry().or_insert(no description), merge its
        \* description, push @join__enumValue(graph)
        newVal(v) ==
          LET old == IF IMHas(e.values, v) THEN IMGet(e.values, v)
                     ELSE [desc |-> None, directives |-> <<>>]
          IN [desc |-> MergeDesc(old.desc, vs.val[v]),
              directives |-> Append(old.directives, JoinEnumValue(graph))]
        conflicts == {v \in IMKeys(vs) :
                        IMHas(e.values, v)
                        /\ DescConflict(IMGet(e.values, v).desc, vs.val[v])}
        values == [order |-> SetInsertAll(e.values.order, vs.order),
                   val |-> [v \in IMKeys(vs) |-> newVal(v)] @@ e.values.val]
    IN IF e.kind # "enum" THEN Result(t0, 0)   \* TODO - conflict
       ELSE Result(IMPut(t0, name,
                      [e EXCEPT !.directives = @ \o
                                  JoinTypeAppliedDirective(graph, <<>>, FALSE),
                                !.desc = MergeDesc(@, def.desc),
                                !.values = values]),
                   HintIf(DescConflict(e.desc, def.desc))
                     + Cardinality(conflicts))

(***************************************************************************)
(* merge_input_object_type: the field loop only matches existing fields;  *)
(* a field the stub lacks is not added (TODO warning).                     *)
(***************************************************************************)
MergeInputObjectType(types, graph, name, def) ==
    LET t0 == IMOrInsert(types, name, CopyInputObjectType(def))
        o  == IMGet(t0, name)
    IN IF o.kind # "input" THEN Result(t0, 0)   \* TODO conflict on type
       ELSE Result(IMPut(t0, name,
                      [o EXCEPT !.directives = @ \o
                                  JoinTypeAppliedDirective(graph, <<>>, FALSE)]),
                   0)

(***************************************************************************)
(* merge_interface_type: one @join__type per @key; a field the merged     *)
(* interface lacks is added with its description and type, no arguments. *)
(***************************************************************************)
MergeInterfaceType(types, graph, name, def) ==
    LET t0 == IMOrInsert(types, name, CopyInterfaceType(def))
        i  == IMGet(t0, name)
        fs == def.fields
        new == {f \in IMKeys(fs) : ~IMHas(i.fields, f)}
        fields == [order |-> SetInsertAll(i.fields.order, fs.order),
                   val |-> [f \in new |-> MergedField(fs.val[f].desc, {})]
                             @@ i.fields.val]
    IN IF i.kind # "interface" THEN Result(t0, 0)   \* TODO conflict on type
       ELSE Result(IMPut(t0, name,
                      [i EXCEPT !.directives = @ \o
                                  JoinTypeAppliedDirective(graph, def.keys, FALSE),
                                !.fields = fields]),
                   0)

(***************************************************************************)
(* merge_object_type.  An object whose supergraph entry is an interface   *)
(* (an @interfaceObject, or an interface of another subgraph) only adds   *)
(* its @join__type(isInterfaceObject: true): its fields are not merged    *)
(* (TODO merge fields).  Into an object the merger folds the description,*)
(* the interfaces (one @join__implements per interface of this subgraph), *)
(* and the fields; on an entity or on the type named Query every field   *)
(* whose name is not a word of a @key gets @join__field(graph).           *)
(***************************************************************************)
\* Mutant: fields routed on entities only, Query forgotten.
IsJoinFieldEntityOnly(keyFields, name) == keyFields # {}

\* is_join_field: the type is an entity here, or is named Query.
IsJoinField(keyFields, name) == keyFields # {} \/ name = QueryTypeName

\* Mutant: the @interfaceObject's @join__type forgotten.
ObjectIntoInterfaceNoJoin(o, graph, def) == o

\* The interface branch: only @join__type(isInterfaceObject: true).
ObjectIntoInterface(o, graph, def) ==
    [o EXCEPT !.directives = @ \o JoinTypeAppliedDirective(graph, def.keys, TRUE)]

\* Mutant: the later subgraph's arguments written over the stub's.
MergeFieldArgsReplaced(old, field, joinDirs) ==
    [old EXCEPT !.desc = MergeDesc(@, field.desc), !.args = field.args,
                !.directives = @ \o joinDirs]

\* The field loop on an existing or new supergraph field: merge the
\* description, push the @join__field; the arguments are left as they are.
MergeField(old, field, joinDirs) ==
    [old EXCEPT !.desc = MergeDesc(@, field.desc), !.directives = @ \o joinDirs]

MergeObjectType(types, graph, name, def) ==
    LET isIO == def.interfaceObject
        t0 == IMOrInsert(types, name, CopyObjectTypeStub(def, isIO))
        o  == IMGet(t0, name)
        keyFields == ParseKeys(def.keys)
        isJoinField == IsJoinField(keyFields, name)
        fs == def.fields
        merged == IMKeys(fs) \ EntityFields
        old(f) == IF IMHas(o.fields, f) THEN IMGet(o.fields, f)
                  ELSE MergedField(fs.val[f].desc, {})
        joinField(f) ==
          IF isJoinField /\ f \notin keyFields
          THEN <<JoinFieldAppliedDirective(graph, fs.val[f].requires,
                                           fs.val[f].provides,
                                           fs.val[f].external)>>
          ELSE <<>>
        newField(f) == MergeField(old(f), fs.val[f], joinField(f))
        conflicts == {f \in merged : IMHas(o.fields, f)
                         /\ DescConflict(IMGet(o.fields, f).desc, fs.val[f].desc)}
        fields == [order |-> SetInsertAll(o.fields.order,
                               SelectSeq(fs.order, LAMBDA f : f \notin EntityFields)),
                   val |-> [f \in merged |-> newField(f)] @@ o.fields.val]
        implementsDirs == [j \in 1..Len(def.implements) |->
                             JoinTypeImplements(graph, def.implements[j])]
    IN CASE o.kind = "object" ->
              Result(IMPut(t0, name,
                       [o EXCEPT !.directives = @ \o
                                   JoinTypeAppliedDirective(graph, def.keys, FALSE)
                                   \o implementsDirs,
                                 !.desc = MergeDesc(@, def.desc),
                                 !.implements = SetInsertAll(@, def.implements),
                                 !.fields = fields]),
                     HintIf(DescConflict(o.desc, def.desc)) + Cardinality(conflicts))
         [] o.kind = "interface" ->
              Result(IMPut(t0, name, ObjectIntoInterface(o, graph, def)), 0)
         [] OTHER -> Result(t0, 0)

(***************************************************************************)
(* merge_union_type: members are an IndexSet; every member of this        *)
(* subgraph gets @join__unionMember(graph, member), new or not.            *)
(***************************************************************************)
MergeUnionType(types, graph, name, def) ==
    LET t0 == IMOrInsert(types, name, CopyUnionType(def.desc))
        u  == IMGet(t0, name)
    IN IF u.kind # "union" THEN Result(t0, 0)
       ELSE Result(IMPut(t0, name,
                      [u EXCEPT !.directives = @ \o
                                  JoinTypeAppliedDirective(graph, <<>>, FALSE)
                                  \o UnionMemberDirectives(graph, def.members, u.members),
                                !.members = SetInsertAll(@, def.members)]),
                   0)
=============================================================================
