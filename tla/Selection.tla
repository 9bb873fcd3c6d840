------------------------------- MODULE Selection -------------------------------
(***************************************************************************)
(* execute_selection_set of apollo-router/src/query_planner/selection.rs: *)
(* the walk that projects an entity's JSON onto a @requires selection set *)
(* before it is sent to a subgraph, with __typename inference, nulling of *)
(* missing fields and type-condition matching of inline fragments.       *)
(*                                                                         *)
(* JSON values are records [t, obj, arr, str] with t in {"null",         *)
(* "string", "object", "array"}; an object is a function from keys to    *)
(* values (the router's object map compares without regard to order).   *)
(* A selection is [kind, alias, name, cond, sels].  The schema maps a     *)
(* type name to [kind, fields, implements, members], a field to           *)
(* [named, nonNull].                                                       *)
(***************************************************************************)
EXTENDS Naturals, Sequences, SequencesExt, FiniteSets, TLC

CONSTANTS
    Schema,      \* the supergraph schema
    Inputs,      \* entity JSON values to select from
    SelectionSets,
    CurrentTypes, \* the type the caller passes in, or None
    None

VARIABLES
    input,       \* the JSON value passed in
    selections,  \* the selection set
    current,     \* the current_type argument
    result       \* the returned value, None before the call returns

vars == <<input, selections, current, result>>

TYPENAME == "__typename"

NullV == [t |-> "null", obj |-> <<>>, arr |-> <<>>, str |-> ""]
StrV(s) == [t |-> "string", obj |-> <<>>, arr |-> <<>>, str |-> s]
ObjV(f) == [t |-> "object", obj |-> f, arr |-> <<>>, str |-> ""]
ArrV(s) == [t |-> "array", obj |-> <<>>, arr |-> s, str |-> ""]

\* Object::insert: a key already present is replaced.
Put(out, k, v) == (k :> v) @@ out

\* Mutant: the output keyed by the field name, ignoring the alias.
ResponseNameIgnoringAlias(s) == s.name

\* The response name: the alias if there is one.
ResponseName(s) == IF s.alias = None THEN s.name ELSE s.alias

\* The type of field name on an object or interface type t, or None.
FieldType(t, name) ==
    IF t # None /\ t \in DOMAIN Schema
       /\ Schema[t].kind \in {"object", "interface"}
       /\ name \in DOMAIN Schema[t].fields
    THEN Schema[t].fields[name]
    ELSE None

\* Mutant: the content's __typename ignored.
TypeOfIgnoringTypename(v, cur) == cur

\* The type named by the content's __typename string, else current_type.
TypeOf(v, cur) ==
    IF TYPENAME \in DOMAIN v.obj /\ v.obj[TYPENAME].t = "string"
    THEN v.obj[TYPENAME].str
    ELSE cur

\* Mutant: the Object/Union arm dropped.
TypeConditionMatchesNoUnion(cur, cond) ==
    /\ cur # None
    /\ \/ cur = cond
       \/ /\ cur \in DOMAIN Schema
          /\ cond \in DOMAIN Schema
          /\ LET c == Schema[cur]
                 d == Schema[cond]
             IN \/ c.kind = "object" /\ d.kind = "interface" /\ cond \in c.implements
                \/ c.kind = "interface" /\ d.kind = "interface" /\ cur \in d.implements
                \/ c.kind = "interface" /\ d.kind = "object" /\ cur \in d.implements
                \/ c.kind = "union" /\ d.kind = "object" /\ cond \in c.members

(***************************************************************************)
(* type_condition_matches: equal names, or the condition is a supertype   *)
(* or a subtype of the current type through implements or union members. *)
(***************************************************************************)
TypeConditionMatches(cur, cond) ==
    /\ cur # None
    /\ \/ cur = cond
       \/ /\ cur \in DOMAIN Schema
          /\ cond \in DOMAIN Schema
          /\ LET c == Schema[cur]
                 d == Schema[cond]
             IN \/ c.kind = "object" /\ d.kind = "interface" /\ cond \in c.implements
                \/ c.kind = "object" /\ d.kind = "union" /\ cur \in d.members
                \/ c.kind = "interface" /\ d.kind = "interface" /\ cur \in d.implements
                \/ c.kind = "interface" /\ d.kind = "object" /\ cur \in d.implements
                \/ c.kind = "union" /\ d.kind = "object" /\ cond \in c.members

(***************************************************************************)
(* Value::type_aware_deep_merge (json_ext, not in this file): objects are *)
(* merged key by key, arrays element by element over the common prefix   *)
(* and extended by the rest; a later null, or a value of the other       *)
(* container kind, leaves the earlier value; otherwise the later wins.    *)
(***************************************************************************)
RECURSIVE DeepMerge(_, _)
DeepMerge(a, b) ==
    CASE a.t = "object" /\ b.t = "object" ->
            ObjV([k \in DOMAIN a.obj \cup DOMAIN b.obj |->
                    IF k \in DOMAIN a.obj /\ k \in DOMAIN b.obj
                    THEN DeepMerge(a.obj[k], b.obj[k])
                    ELSE IF k \in DOMAIN a.obj THEN a.obj[k] ELSE b.obj[k]])
      [] a.t = "array" /\ b.t = "array" ->
            ArrV([i \in 1..Len(a.arr) |->
                    IF i <= Len(b.arr) THEN DeepMerge(a.arr[i], b.arr[i]) ELSE a.arr[i]]
                 \o SubSeq(b.arr, Len(a.arr) + 1, Len(b.arr)))
      [] b.t = "null" -> a
      [] {a.t, b.t} = {"object", "array"} -> a
      [] OTHER -> b

\* The entries of a fragment's output merged into the output so far.
MergeInto(out, sel) ==
    [k \in DOMAIN out \cup DOMAIN sel |->
        IF k \in DOMAIN out /\ k \in DOMAIN sel THEN DeepMerge(out[k], sel[k])
        ELSE IF k \in DOMAIN out THEN out[k] ELSE sel[k]]

\* Mutant: the __typename test made on the response name.
CanInferTypenameByResponseName(s, t) == ResponseName(s) = TYPENAME /\ t # None

\* A missing __typename is filled in when the current type is known.
CanInferTypename(s, t) == s.name = TYPENAME /\ t # None

\* A missing field is nulled when its type is known and nullable.
NullableKnown(ft) == ft # None /\ ~ft.nonNull

RECURSIVE ExecuteSelectionSetPassThrough(_, _, _), ExecuteSelectionSet(_, _, _), ExecFrom(_, _, _, _, _), SelectValue(_, _, _)

(***************************************************************************)
(* A present field's value: each element of an array, or the value        *)
(* itself, is selected from with the field's named type; a leaf is       *)
(* copied.                                                                 *)
(***************************************************************************)
SelectValue(x, sels, ft) ==
    LET inner == IF ft = None THEN None ELSE ft.named IN
    IF x.t = "array"
    THEN ArrV([i \in 1..Len(x.arr) |->
                 IF sels # <<>> THEN ExecuteSelectionSet(x.arr[i], sels, inner) ELSE x.arr[i]])
    ELSE IF sels # <<>> THEN ExecuteSelectionSet(x, sels, inner) ELSE x

\* The loop over the selections from the i-th on, with the output so far;
\* a missing field that cannot be nulled returns Null for the whole object.
ExecFrom(v, sels, t, i, out) ==
    IF i > Len(sels) THEN ObjV(out)
    ELSE LET s == sels[i] IN
      IF s.kind = "field"
      THEN LET rn == ResponseName(s)
               ft == FieldType(t, s.name)
           IN IF rn \notin DOMAIN v.obj
              THEN IF CanInferTypename(s, t)
                   THEN ExecFrom(v, sels, t, i + 1, Put(out, rn, StrV(t)))
                   ELSE IF NullableKnown(ft)
                   THEN ExecFrom(v, sels, t, i + 1, Put(out, rn, NullV))
                   ELSE NullV
              ELSE ExecFrom(v, sels, t, i + 1, Put(out, rn, SelectValue(v.obj[rn], s.sels, ft)))
      ELSE IF s.cond = None \/ ~TypeConditionMatches(t, s.cond)
           THEN ExecFrom(v, sels, t, i + 1, out)
           ELSE LET r == ExecuteSelectionSet(v, s.sels, t) IN
                IF r.t = "object"
                THEN ExecFrom(v, sels, t, i + 1, MergeInto(out, r.obj))
                ELSE ExecFrom(v, sels, t, i + 1, out)

\* Mutant: a non-object input returned unchanged.
ExecuteSelectionSetPassThrough(v, sels, cur) ==
    IF v.t # "object" THEN v
    ELSE ExecFrom(v, sels, TypeOf(v, cur), 1, <<>>)

\* execute_selection_set: Null for a non-object, else the loop over the
\* selections with the current type taken from __typename when present.
ExecuteSelectionSet(v, sels, cur) ==
    IF v.t # "object" THEN NullV
    ELSE ExecFrom(v, sels, TypeOf(v, cur), 1, <<>>)

Init ==
    /\ input \in Inputs
    /\ selections \in SelectionSets
    /\ current \in CurrentTypes
    /\ result = None

\* The caller runs the selection once.
Execute ==
    /\ result = None
    /\ result' = ExecuteSelectionSet(input, selections, current)
    /\ UNCHANGED <<input, selections, current>>

Next == Execute

Spec == Init /\ [][Next]_vars

-----------------------------------------------------------------------------
TypeOK ==
    /\ input \in Inputs
    /\ selections \in SelectionSets
    /\ current \in CurrentTypes
    /\ result = None \/ result.t \in {"null", "object"}

Done == result # None

\* The key a field selection is answered under (GraphQL's response key).
ResponseKey(s) == IF s.alias # None THEN s.alias ELSE s.name

\* The object types a type name can stand for.
PossibleTypes(t) ==
    IF t = None \/ t \notin DOMAIN Schema THEN {}
    ELSE CASE Schema[t].kind = "object" -> {t}
           [] Schema[t].kind = "union" -> Schema[t].members
           [] Schema[t].kind = "interface" ->
                 {o \in DOMAIN Schema : Schema[o].kind = "object" /\ t \in Schema[o].implements}
           [] OTHER -> {}

\* A fragment can apply when its condition and the type overlap.
MayApply(t, cond) == cond = None \/ t = cond \/ PossibleTypes(t) \cap PossibleTypes(cond) # {}

\* The type an entity declares in its __typename, else the caller's.
EntityType(v, cur) ==
    IF "__typename" \in DOMAIN v.obj /\ v.obj["__typename"].t = "string"
    THEN v.obj["__typename"].str ELSE cur

\* The response names the selection set collects on type t, through every
\* inline fragment that applies to t (without a type condition, or one
\* DoesFragmentTypeApply would admit), as GraphQL's CollectFields does.
RECURSIVE CollectedNames(_, _)
CollectedNames(sels, t) ==
    UNION {IF sels[i].kind = "field" THEN {ResponseKey(sels[i])}
           ELSE IF MayApply(t, sels[i].cond)
                THEN CollectedNames(sels[i].sels, t)
                ELSE {} : i \in 1..Len(sels)}

TopLevelFieldNames(sels) ==
    {ResponseKey(sels[i]) : i \in {j \in 1..Len(sels) : sels[j].kind = "field"}}

(***************************************************************************)
(* Selecting again from the projected value, for the type the first call *)
(* resolved, changes nothing: the output of execute_selection_set, with   *)
(* its inferred __typename and nulled fields, is already in the shape of *)
(* the selection set, at every depth.  A @requires representation built  *)
(* from already-selected data equals the one built from the raw entity.  *)
(***************************************************************************)
Idempotent ==
    (Done /\ input.t = "object") =>
        ExecuteSelectionSet(result, selections, EntityType(input, current)) = result

(***************************************************************************)
(* An object result holds every field selected directly (a missing       *)
(* nullable field as null, a missing __typename inferred), and nothing    *)
(* that the selection set, through its applicable fragments, does not    *)
(* collect: the router sends a subgraph exactly the selected keys.        *)
(***************************************************************************)
ProjectionExact ==
    (Done /\ result.t = "object") =>
        LET t == EntityType(input, current) IN
        /\ TopLevelFieldNames(selections) \subseteq DOMAIN result.obj
        /\ DOMAIN result.obj \subseteq CollectedNames(selections, t)

(***************************************************************************)
(* Null comes back only for a non-object input or for missing data: an    *)
(* entity that has every collected field, except __typename selections   *)
(* (under any alias) when its type is known, always projects to an       *)
(* object.                                                                 *)
(***************************************************************************)
RECURSIVE TypenameKeys(_)
TypenameKeys(sels) ==
    UNION {IF sels[i].kind = "field"
           THEN IF sels[i].name = "__typename" THEN {ResponseKey(sels[i])} ELSE {}
           ELSE TypenameKeys(sels[i].sels) : i \in 1..Len(sels)}

NullOnlyForMissingData ==
    (Done /\ result.t = "null") =>
        \/ input.t # "object"
        \/ LET t == EntityType(input, current)
               needed == CollectedNames(selections, t)
                           \ (IF t # None THEN TypenameKeys(selections) ELSE {})
           IN ~(needed \subseteq DOMAIN input.obj)

(***************************************************************************)
(* When the entity's type is an object (its __typename, which the code    *)
(* prefers to the caller's type, or an object caller type), an inline     *)
(* fragment applies exactly as GraphQL's DoesFragmentTypeApply says: a    *)
(* fragment on that object, on an interface it implements or on a union   *)
(* it belongs to contributes every field it selects directly, when the    *)
(* entity holds the fields the fragment needs.  With ProjectionExact,    *)
(* which keeps out what a non-applying fragment selects, the keys sent   *)
(* for a @requires are those GraphQL would collect.                       *)
(***************************************************************************)
FragmentsApplyToRuntimeType ==
    (Done /\ result.t = "object") =>
        LET t == EntityType(input, current) IN
        (t \in DOMAIN Schema /\ Schema[t].kind = "object") =>
            \A i \in 1..Len(selections) :
                LET s == selections[i] IN
                /\ s.kind = "fragment" /\ s.cond # None
                /\ t \in PossibleTypes(s.cond)
                /\ CollectedNames(s.sels, t) \ TypenameKeys(s.sels) \subseteq DOMAIN input.obj
                => TopLevelFieldNames(s.sels) \subseteq DOMAIN result.obj

=============================================================================
