------------------------------- MODULE FieldSet -------------------------------
(***************************************************************************)
(* Field sets of apollo-federation/src/schema/field_set.rs: the alias    *)
(* check that parse_field_set runs on a parsed @key/@requires/@provides  *)
(* field set, and collect_target_fields_from_field_set, the stack walk    *)
(* that lists the field definitions a field set selects.                  *)
(*                                                                         *)
(* Parsing and validation are apollo-compiler's (FieldSet::parse_and_     *)
(* validate); the model starts from their result.  A selection set is     *)
(* [ty, sels]; a selection is [kind, alias, name, cond, sub] with sub the *)
(* field's or fragment's selection set (empty for a leaf).                *)
(***************************************************************************)
EXTENDS Naturals, Sequences, SequencesExt, TLC

CONSTANTS
    Schema,     \* type name -> [kind, fields : field name -> named type]
    FieldSets,  \* validated field sets
    None

VARIABLES
    fieldSet,     \* the field set being processed
    phase,        \* "parse", "collect", "done"
    aliasErrors,  \* the aliases check_absence_of_aliases reports
    stack,        \* the walk's stack of selection sets (top last)
    fields,       \* the field positions collected so far
    collectError  \* an internal error returned by the walk, or None

vars == <<fieldSet, phase, aliasErrors, stack, fields, collectError>>

(***************************************************************************)
(* check_absence_of_aliases.  visit_selection_set pushes an error per     *)
(* aliased field into the shared list and recurses into sub-selections;  *)
(* an inline fragment is checked by a fresh check_absence_of_aliases     *)
(* whose Err is returned at once with `?`.  The visit yields             *)
(* [errs, fail]: fail is the fragment's error list that cut it short.     *)
(***************************************************************************)
RECURSIVE VisitSelectionSet(_, _), CheckAbsenceOfAliases(_)

\* Mutant: sub-selections of a field are not visited.
VisitSelectionSetShallow(errs, ss) ==
    FoldLeft(LAMBDA acc, s :
               IF acc.fail # None THEN acc
               ELSE IF s.kind = "fragment"
                    THEN LET inner == CheckAbsenceOfAliases(s.sub) IN
                         IF inner # <<>> THEN [acc EXCEPT !.fail = inner] ELSE acc
                    ELSE IF s.alias # None
                         THEN [acc EXCEPT !.errs = Append(@, s.alias)] ELSE acc,
             [errs |-> errs, fail |-> None], ss.sels)

VisitSelectionSet(errs, ss) ==
    FoldLeft(LAMBDA acc, s :
               IF acc.fail # None THEN acc
               ELSE IF s.kind = "fragment"
                    THEN LET inner == CheckAbsenceOfAliases(s.sub) IN
                         IF inner # <<>> THEN [acc EXCEPT !.fail = inner] ELSE acc
                    ELSE LET withAlias ==
                                 IF s.alias # None THEN Append(acc.errs, s.alias) ELSE acc.errs
                             r == VisitSelectionSet(withAlias, s.sub)
                         IN IF s.sub.sels # <<>> THEN r ELSE [acc EXCEPT !.errs = withAlias],
             [errs |-> errs, fail |-> None], ss.sels)

\* The reported aliases; the empty sequence is Ok.
CheckAbsenceOfAliases(ss) ==
    LET r == VisitSelectionSet(<<>>, ss) IN
    IF r.fail # None THEN r.fail ELSE r.errs

IsComposite(t) == t \in DOMAIN Schema /\ Schema[t].kind \in {"object", "interface", "union"}

(***************************************************************************)
(* One pass of the while-let loop body for a popped selection set: the    *)
(* selections are visited in reverse; a field's position is appended and *)
(* its non-empty sub-selection pushed, an inline fragment's pushed.      *)
(***************************************************************************)
\* Mutant: every field attributed to the field set's root type.
VisitPoppedRootType(ss, st, fs) ==
    FoldLeft(LAMBDA acc, s :
               IF s.kind = "field"
               THEN [fields |-> Append(acc.fields, <<fieldSet.ty, s.name>>),
                     stack |-> IF s.sub.sels # <<>> THEN Append(acc.stack, s.sub) ELSE acc.stack]
               ELSE [acc EXCEPT !.stack = Append(@, s.sub)],
             [fields |-> fs, stack |-> st], Reverse(ss.sels))

\* Mutant: inline fragments are not descended into.
VisitPoppedNoFragments(ss, st, fs) ==
    FoldLeft(LAMBDA acc, s :
               IF s.kind = "field"
               THEN [fields |-> Append(acc.fields, <<ss.ty, s.name>>),
                     stack |-> IF s.sub.sels # <<>> THEN Append(acc.stack, s.sub) ELSE acc.stack]
               ELSE acc,
             [fields |-> fs, stack |-> st], Reverse(ss.sels))

VisitPopped(ss, st, fs) ==
    FoldLeft(LAMBDA acc, s :
               IF s.kind = "field"
               THEN [fields |-> Append(acc.fields, <<ss.ty, s.name>>),
                     stack |-> IF s.sub.sels # <<>> THEN Append(acc.stack, s.sub) ELSE acc.stack]
               ELSE [acc EXCEPT !.stack = Append(@, s.sub)],
             [fields |-> fs, stack |-> st], Reverse(ss.sels))

Init ==
    /\ fieldSet \in FieldSets
    /\ phase = "parse"
    /\ aliasErrors = <<>>
    /\ stack = <<>>
    /\ fields = <<>>
    /\ collectError = None

\* parse_field_set's alias check, then collect_target_fields_from_field_set
\* is called on the same field set: its stack starts with the root set.
ParseFieldSet ==
    /\ phase = "parse"
    /\ aliasErrors' = CheckAbsenceOfAliases(fieldSet)
    /\ stack' = <<fieldSet>>
    /\ phase' = "collect"
    /\ UNCHANGED <<fieldSet, fields, collectError>>

\* One iteration of `while let Some(selection_set) = stack.pop()`.
CollectStep ==
    /\ phase = "collect"
    /\ stack # <<>>
    /\ LET ss == Last(stack)
           rest == Front(stack)
       IN IF ~IsComposite(ss.ty)
          THEN /\ collectError' = "non-composite selection set type"
               /\ phase' = "done"
               /\ UNCHANGED <<stack, fields>>
          ELSE LET r == VisitPopped(ss, rest, fields) IN
               /\ stack' = r.stack
               /\ fields' = r.fields
               /\ UNCHANGED <<phase, collectError>>
    /\ UNCHANGED <<fieldSet, aliasErrors>>

\* The loop ends when the stack is empty: Ok(fields).
CollectDone ==
    /\ phase = "collect"
    /\ stack = <<>>
    /\ phase' = "done"
    /\ UNCHANGED <<fieldSet, aliasErrors, stack, fields, collectError>>

Next == ParseFieldSet \/ CollectStep \/ CollectDone

Spec == Init /\ [][Next]_vars

-----------------------------------------------------------------------------
\* The field definitions of the schema, as (type, field) positions.
Positions == UNION {{<<t, f>> : f \in DOMAIN Schema[t].fields} : t \in DOMAIN Schema}

TypeOK ==
    /\ fieldSet \in FieldSets
    /\ phase \in {"parse", "collect", "done"}
    /\ \A i \in 1..Len(fields) : fields[i] \in Positions
    /\ collectError \in {None, "non-composite selection set type"}

\* Every alias written anywhere in a selection set, fragments included.
RECURSIVE AliasesIn(_)
AliasesIn(ss) ==
    UNION {(IF ss.sels[i].alias # None THEN {ss.sels[i].alias} ELSE {})
             \cup AliasesIn(ss.sels[i].sub) : i \in 1..Len(ss.sels)}

\* The positions a field set selects, in document order, each field
\* selection once: a field of a selection set is a field of that set's type.
RECURSIVE TargetFields(_)
TargetFields(ss) ==
    FlattenSeq([i \in 1..Len(ss.sels) |->
        IF ss.sels[i].kind = "field"
        THEN <<<<ss.ty, ss.sels[i].name>>>> \o TargetFields(ss.sels[i].sub)
        ELSE TargetFields(ss.sels[i].sub)])

(***************************************************************************)
(* parse_field_set rejects a field set exactly when it has an alias, at   *)
(* any depth and inside inline fragments, and every alias it reports is   *)
(* one the field set uses.                                                 *)
(***************************************************************************)
AliasesRejected ==
    phase # "parse" =>
        /\ (aliasErrors = <<>>) = (AliasesIn(fieldSet) = {})
        /\ ToSet(aliasErrors) \subseteq AliasesIn(fieldSet)

(***************************************************************************)
(* The walk over a validated field set ends without an internal error,     *)
(* and lists each field selection exactly once with the type it is        *)
(* selected on (a fragment's condition inside a fragment), whatever the  *)
(* order the stack pops them in.                                          *)
(***************************************************************************)
CollectsEveryField ==
    phase = "done" =>
        /\ collectError = None
        /\ ToSet(fields) = ToSet(TargetFields(fieldSet))
        /\ Len(fields) = Len(TargetFields(fieldSet))
=============================================================================
