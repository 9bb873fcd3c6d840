--------------------------- MODULE FreeformSafelist ---------------------------
(***************************************************************************)
(* Freeform GraphQL handling of persisted queries                          *)
(* (apollo-router/src/services/layers/persisted_queries/                   *)
(* freeform_graphql_behavior.rs): the safelist of normalised manifest      *)
(* bodies, and the allow/log decision for a request body.                  *)
(*                                                                         *)
(* A body either parses into a document, a sequence of definitions, or    *)
(* it does not and is kept as its raw text.  A definition is a record    *)
(* [kind, name]: kind "operation", "fragment" or "type" (any other        *)
(* top-level definition); a name is a number, 0 for an anonymous          *)
(* operation (Option::None sorts before every Some).  Printing the        *)
(* document (to_string) is modelled by the printed document itself: it    *)
(* tags the definition sequence so that it never equals a raw body.       *)
(***************************************************************************)
EXTENDS Naturals, Sequences, SequencesExt, FiniteSets

CONSTANTS
    Manifests,   \* the persisted-query manifests the router may load
    Requests,    \* request bodies: [ok |-> TRUE, defs] or [ok |-> FALSE, raw]
    Modes,       \* FreeformGraphQLBehavior values: [kind, log_unknown, apq_enabled]
    None         \* no request checked yet

VARIABLES
    mode,        \* the configured FreeformGraphQLBehavior
    manifest,    \* the PersistedQueryManifest bodies
    safelist,    \* FreeformGraphQLSafelist::normalized_bodies
    pc,          \* "build" until the safelist exists, then "serve"
    request,     \* the body of the last request checked
    action       \* the FreeformGraphQLAction returned for it

vars == <<mode, manifest, safelist, pc, request, action>>

(***************************************************************************)
(* sort_by_key(|x| x.name): a stable sort.                                 *)
(***************************************************************************)
\* Insert d after every element whose name is not greater.
RECURSIVE InsertByName(_, _)
InsertByName(s, d) ==
    IF s = <<>> THEN <<d>>
    ELSE IF d.name < Head(s).name THEN <<d>> \o s
    ELSE <<Head(s)>> \o InsertByName(Tail(s), d)

SortByName(s) == FoldLeft(InsertByName, <<>>, s)

IsOperation(d) == d.kind = "operation"
IsFragment(d) == d.kind = "fragment"

\* Mutant: fragments left in request order.
NormalizeBodyFragmentsUnsorted(body) ==
    IF ~body.ok THEN [printed |-> FALSE, text |-> body.raw]
    ELSE [printed |-> TRUE,
          text |-> SortByName(SelectSeq(body.defs, IsOperation))
                   \o SelectSeq(body.defs, IsFragment)]

(***************************************************************************)
(* normalize_body: a body that did not parse is kept verbatim; a document *)
(* is printed with its operations sorted by name, then its fragments      *)
(* sorted by name; any other definition is dropped (the `_ => {}` arm).   *)
(***************************************************************************)
NormalizeBody(body) ==
    IF ~body.ok THEN [printed |-> FALSE, text |-> body.raw]
    ELSE [printed |-> TRUE,
          text |-> SortByName(SelectSeq(body.defs, IsOperation))
                   \o SortByName(SelectSeq(body.defs, IsFragment))]

\* is_allowed: the normalised body is one of the safelist's.
IsAllowed(body) == NormalizeBody(body) \in safelist

(***************************************************************************)
(* action_for_freeform_graphql                                             *)
(***************************************************************************)
ActionFor(m, body) ==
    CASE m.kind = "AllowAll" -> [allow |-> TRUE, log |-> FALSE]
      [] m.kind = "DenyAll" -> [allow |-> FALSE, log |-> m.log_unknown]
      [] m.kind = "AllowIfInSafelist" ->
            IF IsAllowed(body) THEN [allow |-> TRUE, log |-> FALSE]
            ELSE [allow |-> FALSE, log |-> m.log_unknown]
      [] m.kind = "LogUnlessInSafelist" ->
            [allow |-> TRUE, log |-> ~IsAllowed(body)]

Init ==
    /\ mode \in Modes
    /\ manifest \in Manifests
    /\ safelist = {}
    /\ pc = "build"
    /\ request = None
    /\ action = None

\* Mutant: manifest bodies stored without normalising them.
BuildSafelistRaw ==
    /\ pc = "build"
    /\ safelist' = manifest
    /\ pc' = "serve"
    /\ UNCHANGED <<mode, manifest, request, action>>

\* FreeformGraphQLSafelist::new: insert_from_manifest for every body.
BuildSafelist ==
    /\ pc = "build"
    /\ safelist' = {NormalizeBody(b) : b \in manifest}
    /\ pc' = "serve"
    /\ UNCHANGED <<mode, manifest, request, action>>

\* A request's body reaches action_for_freeform_graphql.
CheckRequest(body) ==
    /\ pc = "serve"
    /\ request' = body
    /\ action' = ActionFor(mode, body)
    /\ UNCHANGED <<mode, manifest, safelist, pc>>

Next == BuildSafelist \/ \E b \in Requests : CheckRequest(b)

Spec == Init /\ [][Next]_vars

(***************************************************************************)
(* Properties                                                              *)
(***************************************************************************)
TypeOK ==
    /\ mode \in Modes
    /\ manifest \in Manifests
    /\ pc \in {"build", "serve"}
    /\ request \in Requests \cup {None}
    /\ action \in [allow : BOOLEAN, log : BOOLEAN] \cup {None}
    /\ pc = "build" => safelist = {}
    \* normalized_bodies holds printed documents or raw texts
    /\ \A n \in safelist : DOMAIN n = {"printed", "text"}

\* Two bodies are the same persisted operation: the same raw text, or
\* documents with the same definitions in any order.
SameBody(a, b) ==
    IF a.ok # b.ok THEN FALSE
    ELSE IF ~a.ok THEN a.raw = b.raw
    ELSE Len(a.defs) = Len(b.defs) /\ ToSet(a.defs) = ToSet(b.defs)

Known(body) == \E m \in manifest : SameBody(m, body)

(***************************************************************************)
(* The safelist decision (the normalisation comment): a request is known  *)
(* exactly when its body is a manifest body up to the order of its        *)
(* operations and fragments (clients choose that order at run time);     *)
(* AllowIfInSafelist allows exactly the known bodies and logs the others *)
(* when log_unknown, LogUnlessInSafelist allows all and logs exactly the *)
(* unknown ones, AllowAll allows all, DenyAll denies all.                *)
(***************************************************************************)
DecisionMatchesManifest ==
    action # None =>
        CASE mode.kind = "AllowAll" -> action = [allow |-> TRUE, log |-> FALSE]
          [] mode.kind = "DenyAll" -> action = [allow |-> FALSE, log |-> mode.log_unknown]
          [] mode.kind = "AllowIfInSafelist" ->
                action = [allow |-> Known(request),
                          log |-> ~Known(request) /\ mode.log_unknown]
          [] mode.kind = "LogUnlessInSafelist" ->
                action = [allow |-> TRUE, log |-> ~Known(request)]
=============================================================================
