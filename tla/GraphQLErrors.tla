----------------------------- MODULE GraphQLErrors -----------------------------
(***************************************************************************)
(* apollo-router/src/graphql/mod.rs: how the router turns the JSON of an *)
(* error a subgraph sent into its graphql::Error [message, locations,     *)
(* path, extensions]: Error::from_value, for an entry of a response's     *)
(* `errors`, and Error::from_value_completion_value, for a value          *)
(* completion error, both through skip_invalid_locations.                 *)
(*                                                                         *)
(* A JSON value (serde_json_bytes::Value) is [t, v]: t its kind, v a       *)
(* number, a string, a function from keys (an object) or a sequence (an  *)
(* array).  Numbers are integers; u32::MAX is the constant U32Max, so     *)
(* that a location past it fits in TLC's integers.                        *)
(***************************************************************************)
EXTENDS Integers, Sequences, SequencesExt

CONSTANTS
    None,       \* Option::None
    U32Max      \* u32::MAX (scaled down)

Null    == [t |-> "null", v |-> None]
Num(n)  == [t |-> "number", v |-> n]
Str(s)  == [t |-> "string", v |-> s]
Obj(f)  == [t |-> "object", v |-> f]
Arr(s)  == [t |-> "array", v |-> s]

\* Value::get on a key: a member of an object, None for anything else.
Get(x, k) == IF x.t = "object" /\ k \in DOMAIN x.v THEN x.v[k] ELSE None

IsU32(x) == x # None /\ x.t = "number" /\ x.v \in 0..U32Max

(***************************************************************************)
(* Deserializing Location { line: u32, column: u32 } (serde derive): from  *)
(* an object with both members, others ignored, or from an array of the   *)
(* two numbers.  None when it does not deserialize.                       *)
(***************************************************************************)
DeserializeLocation(l) ==
    IF IsU32(Get(l, "line")) /\ IsU32(Get(l, "column"))
    THEN [line |-> l.v["line"].v, column |-> l.v["column"].v]
    ELSE IF l.t = "array" /\ Len(l.v) = 2 /\ IsU32(l.v[1]) /\ IsU32(l.v[2])
         THEN [line |-> l.v[1].v, column |-> l.v[2].v]
         ELSE None

\* Vec<Location>: an array whose every element deserializes.
DeserializeLocations(x) ==
    IF x.t = "array" /\ \A i \in 1..Len(x.v) : DeserializeLocation(x.v[i]) # None
    THEN [ok |-> TRUE, locations |-> [i \in 1..Len(x.v) |-> DeserializeLocation(x.v[i])]]
    ELSE [ok |-> FALSE]

\* Path (json_ext): an array of keys and indexes.
DeserializePath(x) ==
    IF x.t = "array" /\ \A i \in 1..Len(x.v) : x.v[i].t = "string" \/ IsU32(x.v[i])
    THEN [ok |-> TRUE, path |-> x.v]
    ELSE [ok |-> FALSE]

MinusOne(l, k) == Get(l, k) = Num(-1)

\* Mutant: `||` written `&&`, a location dropped when either member is -1.
SkipInvalidLocationsEither(x) ==
    IF x.t = "array"
    THEN Arr(SelectSeq(x.v, LAMBDA l : ~MinusOne(l, "line") /\ ~MinusOne(l, "column")))
    ELSE x

\* skip_invalid_locations: drop the { "line": -1, "column": -1 } that
\* GraphQL Java and Kotlin send for an unknown location.
SkipInvalidLocations(x) ==
    IF x.t = "array"
    THEN Arr(SelectSeq(x.v, LAMBDA l : ~MinusOne(l, "line") \/ ~MinusOne(l, "column")))
    ELSE x

(***************************************************************************)
(* Error::from_value.  ensure_object! and then one extract_key_value_from_ *)
(* object! per member, in order, each returning at once (`?`) with a      *)
(* SubrequestMalformedResponse naming the service and the member.  The    *)
(* macro (json_ext, outside this repository) treats a member that is      *)
(* absent or null alike, as None: it takes its default.  Any other value  *)
(* must match the member's kind.                                          *)
(***************************************************************************)
Malformed(service, member) == [ok |-> FALSE, service |-> service, member |-> member]

FromValue(service, value) ==
    LET f == value.v
        has(k) == k \in DOMAIN f /\ f[k] # Null
        locs == IF has("locations") THEN DeserializeLocations(SkipInvalidLocations(f["locations"]))
                ELSE [ok |-> TRUE, locations |-> <<>>]
        path == IF has("path") THEN DeserializePath(f["path"]) ELSE [ok |-> TRUE, path |-> None]
    IN IF value.t # "object" THEN Malformed(service, "error")
       ELSE IF has("extensions") /\ f["extensions"].t # "object" THEN Malformed(service, "extensions")
       ELSE IF has("message") /\ f["message"].t # "string" THEN Malformed(service, "message")
       ELSE IF ~locs.ok THEN Malformed(service, "locations")
       ELSE IF ~path.ok THEN Malformed(service, "path")
       ELSE [ok |-> TRUE,
             error |-> [message |-> IF has("message") THEN f["message"].v ELSE "",
                        locations |-> locs.locations,
                        path |-> path.path,
                        extensions |-> IF has("extensions") THEN f["extensions"].v ELSE <<>>]]

(***************************************************************************)
(* Error::from_value_completion_value: None for a non-object; otherwise   *)
(* every member is optional and a malformed one takes its default (`.ok()`*)
(* and unwrap_or_default), and the extensions get the response-validation *)
(* code and the WARN severity.                                            *)
(***************************************************************************)
ResponseValidationCode == "RESPONSE_VALIDATION_FAILED"

\* extensions.insert(..): a member already there is replaced.
Insert(ext, k, x) == (k :> x) @@ ext

\* Mutant: the code only added when the subgraph sent none.
CompletionExtensionsKeepCode(ext) ==
    IF "code" \in DOMAIN ext THEN Insert(ext, "severity", Str("WARN"))
    ELSE Insert(Insert(ext, "code", Str(ResponseValidationCode)), "severity", Str("WARN"))

CompletionExtensions(ext) ==
    Insert(Insert(ext, "code", Str(ResponseValidationCode)), "severity", Str("WARN"))

FromValueCompletionValue(value) ==
    LET e == Get(value, "extensions")
        m == Get(value, "message")
        l == Get(value, "locations")
        p == Get(value, "path")
        locs == IF l = None THEN [ok |-> FALSE] ELSE DeserializeLocations(SkipInvalidLocations(l))
        path == IF p = None THEN [ok |-> FALSE] ELSE DeserializePath(p)
    IN IF value.t # "object" THEN None
       ELSE [message |-> IF m # None /\ m.t = "string" THEN m.v ELSE "",
             locations |-> IF locs.ok THEN locs.locations ELSE <<>>,
             path |-> IF path.ok THEN path.path ELSE None,
             extensions |-> CompletionExtensions(IF e # None /\ e.t = "object" THEN e.v ELSE <<>>)]
=============================================================================
