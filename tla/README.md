# TLA+ models of the supergraph composer and the router layers

This directory holds TLA+ models of parts of the router and federation
crates under `src/`. The modules and the TLC runs that check them are listed
in `PROJECT.json`. Each model definition names the source lines it
translates in the `map` of `PROJECT.json`.

## The system and its parts

| Part | Source | Status |
|---|---|---|
| Supergraph composition (`Merger::merge`) | `apollo-federation/src/merge.rs` | modelled: `IndexMaps`, `TypeMergers`, `CoreFeatures`, `Merger` |
| Query analysis layer and parse cache | `apollo-router/src/services/layers/query_analysis.rs` | modelled: `QueryAnalysis` |
| Join spec definitions and argument decoders | `apollo-federation/src/link/join_spec_definition.rs` | modelled: `JoinSpec` (every argument decoder, `ContextArgument::try_from`), `CoreFeatures` (the version-gated definition accessors) |
| Field-set parsing | `apollo-federation/src/schema/field_set.rs` | partly: `FieldSet` (alias check and target-field walk; parsing is apollo-compiler's) |
| Connector validation | `apollo-federation/src/sources/connect/validation/mod.rs` | not modelled: a straight-line sequence over checks that live in submodules outside this repository |
| Selection execution | `apollo-router/src/query_planner/selection.rs` | modelled: `Selection` |
| Connector request service | `apollo-router/src/services/connector/request_service.rs` | modelled: `ConnectorRequestService`, refining `ConnectorRequests` |
| Content negotiation | `apollo-router/src/services/layers/content_negotiation.rs` | modelled: `ContentNegotiation` |
| Freeform GraphQL behaviour and safelist | `.../persisted_queries/freeform_graphql_behavior.rs` | modelled: `FreeformSafelist` |
| GraphQL errors from subgraph JSON | `apollo-router/src/graphql/mod.rs` | partly: `GraphQLErrors` (`Error::from_value`, `from_value_completion_value`, `skip_invalid_locations`; the builder and the trait impls are not modelled) |
| Federation schema accessors | `apollo-federation/src/schema/mod.rs` | partly: `SchemaDirectives` (the five directive-application accessors; the type lookups are apollo-compiler's) |
| Query-plan conversion, telemetry config | `query_planner/convert.rs`, `logging.rs`, `zipkin.rs` | not modelled: data conversion with no control worth a model |

**Composition.** `merge_subgraphs` takes N subgraph schemas and builds one
supergraph. The supergraph is annotated with join directives that record
which subgraph provides each type, field, member and value. The query
planner reads nothing else. `Merger::merge` runs these steps in order:

1. Sort the subgraphs by name.
2. Derive a token (`NAME.to_uppercase()`) per subgraph. Any invalid name
   aborts with no schema.
3. Install the `link` and `join` core features, including a `join__Graph`
   enum keyed by token.
4. For each subgraph:
   - merge its schema definition: roots are last writer wins;
   - dispatch every type to its per-kind merger;
   - add its executable directive definitions: first writer wins.

The code is synchronous. What makes it hard is the data: the result
depends on the order, first-writer and last-writer rules interact, and a
subgraph's contribution is recorded by directives that are easy to
misattribute.

**Reading the supergraph back.** The query planner reads the join
directives through the argument decoders of `JoinSpecDefinition`
(`*_directive_arguments`). These take a required argument or fail, read an
optional one as `None`, and give the booleans of `@join__type` their
defaults. Composition writes the same directives argument by argument,
and omits a boolean that has its default. The two sides are separate code
that must agree on every name and default.

**Connector requests.** Each connector source has a tower `Buffer` in front
of a `ConnectorRequestService`. `call` reads the request's context (the
request limits and the `connector.request` event's condition) and returns
a future. The future takes these steps in order:

1. check the request limit, and refuse the request with
   `RequestLimitExceeded`;
2. log the request if the event wants it;
3. await the HTTP client, or fail when the source has none;
4. rename an HTTP status failure after the connector;
5. count the request in `apollo.router.operations.connectors`;
6. run `process_response`.

Requests of different clients run concurrently, so their steps interleave.

**Query analysis.** Every supergraph request runs through
`QueryAnalysisLayer::supergraph_request`:

1. An empty query is a 400.
2. Otherwise the layer looks up `(query, operation name)` in a shared
   `Mutex<LruCache>`.
3. On a miss it awaits `parse_document` on the compute pool. The pool
   answers a `TemporaryError` under back-pressure. Otherwise
   `ParsedDocumentInner::new` selects the operation with `get_operation`:
   the one the request names, or with no name the only one there is. A
   name the document lacks, or no name in a document of several
   operations, is a `SpecError`.
4. It then takes the lock again to store the result: the document with a
   context holding the operation's name and kind, or the `SpecError`.

Requests run concurrently. The lock is released during the parse, so
lookups, parses, puts and evictions of different requests interleave.

**Freeform GraphQL safelist.** With persisted queries, a request that
sends a query body instead of an id is judged by
`FreeformGraphQLBehavior`: allow all, deny all, allow only bodies in the
manifest (`AllowIfInSafelist`), or allow everything and log unknown bodies
(`LogUnlessInSafelist`). The safelist is the set of manifest bodies after
`normalize_body`: operations then fragments, each sorted by name, printed;
a body that does not parse is kept as it is.

**Content negotiation.** Two layers share one context value. The router
layer answers 415 to a non-GET request without a JSON `Content-Type`,
parses `Accept` into `ClientRequestAccepts`, and answers 406 when it
admits nothing the router sends. The supergraph layer reads the value back
on the first response and sets `Content-Type`: JSON for a single response,
else the defer multipart type, else the subscription one.

**Selection execution.** Before an entity is sent to a subgraph for a
`@requires`, `execute_selection_set` projects its JSON onto a selection
set: fields by response key (alias or name), `__typename` filled in from
the known type, missing nullable fields set to null, a missing non-null
field nulling the whole object, and inline fragments applied when their
type condition matches and deep-merged into the output.

**Errors from subgraphs.** The same subgraph responses carry `errors`.
`Error::from_value` turns each entry into a `graphql::Error`: it takes
`extensions`, `message`, `locations` and `path` out of the object in that
order, and the first member of the wrong kind fails the whole entry with
`SubrequestMalformedResponse`. Before the locations are read,
`skip_invalid_locations` drops the `{line: -1, column: -1}` placeholder
that GraphQL Java and Kotlin send. `from_value_completion_value` reads a
value-completion error leniently: every malformed member takes its
default, and the error gets the response-validation code.

## Modules

- `IndexMaps`: `IndexMap`/`IndexSet` semantics. Insertion order is kept,
  and a re-inserted key keeps its place. Every collection of a schema is
  one of these.
- `TypeMergers`: the per-kind mergers as operators from (type map,
  token, type name, subgraph definition) to the new type map and a hint
  count:
  - `merge_enum_type`, `merge_input_object_type`, `merge_interface_type`,
    `merge_object_type` and `merge_union_type`;
  - the `copy_*` stubs;
  - `join_type_applied_directive` and the other `join_*` builders;
  - `parse_keys` and `merge_descriptions`.
- `CoreFeatures`: `add_core_feature_link`, `add_core_feature_join`, the six
  join directive definitions and `join_graph_enum_type`. It also holds the
  readers of `JoinSpecDefinition`: `graph_enum_definition` and the six
  `*_directive_definition` accessors. Each accessor returns an internal
  error when a required definition is missing, and `Ok(None)` below the
  join version that introduced the directive (0.2 for
  `@join__implements`, 0.3 for `@join__unionMember` and
  `@join__enumValue`). The spec's prefixed lookups (`link/spec_definition.rs`)
  are not in this repository and are modelled from the spec.
- `Merger`: `Merger::merge` as a state machine. `pc` is the statement about
  to run.
  - Actions: `DeriveTokens`, `AbortOnTokenErrors`, `Bootstrap`,
    `MergeSchema`, one action per dispatched type kind (`MergeObject`, …,
    `SkipType`), `MergeDirectives` and `Finish`.
  - The input is chosen in `Init` from a pool, in every caller order, with
    distinct names.
- `QueryAnalysis`: one task per request.
  - Actions: `RejectMissingQuery`, `Lookup`, `ParseBackPressure` and
    `ParseAndStore`.
  - The cache is a sequence from least to most recently used, with
    `LruCache::get` (promote) and `put` (replace, or evict the least
    recent when full).
  - Completing the parse and the put that follows it are one step, because
    nothing another task can observe happens between them.
  - A query is a model value. `Documents` gives the operations of its
    text (name, query or mutation, root field names), or says it does not
    validate. `Parse` is what the parse job returns for a key: a SpecError,
    or the operation `GetOperation` selects with its root fields
    classified (`ParsedDocumentNew`). `OperationsGet` follows apollo-compiler's
    `OperationMap::get`, whose source is not in the repository.
  - A response is a 400, 503, or the operation name and kind the request's
    context receives.

- `FreeformSafelist`: `BuildSafelist` (`FreeformGraphQLSafelist::new`
  with `insert_from_manifest`), then `CheckRequest(body)`
  (`action_for_freeform_graphql`) for any request body.
  `NormalizeBody` uses a stable insertion sort (`SortByName`), as
  `sort_by_key` is stable. A document is a sequence of definitions
  `[kind, name, id]`; an unparseable body is `[printed |-> FALSE, text]`.
- `ContentNegotiation`: `RouterCheckpoint` (the whole checkpoint closure),
  `ServiceResponds` (the supergraph service in between, which streams
  `@defer` or a subscription only to a client accepting that multipart
  format: an assumption about code outside this file), and
  `SetContentType`. A header value is `[valid, items]`: `valid` is false
  when `to_str` fails, `items` are media-type records or `Malformed`.
- `Selection`: `execute_selection_set` and `type_condition_matches` as
  RECURSIVE operators; the loop over selections is `ExecFrom`, with its
  early return of null. `DeepMerge` stands for `type_aware_deep_merge`,
  which is not in this repository: objects merge key by key, arrays over
  their common prefix, a later null keeps the earlier value. The only
  action, `Execute`, applies it to an input chosen in `Init`.
- `GraphQLErrors`: operators only, with no state. A JSON value is `[t, v]`.
  `FromValue` follows the extraction order of `Error::from_value` with its
  early returns, and `FromValueCompletionValue` follows the lenient
  reader. Location deserialization follows serde's derive: an object with
  `line` and `column`, or an array of two numbers, each a u32. `u32::MAX`
  is the constant `U32Max`, set to 3 so that a number past it fits in
  TLC's integers. `MC_Selection` instantiates the module (`GE`) and checks
  it over 5762 error values.

- `JoinSpec`: the decoders of `join_spec_definition.rs` as operators over a
  directive application `[name, args]`. `args` is the argument list in
  push order, as `Directive::arguments` is a `Vec`. A lookup finds the
  first argument of a name; `Required` is the `?` on a missing required
  argument. `ContextArgumentTryFrom` is `ContextArgument::try_from`: the
  loop over input fields with its early returns, then `field_or_else` in
  field order. `TypeMergers` and `CoreFeatures` build every join directive
  as such an argument list, in the order `merge.rs` pushes the arguments.
  The `Merger` properties decode them with `Decode`.
- `ConnectorRequestService`: the detailed model of the connector service.
  - Actions: `Oneshot` (a caller starts waiting for a slot of the
    `Buffer`), `Submit` (it gets one of the slots), `Call`, `Poll` (the limit
    check and `log_request`, then the HTTP client or the no-client
    failure), `TransportReturns` (`replace_subgraph_name` and the counter)
    and `ProcessResponse`.
  - Request limits, the HTTP client and `process_response` are outside
    this file. They are nondeterministic choices.
- `ConnectorRequests`: the abstract service. A submitted request is
  answered once, with a result its context and connector admit, and every
  answer other than a refusal is counted.
- `FieldSet`: `ParseFieldSet` runs `check_absence_of_aliases`, as
  `VisitSelectionSet`/`CheckAbsenceOfAliases` with the fragment's `?`
  early return, then starts `collect_target_fields_from_field_set`.
  `CollectStep` is one iteration of its `while let … stack.pop()`, and
  `CollectDone` is the loop's end. The input is a validated field set
  `[ty, sels]`; parsing and validation belong to apollo-compiler.
- `SchemaDirectives`: operators only, with no state. They model the
  accessors that supply the field sets: `key_directive_applications`,
  `provides_…`, `requires_…`, `context_…` and `from_context_…`. A schema
  is a record of whether the federation spec is found, the directive
  definitions found, the referencers (directive -> position kind ->
  positions in order) and what `position.get` finds at each position.
  `Applications` holds the three `?` lookups before the loops, and
  `ApplicationsAt` holds one loop. Per position, the loop yields one entry
  per application of the directive, an `Err` when its arguments do not
  parse, or one `Err` when the position cannot be got.

Data abstraction:
- A subgraph name is a sequence of character codes. Uppercasing, the
  GraphQL name check and byte order are computed.
- A type name is a pair `<<namespace, name>>`.
- A `@key` field set is its sequence of whitespace-separated words.
- Descriptions, urls and queries are model values.
- Field types, default values and argument types are left out, because no
  property reads them.
- JSON values are records `[t, obj, arr, str]`; objects are functions, as
  the router's object map compares without regard to key order.

## Runs

| Run | Expect | What it shows |
|---|---|---|
| `merger_types` | pass | Two subgraphs, each with an entity schema or an abstract-type schema. Entity schemas hold `Query` and `Product`, with keys with or without `resolvable`, an interface, conflicting descriptions, an argument on `id`, and executable or type-system directives. Abstract-type schemas hold interfaces, `@interfaceObject`, enums, unions and inputs. See below. |
| `merger_tokens` | pass | Names whose byte order differs from their tokens' order, plus a name whose token is invalid. See below. |
| `merger_token_collision` | violation | `a` and `A` share token `A`, and one `join__Graph` value is lost. |
| `merger_nested_keys` | violation | With `@key(fields: "owner { name }")`, the top-level field `name` loses its `@join__field`. |
| `query_analysis_cache` | pass | Three concurrent requests share a two-entry cache. See below. |
| `freeform_safelist` | pass | Every behaviour, against every manifest of one or two bodies. See below. |
| `freeform_type_definitions` | violation | An operation plus a type definition is allowed by a safelist holding only the operation. |
| `content_negotiation` | pass | Every combination of method, up to two `Accept` values and one `Content-Type` value, for queries, `@defer` and subscriptions. See below. |
| `selection_projection` | pass | Every selection set of one or two selections over entities with missing, null, nested and list fields, and the conversion of 5762 subgraph error objects. See below. |
| `field_set_walk` | pass | Every field set of one or two root selections with nested object and interface selections, inline fragments and aliases. See below. |
| `connector_requests` | pass | Two concurrent requests through a one-slot `Buffer`, to a connector with an HTTP client and one without, with and without request limits and request events. See below. |

What the passing runs check:
- `merger_types`. The properties read the supergraph through the
  `JoinSpec` decoders, as the query planner does:
  - `JoinTypeGraphsExact`: for each subgraph, the decoded `@join__type`
    list of every type holds exactly the spec's directives for that
    subgraph's definition, with the decoder's defaults.
  - `JoinFieldOnNonKeyFields`: `@join__field` goes on exactly the non-key
    fields of entities and of `Query`.
  - `FieldNamesUnion`: a composed object's fields are the union of the
    subgraphs' fields.
  - `ExecutableDirectivesFirstWriter`: the directive union is first writer
    wins in name order.
  - `MembershipsAttributed`: every subgraph gets exactly its own
    `@join__unionMember`, `@join__enumValue` and `@join__implements`.
  - `JoinDirectivesDecode`: every join directive composition applies
    decodes, and its `graph` names a `join__Graph` value.
  - `StubArgumentsKept`: the fields of the subgraph that created a type
    keep that subgraph's arguments, whatever later subgraphs declare.
  - `ContextArgumentsDecodeStrictly`: a `contextArguments` item decodes
    exactly when spec 4.4 says so (the four fields, once each, all
    strings), and otherwise fails naming an offending field. This is a
    constant formula, so TLC evaluates it once, over every item of up to
    four input fields and the four fields with a fifth inserted.
- `merger_tokens`:
  - `FailsOnlyOnInvalidNames`: `merge()` fails with no schema exactly when
    some name is invalid.
  - `JoinGraphOnePerSubgraph`: `join__Graph` has one value per subgraph,
    in name order.
  - `BootstrapIntact` (an action property): once the link/join bootstrap
    has run, no step of `merge_schema` or of the type mergers changes a
    bootstrap type (`link__Purpose`, `join__Graph`, …). One pool input
    has a subgraph that itself defines `link__Purpose`; the
    `is_mergeable_type` filter keeps it out.
  - `JoinDefinitionsReadable`: every composed supergraph is readable
    through `JoinSpecDefinition`: `graph_enum_definition` finds the
    `join__Graph` enum with one value per subgraph, and each directive
    accessor, at every join version 0.1 to 0.5, returns the definition the
    bootstrap wrote or `None` below its version gate.
- `query_analysis_cache`: misses race, evictions happen, and the compute
  pool may push back.
  - `CacheHoldsParseResults`: the cache only holds a key's own parse
    result, never a back-pressure error.
  - `ResponseAgreesWithParse`: a cached answer equals what a fresh parse
    would give.

- `connector_requests`:
  - `CounterCountsAttempts`: the connectors counter equals the number of
    requests whose future got a result past the limit check. A refused
    request is never counted, a request without an HTTP client is, and
    no request is counted twice.
  - `LoggedExactlyAdmitted`: a `connector.request` event is logged for
    exactly the admitted requests whose event condition held when `call`
    read it.
  - `ImplementsConnectorRequests`: the service implements
    `ConnectorRequests` under a refinement mapping. A request's status is
    idle before `Oneshot`, answered once `ProcessResponse` has run, and
    pending in between, including while the caller waits for a slot of
    the full `Buffer`. The abstract counter counts answered, admitted
    requests. The property includes the abstract weak fairness: every
    request handed to `oneshot` is eventually answered, even one that
    found the `Buffer` full.
- `freeform_safelist`:
  - `DecisionMatchesManifest`: a request is allowed (or not logged)
    exactly when it has the same operations and fragments as some manifest
    body, in any order, or is byte for byte an unparseable manifest body.
    The reference compares definition multisets, not normalised strings.
- `content_negotiation`:
  - `RejectionStatus`: 415 and 406 exactly when no usable header admits
    the request. Non-ASCII values and malformed items are ignored, but a
    header made only of them still counts as present.
  - `ContentTypeAcceptable`: an accepted request's `Content-Type` is one
    the client's `Accept` admits by media-range matching.
    When the response is streamed (`has_next`), that type is one of the
    two multipart types.
- `selection_projection` (the properties use their own response-key,
  possible-types and entity-type definitions, not the code's):
  - `Idempotent`: selecting again from the output, for the type the first
    call resolved, gives the same output.
  - `ProjectionExact`: an object result has every directly selected key
    and only keys the selection set collects.
  - `FragmentsApplyToRuntimeType`: when the entity's runtime type is an
    object type, every inline fragment whose type condition includes it
    (the type itself, an interface it implements or a union it belongs
    to) and whose fields the entity has contributes its fields to the
    result.
  - `NullOnlyForMissingData`: an entity with every collected field (bar a
    `__typename` that can be inferred) never projects to null.
  - `SubgraphErrorsFromValue`: `Error::from_value` accepts exactly the
    error objects whose members are each of their kind and whose every
    location is a u32 pair or the placeholder. It keeps the locations in
    order, without placeholders. Any other entry fails, naming the first
    malformed member. A `null` member counts as absent and takes its
    default, as `extract_key_value_from_object!` (json_ext, outside this
    repository) treats it. The reference is written from the GraphQL error
    format, not from the code's extraction order. A location with only one
    -1 is malformed, not skipped.
  - `CompletionErrorsTolerant`: `from_value_completion_value` never fails
    on an object. It always sets the response-validation code and the WARN
    severity. It returns every location (placeholders left out), or none
    when any one is malformed.
  - The two error properties are about constant inputs and are stated of
    every finished selection (`Done => ...`). TLC evaluates their
    constant part once.

- `field_set_walk`:
  - `AliasesRejected`: a field set is rejected exactly when it uses an
    alias at any depth, and only aliases it uses are reported.
  - `CollectsEveryField`: the walk ends without an internal error and
    lists every field selection once, on the type it is selected on.
  - `DirectiveApplicationsComplete`: over 1024 subgraph schemas, each
    accessor fails as a whole exactly when the federation spec or the
    directive's definition is missing. Otherwise every referenced
    position that is gone gives one error. Every application at a
    position still there gives one entry, an error exactly when its
    arguments do not parse. Entries come grouped by position, in
    referencer order. It is a `Done => ...` guard like the selection
    run's. The field sets the walk checks are the ones these accessors
    list.

The three violation runs are recorded as findings in `PROJECT.json`: one
code bug (`merger_token_collision`) and two places where the code
disagrees with the spec or a doc comment. Further
divergences met while modelling are kept as hazards, not runs:
- an `@interfaceObject`'s fields are not merged into an existing
  interface (the code marks it `TODO merge fields`);
- an input object keeps only the first subgraph's fields, where spec §3
  says union (the code logs a TODO warning);
- a client accepting both multipart formats gets the defer
  `Content-Type` for a subscription;
- an alias inside an inline fragment hides the other alias errors
  (`node { j: id ... on User { k: name } }` reports only `k`).
- re-selecting from a projected value with the caller's type, not the
  type the first call resolved, is not idempotent: `... on User { job {
  title } }` over `{__typename: User}` with no caller type gives
  `{job: null}`, and selecting that again gives `{}`. No code in this
  repository re-selects a projected value.

Every property of a passing run has a mutant in `PROJECT.json`. A mutant is
a plausible bug in the mapped code that makes TLC report the property.
Examples:
- `to_uppercase` forgotten;
- the `interface` argument read as `name`, or a repeated
  `contextArguments` field overwriting the first;
- a later subgraph's field arguments written over the stub's;
- a refused request counted, or logged before the limit check;
- a `Buffer` permit that needs two free slots, so a waiting caller is
  never admitted;
- `unwrap_or(&true)` read as `false`;
- the `_service` filter dropped;
- `Query` no longer routed;
- last writer wins for directives;
- sorting by token;
- a back-pressure error cached;
- `||` written `&&` in `skip_invalid_locations`, or a subgraph's own
  error code kept by value completion;
- `position.get(..)?` in a directive-application loop, so that one stale
  position fails the whole list;
- `trim()` forgotten;
- fragments left unsorted by normalisation;
- `header_present` set only for valid values;
- JSON sent whatever the client accepts;
- the `has_next` test dropped;
- the alias ignored;
- `__typename` ignored, or tested on the response key;
- sub-selections not visited by the alias check;
- fragments not descended into, or fields attributed to the root type
  by the walk.

## Bounds

- **Two subgraphs**, in both orders, are enough for every rule of the
  mergers:
  - each rule relates an existing supergraph entry to one new definition;
  - with two subgraphs, each of them is the first to define a type in
    some order.
- **One argument.** An `id` field with an argument, met by an `id` without
  one, is enough for a later subgraph to overwrite the stub's arguments.
- **Connector requests**: two requests and a one-slot `Buffer`. Each
  request picks a connector with an HTTP client or one without. This is
  enough for one request to wait on the buffer while the other is past
  the limit check, and for a refused request to interleave with a
  counted one.
- **Three subgraphs** in `merger_tokens`, so that the byte order of names
  (`Z` < `_z` < `a`) differs from the order of their tokens (`A` < `Z` <
  `_Z`). The invalid name `1a` sits among valid ones. Each subgraph may
  also define its own `link__Purpose`, so that the bootstrap's copy is
  the one a later step could overwrite.
- **Query analysis**: three requests over six queries (one operation, a
  query and a mutation, an anonymous query, an invalid document, and
  absent or blank) and three operation names (`A`, `B`, none), with a
  cache limit of two. This lets:
  - two requests race on one key while a third evicts it;
  - the operation name decide the result for the same query text;
  - every outcome of `get_operation` happen except `NoOperation`, which a
    valid document cannot reach.

  Requests are symmetric, so the run uses `SYMMETRY`.
- **Freeform safelist**: manifests of one or two bodies among an
  operation, an operation with a fragment, an operation with two
  fragments out of order, an anonymous operation and an unparseable
  body; requests of one to three distinct definitions in every order, and
  raw bodies. Two definitions out of order are enough for the sort; the
  type definition is only in the violation run's requests.
- **Content negotiation**: 6594 requests, covering every branch of
  `parse_accept` and `content_type_is_json`, a header split over two
  values, and a value whose list holds a malformed item before a good one.
- **Field sets**: 132 field sets on `Product`, with nested `User` and
  `Node` selections, fragments on an interface and on its implementer, and
  aliases at the root, nested, and inside a fragment next to another
  alias.
- **Directive applications**: eight positions, one of each referencer
  kind the accessors walk (two object types). Each position applies
  between one and three directives, and `Product` has two `@key`s. The
  1024 schemas vary:
  - whether the federation spec is found;
  - whether `@requires`' definition is found;
  - whether the second `@key` parses;
  - which subset of positions has gone from the schema while still
    referenced.
- **Selection**: a schema with an object implementing an interface, a
  second one, a union of both and a nested object type with a non-null
  field; 73 entities and 182 selection sets of depth two, in four
  caller types (none, object, interface, union).
- **Subgraph errors**: every combination of message, extensions, locations
  and path, each absent, `null`, of the wrong kind or well formed. The
  locations are lists of up to two items among: line and column each -1,
  1 or `u32::MAX + 1`, a location without a column, the array form, and a
  string. That gives 5762 values, which include every early return of
  `from_value` and both sides of the placeholder test.

## Fairness

- `Merger`: `WF_vars(Next)`. `merge()` is a synchronous call with no
  waiting, so the next statement always runs. No liveness property is
  checked of it: its loops run over finite `Vec`s and end whatever the
  code does.
- `ConnectorRequestService`: weak fairness on `Call`, and per request on
  `Poll`, `TransportReturns` and `ProcessResponse`. The buffer's worker
  calls the service whenever it holds a request. The runtime polls every
  future. The HTTP client is assumed to answer, as its timeout layer sits
  outside this file. `Submit` is weakly fair per request: a caller
  waiting in `poll_ready` gets a permit once a slot stays free, as the
  `Buffer`'s tokio semaphore hands permits out in FIFO order. `Oneshot`
  has no fairness, since a client need not send.
- `QueryAnalysis`: weak fairness per request task. The runtime polls every
  task, and the lock is held only for a single get or put.
- Both models stop when their calls return. Their configurations therefore
  disable deadlock checking.
- `FreeformSafelist`, `ContentNegotiation`, `Selection` and `FieldSet` check safety
  only and assume no fairness. The safelist model keeps taking requests
  and is checked for deadlock; the other two end after one request and
  disable it.

## Not modelled, and why

- **Field types and default values** are left out. Field arguments are
  names. A field a later subgraph adds is inserted with no arguments
  (`merge.rs:355`). No part of the spec says otherwise, so that is kept
  as a hazard. `StubArgumentsKept` checks the fields the stub copies.
- **A renamed root query type and `join__`-named subgraph types** are not
  generated by the pools yet.
- **Kind conflicts other than object against interface** are not generated.
- **In query analysis**, the parsed document's content, authorization
  analysis and usage reporting are left out. They write only to the
  request's own context.
- **Content negotiation** leaves out the error bodies' wording. The
  supergraph service between the layers is an assumption (see
  `ServiceResponds`).
- **Selection** does not model `type_aware_deep_merge` from its source,
  which is outside this repository, and its reference does not yet
  compare `type_condition_matches` with GraphQL's possible-types overlap.
- **Field sets**: `parse_field_set_without_normalization`,
  `parse_field_value_without_validation` and the unvalidated legacy
  branch of the walk only call apollo-compiler; `validate_field_value`
  runs the same alias check that is modelled.
- **GraphQL errors**: the `Error` builder only copies its arguments. It
  adds the extension code unless one is given. `From<CompilerExecutionError>`
  casts `usize` lines to `u32`, which would need a document of more than
  4 billion lines to truncate. `Display` and the error-extension traits
  format text. `json_ext::Path` deserialization, outside this repository,
  is abstracted to an array of keys and indexes.
- **Federation schema accessors**: `get_types`, `get_type`,
  `possible_runtime_types`, `entity_type`, the subgraph metadata and
  `ValidFederationSchema` look up apollo-compiler's schema or the
  federation link module. Both are outside this repository. The
  referencers, the federation spec and argument parsing are inputs of
  `SchemaDirectives`.
- **Connector validation** (`validate()`, `parse_url`, `Code::severity`)
  is a straight-line sequence: two early returns, then the messages of
  three checks concatenated and one hint appended. Every check it runs
  lives in submodules of `validation/` that are not in this repository.
  A model would only restate those lines, with nothing interleaving or
  persisting for TLC to explore.
- **`SpecDefinition`'s own lookups** (`directive_specs`, `type_specs`) are
  `todo!()` in `join_spec_definition.rs`.
- **Connector request service**: message texts, headers, the debug
  capture and the conversion of errors to GraphQL are left out. The
  panic in `create` for an unknown source is not reachable in the model,
  because every source gets a `Buffer`.
