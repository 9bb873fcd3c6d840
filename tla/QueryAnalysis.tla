---------------------------- MODULE QueryAnalysis ----------------------------
(***************************************************************************)
(* QueryAnalysisLayer::supergraph_request of                               *)
(* apollo-router/src/services/layers/query_analysis.rs: concurrent        *)
(* requests share one LRU cache of parse results behind a tokio Mutex.    *)
(*                                                                         *)
(* Each request is a task.  The mutex is only held inside one statement  *)
(* (lock().await.get(..).cloned() and lock().await.put(..)), so a cache   *)
(* read or write is one atomic step; parse_document is awaited with no   *)
(* lock held, which splits a request into a lookup step and a             *)
(* parse-and-store step that other requests interleave with.              *)
(*                                                                         *)
(* A query is a model value standing for its text; Documents gives the   *)
(* operations the text defines, and whether it parses and validates     *)
(* at all.  Parse gives what parse_document returns for a (query,    *)
(* operation name) key: the operation ParsedDocumentInner::new selects    *)
(* with get_operation, or a SpecError.  compute_job::execute may refuse  *)
(* the job under back-pressure (a TemporaryError) on any call.            *)
(***************************************************************************)
EXTENDS Naturals, Sequences, SequencesExt, FiniteSets

CONSTANTS
    Requests,     \* concurrent supergraph requests
    Queries,      \* query strings
    Absent,       \* body.query is None
    Blank,        \* the queries that are None or empty after trim()
    OpNames,      \* operation names a request may carry, NoName among them
    NoName,       \* operation_name: None, and the name of an anonymous operation
    Documents,    \* [Queries -> [valid : BOOLEAN, ops : SUBSET Operations]]
    Limit         \* configuration ... cache.in_memory.limit (NonZero)

ASSUME Absent \in Blank /\ Blank \subseteq Queries /\ Limit \in Nat \ {0}
ASSUME NoName \in OpNames

VARIABLES
    query,    \* query and operation name of each request
    pc,       \* where each request's task is
    cache,    \* the LruCache: Seq of <<key, result>>, least recent first
    resp      \* the response each request got

vars == <<query, pc, cache, resp>>

(***************************************************************************)
(* Operations and the parse result.                                        *)
(***************************************************************************)
RootFields == {"__typename", "__schema", "__type", "field"}

\* An operation of an executable document: its name (NoName when it is
\* anonymous), its type and the names of its root fields.
Operations == [name : OpNames, type : {"query", "mutation"}, root : SUBSET RootFields]

SpecErrors == {"invalid", "unknown_operation", "no_operation", "multiple_operations"}

Err(kind) == [ok |-> FALSE, error |-> kind]

\* executable.operations.get(operation_name) of apollo-compiler: the
\* operation of that name, or with no name the only operation there is.
OperationsGet(ops, name) ==
    IF name # NoName THEN {o \in ops : o.name = name}
    ELSE IF Cardinality(ops) = 1 THEN ops ELSE {}

\* get_operation: the selected operation, or the SpecError saying why
\* there is none.
GetOperation(ops, name) ==
    IF OperationsGet(ops, name) # {}
    THEN [ok |-> TRUE, op |-> CHOOSE o \in OperationsGet(ops, name) : TRUE]
    ELSE IF name # NoName THEN Err("unknown_operation")
    ELSE IF ops = {} THEN Err("no_operation")
    ELSE Err("multiple_operations")

\* ParsedDocumentInner::new: the operation with its root fields classified;
\* __schema and __type are introspection only in a query.
ParsedDocumentNew(ops, name) ==
    LET g == GetOperation(ops, name)
        introspection(f) == f \in {"__schema", "__type"} /\ g.op.type = "query"
    IN IF ~g.ok THEN g
       ELSE [ok |-> TRUE, name |-> g.op.name, type |-> g.op.type,
             hasSchemaIntrospection |-> \E f \in g.op.root : introspection(f),
             hasExplicitRootFields |->
                 \E f \in g.op.root : f # "__typename" /\ ~introspection(f)]

\* What parse_document's job returns for a key (computed once).
Parse ==
    [k \in Queries \X OpNames |->
        IF ~Documents[k[1]].valid THEN Err("invalid")
        ELSE ParsedDocumentNew(Documents[k[1]].ops, k[2])]

Results ==
    {Err(e) : e \in SpecErrors}
    \cup [ok : {TRUE}, name : OpNames, type : {"query", "mutation"},
          hasSchemaIntrospection : BOOLEAN, hasExplicitRootFields : BOOLEAN]

\* A response: the request goes on with the operation name and kind in its
\* context, or is answered with an error status.
Responses ==
    [code : {"none", "missing_query_400", "unavailable_503"}]
    \cup [code : {"400"}, error : SpecErrors]
    \cup [code : {"ok"}, operation : OpNames, kind : {"query", "mutation"}]

(***************************************************************************)
(* LruCache semantics.                                                     *)
(***************************************************************************)
Keys(c) == {c[i][1] : i \in 1..Len(c)}

Pos(c, k) == CHOOSE i \in 1..Len(c) : c[i][1] = k

Without(c, k) == SelectSeq(c, LAMBDA e : e[1] # k)

\* get: a hit moves the entry to the most-recent end.
LruGet(c, k) == IF k \in Keys(c) THEN Append(Without(c, k), c[Pos(c, k)]) ELSE c

\* Mutant: the capacity is not enforced.
LruPutUnbounded(c, k, v) == Append(Without(c, k), <<k, v>>)

\* put: replace and promote an existing key, or evict the least recent
\* entry when full and append.
LruPut(c, k, v) ==
    IF k \in Keys(c) \/ Len(c) < Limit
    THEN Append(Without(c, k), <<k, v>>)
    ELSE Append(Tail(c), <<k, v>>)

(***************************************************************************)
(* QueryAnalysisKey { query, operation_name }                              *)
(***************************************************************************)
\* Mutant: the operation name left out of the key.
KeyOfQueryOnly(q) == <<q[1], CHOOSE o \in OpNames : TRUE>>

KeyOf(q) == q

Init ==
    /\ query \in [Requests -> Queries \X OpNames]
    /\ pc = [r \in Requests |-> "start"]
    /\ cache = <<>>
    /\ resp = [r \in Requests |-> [code |-> "none"]]

\* Mutant: trim() forgotten, only an absent query counts as missing.
IsMissingNoTrim(q) == q = Absent

\* query.is_none() || query.unwrap().trim().is_empty()
IsMissing(q) == q \in Blank

\* No query string, or only whitespace: 400 MISSING_QUERY_STRING.
RejectMissingQuery(r) ==
    /\ pc[r] = "start"
    /\ IsMissing(query[r][1])
    /\ pc' = [pc EXCEPT ![r] = "done"]
    /\ resp' = [resp EXCEPT ![r] = [code |-> "missing_query_400"]]
    /\ UNCHANGED <<query, cache>>

\* The context a parsed document carries (OPERATION_NAME, OPERATION_KIND),
\* cached with it; a SpecError is a 400.
CachedResponse(v) ==
    IF v.ok THEN [code |-> "ok", operation |-> v.name, kind |-> v.type]
    ELSE [code |-> "400", error |-> v.error]

\* self.cache.lock().await.get(&key).cloned(): a hit answers from the
\* cached result; a miss goes on to parse_document.
Lookup(r) ==
    /\ pc[r] = "start"
    /\ ~IsMissing(query[r][1])
    /\ LET k == KeyOf(query[r]) IN
         /\ cache' = LruGet(cache, k)
         /\ IF k \in Keys(cache)
            THEN /\ pc' = [pc EXCEPT ![r] = "done"]
                 /\ resp' = [resp EXCEPT ![r] = CachedResponse(cache[Pos(cache, k)][2])]
            ELSE /\ pc' = [pc EXCEPT ![r] = "parsing"]
                 /\ UNCHANGED resp
    /\ UNCHANGED query

\* Mutant: the TemporaryError cached as if it were a parse failure.
ParseBackPressureCached(r) ==
    /\ pc[r] = "parsing"
    /\ pc' = [pc EXCEPT ![r] = "done"]
    /\ resp' = [resp EXCEPT ![r] = [code |-> "unavailable_503"]]
    /\ cache' = LruPut(cache, KeyOf(query[r]), Err("invalid"))
    /\ UNCHANGED query

\* parse_document refused by the compute pool: 503, nothing cached.
ParseBackPressure(r) ==
    /\ pc[r] = "parsing"
    /\ pc' = [pc EXCEPT ![r] = "done"]
    /\ resp' = [resp EXCEPT ![r] = [code |-> "unavailable_503"]]
    /\ UNCHANGED <<query, cache>>

\* parse_document completed: its result (Ok document or PermanentError)
\* is put into the cache under the lock, and answered: the document goes
\* on down the pipeline, the error is a 400.
ParseAndStore(r) ==
    /\ pc[r] = "parsing"
    /\ LET v == Parse[query[r]] IN
         /\ cache' = LruPut(cache, KeyOf(query[r]), v)
         /\ resp' = [resp EXCEPT ![r] = CachedResponse(v)]
    /\ pc' = [pc EXCEPT ![r] = "done"]
    /\ UNCHANGED query

Next ==
    \E r \in Requests :
        \/ RejectMissingQuery(r)
        \/ Lookup(r)
        \/ ParseBackPressure(r)
        \/ ParseAndStore(r)

\* Every request task is polled to completion by the runtime.
Fairness == \A r \in Requests : WF_vars(Lookup(r) \/ ParseAndStore(r) \/ RejectMissingQuery(r))

Spec == Init /\ [][Next]_vars /\ Fairness

(***************************************************************************)
(* Properties                                                              *)
(***************************************************************************)
TypeOK ==
    /\ query \in [Requests -> Queries \X OpNames]
    /\ pc \in [Requests -> {"start", "parsing", "done"}]
    /\ resp \in [Requests -> Responses]
    /\ \A i \in 1..Len(cache) : cache[i] \in (Queries \X OpNames) \X Results
    \* the LruCache holds each key once and at most Limit entries
    /\ Len(cache) <= Limit
    /\ Cardinality(Keys(cache)) = Len(cache)

(***************************************************************************)
(* Whatever the interleaving of lookups, parses and evictions, the cache  *)
(* only holds, under a (query, operation name) key, the result            *)
(* parse_document gives that key: a back-pressure TemporaryError is      *)
(* never cached, and no request's result is filed under another key.     *)
(***************************************************************************)
CacheHoldsParseResults ==
    \A i \in 1..Len(cache) : cache[i][2] = Parse[cache[i][1]]

\* What a fresh parse of request r's query could answer.
Allowed(q) ==
    IF q[1] \in Blank THEN {[code |-> "missing_query_400"]}
    ELSE {CachedResponse(Parse[q]), [code |-> "unavailable_503"]}

(***************************************************************************)
(* A request answered from the cache gets the answer a fresh parse of its *)
(* own query and operation name would give: a document, a 400 with the   *)
(* parse errors, or a 503 when the compute pool is saturated; an empty or *)
(* whitespace query is a 400 MISSING_QUERY_STRING.                        *)
(***************************************************************************)
ResponseAgreesWithParse ==
    \A r \in Requests : pc[r] = "done" => resp[r] \in Allowed(query[r])

=============================================================================
