----------------------------- MODULE MC_Selection -----------------------------
EXTENDS Selection

\* type User implements Node { id: ID!  name: String  job: Job  friends: [User] }
\* interface Node { id: ID! }   type Job { title: String! }
\* type Bot implements Node { id: ID! }   union Actor = User | Bot
F(named, nonNull) == [named |-> named, nonNull |-> nonNull]
T(kind, fields, implements, members) ==
    [kind |-> kind, fields |-> fields, implements |-> implements, members |-> members]

MCSchema ==
    [User  |-> T("object", [id |-> F("ID", TRUE), name |-> F("String", FALSE),
                            job |-> F("Job", FALSE), friends |-> F("User", FALSE)],
                 {"Node"}, {}),
     Node  |-> T("interface", [id |-> F("ID", TRUE)], {}, {}),
     Job   |-> T("object", [title |-> F("String", TRUE)], {}, {}),
     Bot   |-> T("object", [id |-> F("ID", TRUE)], {"Node"}, {}),
     Actor |-> T("union", <<>>, {}, {"User", "Bot"}),
     ID    |-> T("scalar", <<>>, {}, {}),
     String |-> T("scalar", <<>>, {}, {})]

\* An object from a set of optional entries: Absent leaves the key out.
Absent == [NullV EXCEPT !.t = "absent"]
Obj(entries) == ObjV([k \in {e[1] : e \in {e \in entries : e[2] # Absent}} |->
                        CHOOSE v \in {e[2] : e \in {e \in entries : e[1] = k}} : TRUE])

MCInputs ==
    {Obj({<<"__typename", tn>>, <<"id", id>>, <<"name", nm>>, <<"job", jb>>,
          <<"friends", fr>>}) :
        tn \in {Absent, StrV("User"), StrV("Bot")},
        id \in {Absent, StrV("1")},
        nm \in {Absent, NullV},
        jb \in {Absent, ObjV([title |-> StrV("t")]), ObjV(<<>>)},
        fr \in {Absent, ArrV(<<ObjV([id |-> StrV("2")]), ObjV(<<>>)>>)}}
    \cup {StrV("x")}

Fld(alias, name, sels) == [kind |-> "field", alias |-> alias, name |-> name, cond |-> None, sels |-> sels]
Frag(cond, sels) == [kind |-> "fragment", alias |-> None, name |-> "", cond |-> cond, sels |-> sels]

Pool ==
    {Fld(None, "id", <<>>), Fld(None, "name", <<>>), Fld(None, TYPENAME, <<>>),
     Fld("n", "name", <<>>), Fld("kind", TYPENAME, <<>>), Fld(None, "job", <<Fld(None, "title", <<>>)>>),
     Fld(None, "friends", <<Fld(None, "id", <<>>)>>),
     Frag("User", <<Fld(None, "id", <<>>)>>), Frag("Node", <<Fld(None, "id", <<>>)>>),
     Frag("Bot", <<Fld(None, "id", <<>>)>>), Frag("Actor", <<Fld(None, TYPENAME, <<>>)>>),
     Frag(None, <<Fld(None, "name", <<>>)>>),
     Frag("User", <<Fld(None, "job", <<Fld(None, "title", <<>>)>>)>>)}

MCSelectionSets == {<<s>> : s \in Pool} \cup {<<s, u>> : s, u \in Pool}

MCCurrentTypes == {None, "User", "Node", "Actor"}
\* ---- errors of the same subgraph responses (graphql/mod.rs) ----

GE == INSTANCE GraphQLErrors WITH U32Max <- 3

\* An error object from optional members: Absent leaves the member out.
ErrObj(members) == GE!Obj([k \in {m[1] : m \in {m \in members : m[2] # Absent}} |->
                            CHOOSE x \in {m[2] : m \in {m \in members : m[1] = k}} : TRUE])

Loc(l, c) == GE!Obj(("line" :> GE!Num(l)) @@ ("column" :> GE!Num(c)))

\* Locations with line and column among -1, 1 and u32::MAX + 1, one with
\* a line only, one in array form, and one that is not a location.
LocationItems ==
    {Loc(l, c) : l, c \in {-1, 1, 4}}
    \cup {GE!Obj("line" :> GE!Num(1)), GE!Arr(<<GE!Num(1), GE!Num(2)>>), GE!Str("x")}

ErrorValues ==
    {ErrObj({<<"message", m>>, <<"extensions", e>>, <<"locations", l>>, <<"path", p>>}) :
        m \in {Absent, GE!Str("m"), GE!Null},
        e \in {Absent, GE!Obj("code" :> GE!Str("SUBGRAPH_CODE")), GE!Null},
        l \in {Absent, GE!Null, GE!Str("x")}
              \cup {GE!Arr(<<>>)} \cup {GE!Arr(<<a>>) : a \in LocationItems}
              \cup {GE!Arr(<<a, b>>) : a, b \in LocationItems},
        p \in {Absent, GE!Arr(<<GE!Str("a"), GE!Num(0)>>), GE!Null, GE!Str("a")}}
    \cup {GE!Str("boom"), GE!Null}

\* The placeholder location GraphQL Java and Kotlin send when they have none.
Placeholder(l) == GE!Get(l, "line") = GE!Num(-1) /\ GE!Get(l, "column") = GE!Num(-1)

Members == <<"extensions", "message", "locations", "path">>

\* A member a subgraph error may carry, of the kind the GraphQL spec gives it;
\* a location is a pair of u32 numbers or the placeholder.
MemberWellFormed(f, k) ==
    CASE k = "extensions" -> f[k].t = "object"
      [] k = "message"    -> f[k].t = "string"
      [] k = "locations"  -> f[k].t = "array" /\
                             \A i \in 1..Len(f[k].v) :
                                 Placeholder(f[k].v[i]) \/ GE!DeserializeLocation(f[k].v[i]) # None
      [] k = "path"       -> GE!DeserializePath(f[k]).ok

\* A member the error gives a value: present and not null.
Given(x, k) == k \in DOMAIN x.v /\ x.v[k] # GE!Null

Malformed(x) == {i \in 1..Len(Members) : Given(x, Members[i]) /\ ~MemberWellFormed(x.v, Members[i])}

\* The locations of a well-formed error, placeholders left out, in order.
KeptLocations(x) ==
    IF ~Given(x, "locations") THEN <<>>
    ELSE LET ls == SelectSeq(x.v["locations"].v, LAMBDA l : ~Placeholder(l))
         IN [i \in 1..Len(ls) |-> GE!DeserializeLocation(ls[i])]

FromValueAsSpecified ==
    \A x \in ErrorValues :
        LET r == GE!FromValue("products", x) IN
        IF x.t # "object" THEN r = GE!Malformed("products", "error")
        ELSE IF Malformed(x) # {} THEN r = GE!Malformed("products", Members[Min(Malformed(x))])
        ELSE /\ r.ok
             /\ r.error.locations = KeptLocations(x)
             /\ r.error.message = IF Given(x, "message") THEN x.v["message"].v ELSE ""

CompletionAsSpecified ==
    \A x \in ErrorValues : x.t = "object" =>
        LET r == GE!FromValueCompletionValue(x) IN
        /\ r.extensions["code"] = GE!Str(GE!ResponseValidationCode)
        /\ r.extensions["severity"] = GE!Str("WARN")
        /\ r.locations = IF Given(x, "locations") /\ MemberWellFormed(x.v, "locations")
                         THEN KeptLocations(x) ELSE <<>>

(***************************************************************************)
(* Error::from_value converts an entry of a subgraph's `errors` exactly   *)
(* when it is an object whose members are each of their kind and whose    *)
(* every location is a pair of u32 numbers or the {line: -1, column: -1}  *)
(* placeholder; it keeps the locations in order without the placeholders. *)
(* Any other entry is a SubrequestMalformedResponse naming the service    *)
(* and the first malformed member, extensions, message, locations, path.  *)
(* A null member counts as absent.                                        *)
(* A location with one -1 member is malformed, not skipped.  The inputs   *)
(* are constants; the property is stated of every finished selection.     *)
(***************************************************************************)
SubgraphErrorsFromValue == Done => FromValueAsSpecified

(***************************************************************************)
(* Error::from_value_completion_value never fails on an object: whatever *)
(* the subgraph put there, the error carries the response-validation code  *)
(* and the WARN severity, and either every location, placeholders left    *)
(* out, or, when one location is malformed, none at all.                 *)
(***************************************************************************)
CompletionErrorsTolerant == Done => CompletionAsSpecified
=============================================================================
