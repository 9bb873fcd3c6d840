------------------------------ MODULE MC_FieldSet ------------------------------
EXTENDS FieldSet

\* type Product { id: ID  owner: User  node: Node }
\* type User implements Node { id: ID  name: String }   interface Node { id: ID }
MCSchema ==
    [Product |-> [kind |-> "object", fields |-> [id |-> "ID", owner |-> "User", node |-> "Node"]],
     User    |-> [kind |-> "object", fields |-> [id |-> "ID", name |-> "String"]],
     Node    |-> [kind |-> "interface", fields |-> [id |-> "ID"]],
     ID      |-> [kind |-> "scalar", fields |-> <<>>],
     String  |-> [kind |-> "scalar", fields |-> <<>>]]

SS(ty, sels) == [ty |-> ty, sels |-> sels]
Field(alias, name, sub) == [kind |-> "field", alias |-> alias, name |-> name, cond |-> None, sub |-> sub]
Leaf(alias, name, ty) == Field(alias, name, SS(ty, <<>>))
Frag(cond, sels) == [kind |-> "fragment", alias |-> None, name |-> "", cond |-> cond, sub |-> SS(cond, sels)]

UserSets ==
    {<<Leaf(None, "id", "ID")>>, <<Leaf(None, "name", "String")>>,
     <<Leaf(None, "id", "ID"), Leaf(None, "name", "String")>>,
     <<Leaf("i", "id", "ID")>>, <<Frag("Node", <<Leaf(None, "id", "ID")>>)>>}

NodeSets ==
    {<<Leaf(None, "id", "ID")>>, <<Frag("User", <<Leaf(None, "name", "String")>>)>>,
     <<Leaf("j", "id", "ID"), Frag("User", <<Leaf("k", "name", "String")>>)>>}

RootPool ==
    {Leaf(None, "id", "ID"), Leaf("p", "id", "ID"),
     Frag("Product", <<Leaf(None, "id", "ID")>>)}
    \cup {Field(None, "owner", SS("User", u)) : u \in UserSets}
    \cup {Field(None, "node", SS("Node", n)) : n \in NodeSets}

MCFieldSets ==
    {SS("Product", <<s>>) : s \in RootPool} \cup {SS("Product", <<s, u>>) : s, u \in RootPool}
(***************************************************************************)
(* The directive-application accessors of schema/mod.rs, over subgraph    *)
(* schemas in which the federation spec or a directive definition may be  *)
(* missing, a referenced position may no longer be found and an          *)
(* application's arguments may not parse.                                 *)
(***************************************************************************)
SD == INSTANCE SchemaDirectives

Pos(kind, name) == [kind |-> kind, name |-> name]
D(name, argsOk) == [name |-> name, argsOk |-> argsOk]

\* Every position of the schemas below, in the order of the referencers.
SchemaPositions ==
    <<Pos("object_types", "Product"), Pos("object_types", "User"),
      Pos("interface_types", "Node"), Pos("union_types", "Result"),
      Pos("object_fields", "Product.owner"), Pos("object_fields", "Product.node"),
      Pos("interface_field_arguments", "Node.id(ctx)"),
      Pos("object_field_arguments", "Product.owner(ctx)")>>

DirectiveNames == {"key", "provides", "requires", "context", "fromContext"}
ReferencerKinds == {p.kind : p \in ToSet(SchemaPositions)}

\* The directives applied at each position; `bad` is the application whose
\* arguments do not parse (the second @key of Product).
DirectivesAt(bad) ==
    [p \in ToSet(SchemaPositions) |->
        CASE p.name = "Product" -> <<D("key", TRUE), D("context", TRUE), D("key", ~bad)>>
          [] p.name = "User"    -> <<D("key", TRUE)>>
          [] p.name = "Node"    -> <<D("key", TRUE), D("context", TRUE)>>
          [] p.name = "Result"  -> <<D("context", TRUE)>>
          [] p.name = "Product.owner" -> <<D("provides", TRUE), D("requires", TRUE)>>
          [] p.name = "Product.node"  -> <<D("requires", TRUE)>>
          [] OTHER -> <<D("fromContext", TRUE)>>]

\* Referencers as the schema was built: every position applying the
\* directive, filed under its kind, in position order.
Referencers(apps) ==
    [n \in DirectiveNames |-> [k \in ReferencerKinds |->
        SelectSeq(SchemaPositions, LAMBDA p : p.kind = k /\ \E i \in DOMAIN apps[p] : apps[p][i].name = n)]]

DirectiveSchemas ==
    {[spec |-> spec, defined |-> defined, referencers |-> Referencers(DirectivesAt(bad)),
      elements |-> [p \in ToSet(SchemaPositions) \ gone |->
                       [directives |-> DirectivesAt(bad)[p],
                        ty |-> IF p.name = "Product.owner" THEN "User" ELSE "Node"]]] :
        spec \in BOOLEAN, defined \in {DirectiveNames, DirectiveNames \ {"requires"}},
        bad \in BOOLEAN, gone \in SUBSET ToSet(SchemaPositions)}

Accessor(n, s) ==
    CASE n = "key"      -> SD!KeyDirectiveApplications(s)
      [] n = "provides" -> SD!ProvidesDirectiveApplications(s)
      [] n = "requires" -> SD!RequiresDirectiveApplications(s)
      [] n = "context"  -> SD!ContextDirectiveApplications(s)
      [] OTHER          -> SD!FromContextDirectiveApplications(s)

\* Where an application of n may sit (the federation spec's locations).
Locations(n) ==
    CASE n = "key"      -> {"object_types", "interface_types"}
      [] n \in {"provides", "requires"} -> {"object_fields"}
      [] n = "context"  -> {"interface_types", "object_types", "union_types"}
      [] OTHER          -> {"interface_field_arguments", "object_field_arguments"}

EntryAt(e) == IF e.ok THEN e.target ELSE e.at
RankOf(p) == CHOOSE i \in DOMAIN SchemaPositions : SchemaPositions[i] = p
CountOf(s, P(_)) == Len(SelectSeq(s, P))

\* What the accessors promise (their callers report the inner errors one
\* by one and go on with the rest): the list fails as a whole only for a
\* missing spec or definition; otherwise every referencing position that
\* is gone gives exactly one error, every application of the directive at
\* a position still there gives exactly one entry, an error exactly when
\* its arguments do not parse, and the entries come grouped by position.
ApplicationsAsSpecified ==
    \A s \in DirectiveSchemas, n \in DirectiveNames :
        LET r == Accessor(n, s)
            refs == {p \in ToSet(SchemaPositions) : p.kind \in Locations(n) /\
                         \E i \in DOMAIN DirectivesAt(TRUE)[p] : DirectivesAt(TRUE)[p][i].name = n}
        IN /\ r.ok = (s.spec /\ n \in s.defined)
           /\ r.ok =>
                /\ \A i \in DOMAIN r.apps : EntryAt(r.apps[i]) \in refs
                /\ \A i, j \in DOMAIN r.apps : i < j =>
                       RankOf(EntryAt(r.apps[i])) <= RankOf(EntryAt(r.apps[j]))
                   \/ EntryAt(r.apps[i]).kind # EntryAt(r.apps[j]).kind
                /\ \A p \in refs :
                     IF p \notin DOMAIN s.elements
                     THEN CountOf(r.apps, LAMBDA e : EntryAt(e) = p) = 1 /\
                          CountOf(r.apps, LAMBDA e : EntryAt(e) = p /\ e.ok) = 0
                     ELSE LET ds == s.elements[p].directives
                          IN /\ CountOf(r.apps, LAMBDA e : EntryAt(e) = p /\ e.ok)
                                  = CountOf(ds, LAMBDA d : d.name = n /\ d.argsOk)
                             /\ CountOf(r.apps, LAMBDA e : EntryAt(e) = p /\ ~e.ok)
                                  = CountOf(ds, LAMBDA d : d.name = n /\ ~d.argsOk)

\* Checked once the field-set walk is over: the keys whose field sets it
\* walks are the ones key_directive_applications lists.
DirectiveApplicationsComplete == phase = "done" => ApplicationsAsSpecified
=============================================================================
