-------------------------- MODULE MC_FreeformSafelist --------------------------
(***************************************************************************)
(* Manifests of up to two bodies and requests of up to three distinct     *)
(* definitions drawn from: operations A and B, an anonymous operation,   *)
(* fragments F and G, and (in the type-definition configuration) a type  *)
(* definition; plus one body that does not parse.                         *)
(***************************************************************************)
EXTENDS FreeformSafelist

OpA  == [kind |-> "operation", name |-> 1]
OpB  == [kind |-> "operation", name |-> 2]
Anon == [kind |-> "operation", name |-> 0]
FragF == [kind |-> "fragment", name |-> 1]
FragG == [kind |-> "fragment", name |-> 2]
TypeT == [kind |-> "type", name |-> 1]

Doc(ds) == [ok |-> TRUE, defs |-> ds]
Raw(t) == [ok |-> FALSE, raw |-> t]

\* Sequences of 1..3 distinct definitions of Defs.
Docs(Defs) ==
    {Doc(ds) : ds \in UNION {{s \in [1..n -> Defs] : Cardinality(ToSet(s)) = n} : n \in 1..3}}

ManifestBodies ==
    {Doc(<<OpA>>), Doc(<<OpA, FragF>>), Doc(<<OpB, FragG, FragF>>), Doc(<<Anon>>),
     Raw("unparsable")}

MCManifests == {m \in SUBSET ManifestBodies : Cardinality(m) \in 1..2}

ExecutableRequests == Docs({OpA, OpB, Anon, FragF, FragG}) \cup {Raw("unparsable"), Raw("other")}

RequestsWithTypes == Docs({OpA, OpB, FragF, TypeT}) \cup {Raw("unparsable")}

MCModes ==
    {[kind |-> k, log_unknown |-> l, apq_enabled |-> FALSE] :
        k \in {"AllowAll", "DenyAll", "AllowIfInSafelist", "LogUnlessInSafelist"},
        l \in BOOLEAN}
=============================================================================
