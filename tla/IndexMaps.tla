------------------------------ MODULE IndexMaps ------------------------------
(***************************************************************************)
(* An insertion-ordered map, the semantics of indexmap::IndexMap and      *)
(* IndexSet that the composition code keeps every schema collection in   *)
(* (types, fields, enum values, directive definitions).  Their iteration *)
(* order is part of the printed supergraph, so the model keeps it:       *)
(* an IndexMap is a record of the key order and the key -> value map.    *)
(* Inserting an existing key replaces its value and keeps its position.  *)
(***************************************************************************)
EXTENDS Sequences, SequencesExt, TLC

IMEmpty == [order |-> <<>>, val |-> <<>>]

IMHas(m, k) == k \in DOMAIN m.val

IMGet(m, k) == m.val[k]

IMKeys(m) == DOMAIN m.val

\* IndexMap::insert: replace in place, or append a new key at the end.
IMPut(m, k, v) ==
    [order |-> IF IMHas(m, k) THEN m.order ELSE Append(m.order, k),
     val   |-> (k :> v) @@ m.val]

\* entry(k).or_insert(v): the map with k bound, v only if k was absent.
IMOrInsert(m, k, v) == IF IMHas(m, k) THEN m ELSE IMPut(m, k, v)

\* The map built by inserting the pairs of a sequence in order.
IMFromSeq(pairs) ==
    FoldLeft(LAMBDA m, p : IMPut(m, p[1], p[2]), IMEmpty, pairs)

\* IndexSet::insert over a sequence of elements: append the new ones.
SetInsertAll(s, elems) ==
    FoldLeft(LAMBDA acc, e : IF Contains(acc, e) THEN acc ELSE Append(acc, e),
             s, elems)
=============================================================================
