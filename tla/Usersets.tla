------------------------------ MODULE Usersets ------------------------------
(***************************************************************************)
(* The rewrites of a relation (domain/userset.ts): what the schema form    *)
(* writes, NamespaceConfig checks, and evaluate interprets.                *)
(***************************************************************************)
This == [kind |-> "this"]
Computed(r) == [kind |-> "computedUserset", relation |-> r]
TupleTo(p, r) == [kind |-> "tupleToUserset", tupleset |-> p, relation |-> r]
Union(children) == [kind |-> "union", children |-> children]
Intersection(children) == [kind |-> "intersection", children |-> children]
Exclusion(base, subtract) == [kind |-> "exclusion", base |-> base, subtract |-> subtract]
=============================================================================
