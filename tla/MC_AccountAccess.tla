-------------------------- MODULE MC_AccountAccess --------------------------
(* TLC instance of AccountAccess. *)
EXTENDS AccountAccess, TLC

MCKeys == <<"account", "address">>

MCThreshold == [k \in {"account", "address"} |-> 1]

Symmetry == Permutations(Requests)
=============================================================================
