------------------------ MODULE MC_MembershipIndexer ------------------------
(* TLC instances of MembershipIndexer. *)
EXTENDS MembershipIndexer, TLC

Symmetry == Permutations(Ticks) \cup Permutations(Subjects)
=============================================================================
