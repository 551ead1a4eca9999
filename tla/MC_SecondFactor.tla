-------------------------- MODULE MC_SecondFactor --------------------------
(* TLC instances of SecondFactor. *)
EXTENDS SecondFactor, TLC

Symmetry == Permutations(Requests) \cup Permutations(Creds)

(* A state in which a credential was overwritten is checked and left: what *)
(* the properties say of credentials ends there.                           *)
UntilOverwritten == "credential" \notin raced
=============================================================================
