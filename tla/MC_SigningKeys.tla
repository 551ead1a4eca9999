--------------------------- MODULE MC_SigningKeys ---------------------------
(* TLC instance of SigningKeys. *)
EXTENDS SigningKeys, TLC

Symmetry == Permutations(Admins) \cup Permutations(Verifiers)

(* A state in which a command was undone is checked and left: what the     *)
(* properties say of the keys ends there.                                  *)
UntilLost == ~lost
=============================================================================
