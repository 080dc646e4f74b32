-------------------------- MODULE MCEventVisibility -------------------------
(***************************************************************************)
(* EventVisibility with the symmetry of the users and of the contracts.    *)
(***************************************************************************)
EXTENDS EventVisibility

Symmetry == Permutations(Users) \union Permutations(Contracts)
=============================================================================
