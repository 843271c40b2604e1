------------------------ MODULE MC_RegistrationLimit -------------------------
(* The limiter with a table smaller than the set of addresses. *)
EXTENDS RegistrationLimit, TLC

Symmetry == Permutations(Addresses)
=============================================================================
