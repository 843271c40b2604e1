---------------------- MODULE MC_RegistrationCoordinator ----------------------
(* Two registrations compete for one lock and, after a rollback, one name. *)
EXTENDS RegistrationCoordinator, TLC

Symmetry == Permutations(Regs) \cup Permutations(Names)
=============================================================================
