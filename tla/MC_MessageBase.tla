--------------------------- MODULE MC_MessageBase ---------------------------
(* Bounded instance of MessageBase. *)
EXTENDS MessageBase

Symmetric == Permutations(Writers)
=============================================================================
