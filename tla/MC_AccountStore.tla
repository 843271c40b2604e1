--------------------------- MODULE MC_AccountStore ---------------------------
(* Bounded instance of AccountStore: any caller, any failure. *)
EXTENDS AccountStore, TLC

Symmetric == Permutations(Accounts) \cup Permutations(Logins)
             \cup Permutations(Passwords) \cup Permutations(Sessions)
=============================================================================
