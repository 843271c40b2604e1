---------------------------- MODULE MC_AuthServer ----------------------------
(* Bounded instance of AuthServer. *)
EXTENDS AuthServer, TLC

Symmetric == Permutations(Accounts \ Existing) \cup Permutations(Sessions)
             \cup Permutations(Logins) \cup Permutations(Passwords)
=============================================================================
