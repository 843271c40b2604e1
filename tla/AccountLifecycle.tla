-------------------------- MODULE AccountLifecycle ---------------------------
(***************************************************************************)
(* What the account database promises about identities and terminal        *)
(* sessions, without transactions, passwords, failures or retries:         *)
(*                                                                         *)
(*   - an identity is applied for, and is then either admitted together    *)
(*     with its first session or withdrawn for good;                       *)
(*   - only a member opens sessions;                                       *)
(*   - a session belongs to one identity and is closed at most once.       *)
(***************************************************************************)
CONSTANTS
    Accounts, Sessions,
    Nobody      \* the owner of a session that was never opened

VARIABLES
    standing,   \* the identities: "none", "applicant", "member" or "gone"
    visit       \* the sessions: owner and phase

Unopened == [owner |-> Nobody, phase |-> "absent"]

Visit(u, p) == [owner |-> u, phase |-> p]

(* Members exist before the first observed step; nothing else does. *)
Init ==
    /\ standing \in [Accounts -> {"none", "member"}]
    /\ visit = [s \in Sessions |-> Unopened]

Open(u, s) ==
    /\ visit[s] = Unopened
    /\ visit' = [visit EXCEPT ![s] = Visit(u, "open")]

Apply(u) ==
    /\ standing[u] = "none"
    /\ standing' = [standing EXCEPT ![u] = "applicant"]
    /\ UNCHANGED visit

Admit(u, s) ==
    /\ standing[u] = "applicant"
    /\ standing' = [standing EXCEPT ![u] = "member"]
    /\ Open(u, s)

Withdraw(U) ==
    /\ \A u \in U : standing[u] = "applicant"
    /\ standing' = [u \in Accounts |-> IF u \in U THEN "gone" ELSE standing[u]]
    /\ UNCHANGED visit

Enter(u, s) ==
    /\ standing[u] = "member"
    /\ Open(u, s)
    /\ UNCHANGED standing

Leave(s) ==
    /\ visit[s].phase = "open"
    /\ visit' = [visit EXCEPT ![s].phase = "closed"]
    /\ UNCHANGED standing

Next ==
    \/ \E u \in Accounts : Apply(u)
    \/ \E u \in Accounts, s \in Sessions : Admit(u, s) \/ Enter(u, s)
    \/ \E U \in SUBSET Accounts : Withdraw(U)
    \/ \E s \in Sessions : Leave(s)

Spec == Init /\ [][Next]_<<standing, visit>>
=============================================================================
