-------------------------- MODULE RegistrationLimit --------------------------
(***************************************************************************)
(* The in-memory limiter of registration attempts per source address       *)
(* (fortytwo-auth/src/authd_registration_limit.c): a table of TableSize    *)
(* entries, each counting the attempts of one canonical address in a       *)
(* window that starts with its first attempt.  One scan per attempt        *)
(* reclaims expired entries up to the entry of the address, if it has one. *)
(***************************************************************************)
EXTENDS Integers, Sequences, FiniteSetsExt

CONSTANTS
    Addresses,      \* canonical source addresses
    TableSize,      \* AUTHD_REGISTRATION_IP_LIMIT_CAPACITY
    Attempts,       \* policy->attempts
    Window,         \* policy->window_seconds
    MaxTime         \* bound: the clock stops here

ASSUME LimitAssumption ==
    /\ TableSize \in Nat \ {0}
    /\ Attempts \in Nat \ {0}
    /\ Window \in Nat \ {0}
    /\ MaxTime \in Nat

VARIABLES
    entries,    \* limiter->entries
    now,        \* monotonic seconds of the event loop
    allowed     \* history: the last 2 * Attempts allowed times per address

limiter_vars == <<entries, now, allowed>>

Slots == 1 .. TableSize

Free == [in_use |-> FALSE]

Entry == [in_use : {TRUE}, address : Addresses, attempts : 1 .. Attempts,
          started : Nat]

LimiterTypeOK ==
    /\ entries \in [Slots -> Entry \cup {Free}]
    /\ now \in 0 .. MaxTime
    /\ allowed \in [Addresses -> Seq(0 .. MaxTime)]

(* Mutant: an entry is kept for one second more than its window. *)
ExpiredLate(e, time) ==
    e.in_use /\ (time < e.started \/ time - e.started > Window)

(* entry_is_expired; a clock that went backwards expires the entry, too. *)
Expired(e, time) ==
    e.in_use /\ (time < e.started \/ time - e.started >= Window)

(* entry_retry_after, never zero. *)
RetryAfter(e, time) ==
    IF time < e.started \/ time - e.started >= Window
    THEN 1
    ELSE Window - (time - e.started)

(* The slots whose unexpired entry belongs to address a. *)
Matches(table, a, time) ==
    {i \in Slots : /\ table[i].in_use
                   /\ ~Expired(table[i], time)
                   /\ table[i].address = a}

(* The scan stops at the first match and visits the whole table without. *)
Scanned(table, a, time) ==
    IF Matches(table, a, time) = {}
    THEN Slots
    ELSE 1 .. Min(Matches(table, a, time))

(* The table after the scan has reclaimed the expired entries it visited. *)
Reclaim(table, a, time) ==
    [i \in Slots |->
        IF i \in Scanned(table, a, time) /\ Expired(table[i], time)
        THEN Free ELSE table[i]]

(* Mutant: a full table offers its first slot. *)
EvictableSlots(table) ==
    LET unused == {i \in Slots : ~table[i].in_use}
    IN  IF unused = {} THEN {1} ELSE unused

FreeSlots(table) == {i \in Slots : ~table[i].in_use}

AtLimit(e) == e.attempts >= Attempts

(* authd_registration_limiter_record: the result, the seconds to wait and  *)
(* the table it leaves behind.                                             *)
Outcome(table, a, time) ==
    LET scanned == Reclaim(table, a, time)
        hits    == Matches(table, a, time)
        opened  == [in_use |-> TRUE, address |-> a, attempts |-> 1,
                    started |-> time]
        wait    == Min({RetryAfter(scanned[i], time) : i \in Slots})
    IN  CASE hits # {} /\ AtLimit(scanned[Min(hits)]) ->
               [result |-> "RATE_LIMITED", table |-> scanned,
                retry |-> RetryAfter(scanned[Min(hits)], time)]
          [] hits # {} /\ ~AtLimit(scanned[Min(hits)]) ->
               [result |-> "ALLOWED", retry |-> 0,
                table |-> [scanned EXCEPT ![Min(hits)].attempts = @ + 1]]
          [] hits = {} /\ FreeSlots(scanned) = {} ->
               [result |-> "CAPACITY", table |-> scanned, retry |-> wait]
          [] hits = {} /\ FreeSlots(scanned) # {} ->
               [result |-> "ALLOWED", retry |-> 0,
                table |-> [scanned EXCEPT ![Min(FreeSlots(scanned))] = opened]]

(* authd_registration_limiter_init. *)
LimiterInit ==
    /\ entries = [i \in Slots |-> Free]
    /\ now = 0
    /\ allowed = [a \in Addresses |-> <<>>]

Remember(times) ==
    LET t == Append(times, now)
    IN  IF Len(t) > 2 * Attempts THEN Tail(t) ELSE t

(* The event loop records one begin attempt of address a. *)
Record(a) ==
    LET o == Outcome(entries, a, now)
    IN  /\ entries' = o.table
        /\ allowed' = IF o.result = "ALLOWED"
                      THEN [allowed EXCEPT ![a] = Remember(@)]
                      ELSE allowed
        /\ UNCHANGED now

Tick ==
    /\ now < MaxTime
    /\ now' = now + 1
    /\ UNCHANGED <<entries, allowed>>

LimiterNext == Tick \/ \E a \in Addresses : Record(a)

LimiterSpec == LimiterInit /\ [][LimiterNext]_limiter_vars

-----------------------------------------------------------------------------
(***************************************************************************)
(* The rate the limiter enforces, as an observer of the daemon sees it:    *)
(* 2 * Attempts consecutive allowed attempts of one address span at least  *)
(* one window.  Reclaiming, a full table or other addresses do not weaken  *)
(* it ("instead of evicting an active counter and weakening the limit").   *)
(***************************************************************************)
RateBound ==
    \A a \in Addresses :
        Len(allowed[a]) = 2 * Attempts =>
            allowed[a][2 * Attempts] - allowed[a][1] >= Window

(***************************************************************************)
(* The retry time in a refusal is exact: on an otherwise unused table the  *)
(* same attempt is refused at every earlier second and allowed then.       *)
(***************************************************************************)
RetryIsExact ==
    \A a \in Addresses :
        LET o == Outcome(entries, a, now)
        IN  o.result # "ALLOWED" =>
               /\ Outcome(o.table, a, now + o.retry).result = "ALLOWED"
               /\ \A d \in 0 .. o.retry - 1 :
                     Outcome(o.table, a, now + d).result # "ALLOWED"
=============================================================================
