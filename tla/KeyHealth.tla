----------------------------- MODULE KeyHealth -----------------------------
(***************************************************************************)
(* The health memory of one upstream key: core/engine/health.rs.           *)
(*                                                                         *)
(* The code stores instants (cooldown_until_ms, breaker_open_at) and       *)
(* compares them with now_ms.  Here each instant is the time that is left  *)
(* until it, so a model needs no clock: `cool' until the cooldown ends and *)
(* `shut' until the breaker's half-open window ends.  The count of         *)
(* consecutive auth failures is only ever compared with the threshold, so  *)
(* it stops there; breaker_open_at is Some exactly when it is reached.     *)
(***************************************************************************)
EXTENDS Naturals

CONSTANTS
    AuthThreshold,   \* AUTH_BREAKER_THRESHOLD
    HalfOpen,        \* BREAKER_HALF_OPEN_MS
    CooldownFloor,   \* COOLDOWN_FLOOR_MS
    RetryAfters      \* the Retry-After values an upstream may name, 0 for none

ASSUME KeyHealthAssumption ==
    /\ AuthThreshold \in Nat \ {0}
    /\ HalfOpen \in Nat \ {0}
    /\ CooldownFloor \in Nat \ {0}
    /\ RetryAfters \subseteq Nat

\* The classes of engine/taxonomy.rs that health or failover tells apart.
Class == {"RateLimited", "AuthFailed", "ServerError", "Network", "Other"}

Max2(a, b) == IF a > b THEN a ELSE b

Health == [cool : Nat, fails : 0 .. AuthThreshold, shut : 0 .. HalfOpen]

Fresh == [cool |-> 0, fails |-> 0, shut |-> 0]

Open(h) == h.shut > 0

Cooling(h) == h.cool > 0

\* key_block: an open breaker hides a cooldown, so the planner never waits for
\* the retry time of a key that would still be refused when it comes.
Usable(h) == ~ Open(h) /\ ~ Cooling(h)

Retriable(h) == ~ Open(h) /\ Cooling(h)

Recovered(h) == Fresh

RateLimited(h, ra) == [h EXCEPT !.cool = Max2(ra, CooldownFloor)]

\* Every failure at or past the threshold opens the breaker again for a whole window.
AuthFailed(h) ==
    IF h.fails + 1 >= AuthThreshold
    THEN [h EXCEPT !.fails = AuthThreshold, !.shut = HalfOpen]
    ELSE [h EXCEPT !.fails = @ + 1]

\* HealthTracker::record_result for a failure of class c.
Failed(h, c, ra) ==
    CASE c = "RateLimited" -> RateLimited(h, ra)
      [] c = "AuthFailed"  -> AuthFailed(h)
      [] OTHER             -> h

Before(t) == IF t = 0 THEN 0 ELSE t - 1

\* (Mutant: the count of failures goes with the window.)
OlderForgetting(h) ==
    [h EXCEPT !.cool = Before(@), !.shut = Before(@), !.fails = IF h.shut = 1 THEN 0 ELSE @]

\* One unit of time on the two timers.
Older(h) == [h EXCEPT !.cool = Before(@), !.shut = Before(@)]
=============================================================================
