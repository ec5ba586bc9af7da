----------------------------- MODULE RateLimiter -----------------------------
(***************************************************************************)
(* TieredRateLimiter of api/middleware/rate_limiting.py for one fiduciary  *)
(* and endpoint: the counter in Redis gets its expiry from the call that   *)
(* found it absent, in a command of its own, so a failure in between       *)
(* leaves a counter that never starts again.                               *)
(* External: Redis, one atomic command at a time.                          *)
(***************************************************************************)
EXTENDS Naturals, FiniteSets

CONSTANTS Checker,    \* calls in progress at one time
          TierLimit,  \* the limits of the tiers for this endpoint
          Cost,       \* what one call may cost
          MaxCounter  \* bound on the counter

ASSUME LimiterAssumption ==
    TierLimit \subseteq Nat \ {0} /\ Cost \subseteq Nat \ {0} /\ TierLimit # {} /\ MaxCounter \in Nat

VARIABLES tierLimit,  \* the limit of the fiduciary's tier
          counter,    \* ratelimit:<fiduciary>:<endpoint>, 0 when there is no key
          expiring,   \* the key has a time to live
          check,      \* check[c]: where a call is
          admitted,   \* history: cost admitted since the key was created
          orphaned    \* history: a call failed between INCRBY and EXPIRE of this key

limiterVars == <<tierLimit, counter, expiring, check, admitted, orphaned>>

NoCheck == [step |-> "none"]

LimiterTypeOK ==
    /\ tierLimit \in TierLimit
    /\ counter \in 0..MaxCounter /\ admitted \in 0..MaxCounter
    /\ expiring \in BOOLEAN /\ orphaned \in BOOLEAN
    /\ check \in [Checker -> {NoCheck, [step |-> "expire"]}
                                \union [step : {"incr"}, limit : TierLimit, cost : Cost]]

LimiterInit ==
    /\ tierLimit \in TierLimit
    /\ counter = 0 /\ admitted = 0
    /\ expiring = FALSE /\ orphaned = FALSE
    /\ check = [c \in Checker |-> NoCheck]

SetTier(limit) ==
    /\ tierLimit' = limit
    /\ UNCHANGED <<counter, expiring, check, admitted, orphaned>>

(* check_rate_limit reads the tier and the limit it gives. *)
ReadTier(c, cost) ==
    /\ check[c] = NoCheck
    /\ check' = [check EXCEPT ![c] = [step |-> "incr", limit |-> tierLimit, cost |-> cost]]
    /\ UNCHANGED <<tierLimit, counter, expiring, admitted, orphaned>>

(* Fault: the call that goes over the limit is let through. *)
AdmitsOver(current, limit, cost) == current - cost <= limit

Admits(current, limit, cost) == current <= limit

(* INCRBY counts a call whether it is admitted or not; the first one has   *)
(* the expiry to set.                                                      *)
Increment(c) ==
    LET cost == check[c].cost IN
    /\ check[c].step = "incr" /\ counter + cost <= MaxCounter
    /\ counter' = counter + cost
    /\ admitted' = admitted + IF Admits(counter', check[c].limit, cost) THEN cost ELSE 0
    /\ check' = [check EXCEPT ![c] = IF counter' = cost THEN [step |-> "expire"] ELSE NoCheck]
    /\ UNCHANGED <<tierLimit, expiring, orphaned>>

Expire(c) ==
    /\ check[c].step = "expire"
    /\ expiring' = TRUE
    /\ check' = [check EXCEPT ![c] = NoCheck]
    /\ UNCHANGED <<tierLimit, counter, admitted, orphaned>>

(* The connection or the process fails after INCRBY. *)
ExpireFails(c) ==
    /\ check[c].step = "expire"
    /\ orphaned' = TRUE
    /\ check' = [check EXCEPT ![c] = NoCheck]
    /\ UNCHANGED <<tierLimit, counter, expiring, admitted>>

(* The window ends: Redis removes the key. *)
WindowEnds ==
    /\ expiring
    /\ counter' = 0 /\ admitted' = 0 /\ expiring' = FALSE
    /\ UNCHANGED <<tierLimit, check, orphaned>>

LimiterNext ==
    \/ \E limit \in TierLimit : SetTier(limit)
    \/ \E c \in Checker, cost \in Cost : ReadTier(c, cost)
    \/ \E c \in Checker : Increment(c) \/ Expire(c) \/ ExpireFails(c)
    \/ WindowEnds

LimiterSpec == LimiterInit /\ [][LimiterNext]_limiterVars
-----------------------------------------------------------------------------
(* Within one window no more is admitted than the largest tier allows,     *)
(* however many calls count at once and the tier changes under them.       *)
AdmittedBounded == \E limit \in TierLimit : admitted <= limit

(* A counter either expires, or a call is about to make it expire, or the  *)
(* call that should have failed: then the fiduciary is refused for good.   *)
CounterExpires ==
    counter > 0 => expiring \/ orphaned \/ \E c \in Checker : check[c].step = "expire"

(* The limiter. *)
LimiterSafe == AdmittedBounded /\ CounterExpires
=============================================================================
