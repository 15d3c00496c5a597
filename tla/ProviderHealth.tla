---------------------------- MODULE ProviderHealth ---------------------------
(***************************************************************************)
(* health.py: what one failure, one success or one reading of the clock    *)
(* does to the health of a single provider.  The operators are pure; the   *)
(* modules that hold a router's health apply them inside its lock.         *)
(*                                                                         *)
(* The router keeps a dict from provider id to state and creates an entry  *)
(* on the first failure.  A missing entry and a Fresh one are told apart   *)
(* by no operation, so a provider without an entry is modelled as Fresh.   *)
(***************************************************************************)
EXTENDS ErrorCategory

CONSTANTS
    RateLimitCooldown,      \* HealthConfig.rate_limit_cooldown_seconds
    FailureCooldown,        \* HealthConfig.failure_cooldown_seconds
    FailureThreshold        \* HealthConfig.failure_threshold

\* The field validators of HealthConfig.
ASSUME HealthConfigAssumption ==
    /\ RateLimitCooldown \in Nat \ {0}
    /\ FailureCooldown \in Nat \ {0}
    /\ FailureThreshold \in Nat \ {0}

None == "none"          \* Python's None for lastError and cooldownTrigger
NoDeadline == -1        \* Python's None for cooldown_until

\* lastError keeps the category in place of the error's text.
HealthState ==
    [authDisabled        : BOOLEAN,
     cooldownUntil       : Nat \cup {NoDeadline},
     consecutiveFailures : Nat,
     lastError           : Categories \cup {None},
     cooldownTrigger     : {"rate_limit", "consecutive_failures", None},
     warned              : BOOLEAN,
     benched             : BOOLEAN]

Fresh ==
    [authDisabled        |-> FALSE,
     cooldownUntil       |-> NoDeadline,
     consecutiveFailures |-> 0,
     lastError           |-> None,
     cooldownTrigger     |-> None,
     warned              |-> FALSE,
     benched             |-> FALSE]

ReachesThreshold(s, category) ==
    /\ category \in CountedCategories
    /\ s.consecutiveFailures + 1 >= FailureThreshold

\* What record_failure returns: whether this failure starts a bench.
StartsBench(s, category) ==
    \/ category \in {"auth", "rate_limit"}
    \/ ReachesThreshold(s, category)

\* What record_failure does to the state.  A category outside these rules (a
\* fault of the call) leaves it as it is.
RecordFailure(s, category, now) ==
    LET counted == category \in CountedCategories
        limited == category = "rate_limit"
        tripped == ReachesThreshold(s, category)
    IN  [s EXCEPT
            !.lastError = IF counted \/ StartsBench(s, category) THEN category ELSE @,
            !.authDisabled = @ \/ category = "auth",
            !.consecutiveFailures = IF counted THEN @ + 1 ELSE @,
            !.cooldownUntil = IF limited THEN now + RateLimitCooldown
                              ELSE IF tripped THEN now + FailureCooldown ELSE @,
            !.cooldownTrigger = IF limited THEN "rate_limit"
                                ELSE IF tripped THEN "consecutive_failures" ELSE @,
            !.benched = @ \/ StartsBench(s, category)]

\* Mutated form: the success lifts the auth bench too.
RecordSuccessLiftsAuth(s) == Fresh

\* Mutated form: the success forgives one failure rather than all of them.
RecordSuccessForgivesOne(s) ==
    [Fresh EXCEPT !.authDisabled = s.authDisabled,
                  !.consecutiveFailures = s.consecutiveFailures - 1]

\* record_success: everything is cleared except the auth bench.
RecordSuccess(s) == [Fresh EXCEPT !.authDisabled = s.authDisabled]

\* cooldown_remaining: 0 stands for None, an absent or lapsed cooldown.
CooldownRemaining(s, now) ==
    IF s.cooldownUntil # NoDeadline /\ s.cooldownUntil > now
    THEN s.cooldownUntil - now
    ELSE 0
=============================================================================
