----------------------------- MODULE RouterInvoke ----------------------------
(***************************************************************************)
(* router.py: ProviderRouter shared by several threads.  Each element of   *)
(* Calls is one execution of invoke(); close() and reset_health() run      *)
(* beside them and the monotonic clock advances on its own.                *)
(*                                                                         *)
(* The grain is the router's lock: one action per critical section,        *)
(* together with the purely local code around it.  Nothing is locked while *)
(* an adapter call is in flight, so between ProviderFails (the metrics     *)
(* section of a failure) and ApplyFailure (its health section), and while  *)
(* a call is "inflight", every other call can take any of its steps.       *)
(***************************************************************************)
EXTENDS ProviderHealth, Sequences, SequencesExt, Lists

CONSTANTS
    Calls,              \* executions of invoke()
    Providers,          \* configured provider ids
    ProviderList,       \* router.providers: the ids in configuration order
    Disabled,           \* providers with enabled = False
    Keyless,            \* providers whose API key cannot be resolved
    Unmatched,          \* providers whose protocol this call cannot use
    Errors,             \* exceptions adapters and factories raise
    Policy,             \* "round_robin", "score_based" or "custom"
    MaxOrder,           \* bound on the length of the order a policy returns
    RetryCeiling,       \* retry_policy.max_attempts; 1 without a retry policy
    RetryScope,         \* "none", "first", "all", "selected" or "custom"
    RetrySelected,      \* provider ids of the "selected" scope
    CustomFactory,      \* whether a custom adapter_factory is in use
    OwnedStore,         \* whether the router created its metrics store
    StoreFaults,        \* whether a write to the store may fail
    Streams,            \* whether an adapter may answer with a stream
    MaxTime,            \* bound on the clock
    MaxResets           \* bound on the calls of reset_health

\* _reject_duplicate_provider_ids refuses duplicate provider ids.
ASSUME RouterAssumption ==
    /\ ProviderList \in Seq(Providers) /\ IsInjective(ProviderList)
    /\ Policy \in {"round_robin", "score_based", "custom"}
    /\ MaxOrder \in Nat
    /\ RetryCeiling \in 1..8
    /\ RetryScope \in {"none", "first", "all", "selected", "custom"}
    /\ RetryScope = "none" <=> RetryCeiling = 1
    /\ CustomFactory \in BOOLEAN /\ OwnedStore \in BOOLEAN
    /\ StoreFaults \in BOOLEAN /\ Streams \in BOOLEAN
    /\ MaxTime \in Nat /\ MaxResets \in Nat

VARIABLES
    health,             \* self._health
    now,                \* the injected monotonic clock
    closed,             \* self._closed
    connected,          \* whether the metrics store holds an open connection
    rotation,           \* RoundRobinPolicy._index
    metricsWarned,      \* self._metrics_warning_emitted
    metricsRecovered,   \* self._metrics_recovery_emitted
    resets,             \* calls of reset_health so far
    ledger,             \* per call, its metrics events and what became of each
    pc,                 \* where each call is
    ordered,            \* the policy's order for the call
    index,              \* position in that order
    attemptNumber,      \* attempt_number of the current visit
    attempts,           \* the call's list of ProviderAttempt
    result              \* how the call ended

routerVars == <<health, now, closed, connected, rotation, metricsWarned,
                metricsRecovered, resets>>
callVars == <<ledger, pc, ordered, index, attemptNumber, attempts, result>>
vars == <<routerVars, callVars>>

\* The metrics store's rows are the ledger entries with fate "row"; the
\* router's _dropped_metrics_events is the number of all the others.
Fates == {"row", "failed", "late"}
Outcomes == Categories \cup {"success"}
\* The last two results and the last four places are module RouterStream's.
Results == {"none", "closed", "rejected", "no_eligible", "exhausted",
            "served", "raised", "config_error", "stream_error", "abandoned"}
PCs == {"start", "select", "inflight", "failed", "served", "streaming", "done",
        "stream_failed", "restarting", "restart_failed", "stream_served"}

Attempt == [provider : Providers, outcome : Outcomes]
Event == [attempt : Nat, provider : Providers, outcome : Outcomes, fate : Fates]

TypeOK ==
    /\ health \in [Providers -> HealthState]
    /\ now \in Nat
    /\ closed \in BOOLEAN /\ connected \in BOOLEAN
    /\ rotation \in Nat
    /\ metricsWarned \in BOOLEAN /\ metricsRecovered \in BOOLEAN
    /\ resets \in Nat
    /\ ledger \in [Calls -> Seq(Event)]
    /\ pc \in [Calls -> PCs]
    /\ ordered \in [Calls -> Seq(Providers)]
    /\ index \in [Calls -> Nat]
    /\ attemptNumber \in [Calls -> Nat]
    /\ attempts \in [Calls -> Seq(Attempt)]
    /\ result \in [Calls -> Results]

Init ==
    /\ health = [p \in Providers |-> Fresh]
    /\ now = 0
    /\ closed = FALSE
    /\ connected = FALSE
    /\ rotation = 0
    /\ metricsWarned = FALSE
    /\ metricsRecovered = FALSE
    /\ resets = 0
    /\ ledger = [c \in Calls |-> <<>>]
    /\ pc = [c \in Calls |-> "start"]
    /\ ordered = [c \in Calls |-> <<>>]
    /\ index = [c \in Calls |-> 0]
    /\ attemptNumber = [c \in Calls |-> 0]
    /\ attempts = [c \in Calls |-> <<>>]
    /\ result = [c \in Calls |-> "none"]

-----------------------------------------------------------------------------
(* Entering a call.                                                         *)

Finish(c, r) ==
    /\ pc' = [pc EXCEPT ![c] = "done"]
    /\ result' = [result EXCEPT ![c] = r]

\* The first critical section reads the closed flag and nothing else; the
\* check of the call's variants that follows is local to the call.
EnterInvoke(c) ==
    /\ pc[c] = "start"
    /\ ~closed
    /\ pc' = [pc EXCEPT ![c] = "select"]
    /\ UNCHANGED <<routerVars, ledger, ordered, index, attemptNumber, attempts, result>>

RefuseClosed(c) ==
    /\ pc[c] = "start"
    /\ closed
    /\ Finish(c, "closed")
    /\ UNCHANGED <<routerVars, ledger, ordered, index, attemptNumber, attempts>>

\* No providers configured, or _prepare_variants rejects the call's variants.
RejectVariants(c) ==
    /\ pc[c] = "start"
    /\ ~closed
    /\ Finish(c, "rejected")
    /\ UNCHANGED <<routerVars, ledger, ordered, index, attemptNumber, attempts>>

-----------------------------------------------------------------------------
(* The second critical section: eligibility filter and policy order.        *)

\* _first_failing_reason is None.
Eligible(p) ==
    /\ p \notin Disabled
    /\ ~health[p].authDisabled
    /\ CooldownRemaining(health[p], now) = 0
    /\ p \notin Keyless
    /\ p \notin Unmatched

EligibleList == Kept(ProviderList, {p \in Providers : Eligible(p)})

Rotated(s, i) == SubSeq(s, i + 1, Len(s)) \o SubSeq(s, 1, i)

\* Whether the policy may answer with order o.  Scores are not modelled here,
\* so a score-based order is any permutation of the eligible providers; a
\* custom policy may repeat them or leave them out.
Permits(eligible, o) ==
    CASE Policy = "round_robin" -> o = Rotated(eligible, rotation % Len(eligible))
      [] Policy = "score_based" -> /\ Len(o) = Len(eligible)
                                   /\ ToSet(o) = ToSet(eligible)
      [] Policy = "custom"      -> ToSet(o) \subseteq ToSet(eligible)

PolicyOrders(eligible) == {o \in SeqOf(Providers, MaxOrder) : Permits(eligible, o)}

SelectProviders(c) ==
    /\ pc[c] = "select"
    /\ EligibleList # <<>>
    /\ \E o \in PolicyOrders(EligibleList) :
        /\ ordered' = [ordered EXCEPT ![c] = o]
        /\ IF o = <<>>
           THEN Finish(c, "exhausted")
           ELSE pc' = [pc EXCEPT ![c] = "inflight"] /\ UNCHANGED result
    /\ index' = [index EXCEPT ![c] = 1]
    /\ attemptNumber' = [attemptNumber EXCEPT ![c] = 1]
    \* Both built-in policies advance a round-robin counter.
    /\ rotation' = IF Policy = "custom" THEN rotation ELSE rotation + 1
    \* query_score_aggregates opens the store's connection when it has none,
    \* and a query that fails leaves the baseline order and may leave none.
    /\ connected' \in IF Policy = "score_based" THEN {connected, TRUE} ELSE {connected}
    /\ UNCHANGED <<health, now, closed, metricsWarned, metricsRecovered, resets,
                   ledger, attempts>>

\* Mutated form: the call waits for a provider instead of raising.
NoneEligibleWaits(c) ==
    /\ pc[c] = "select"
    /\ EligibleList = <<>>
    /\ UNCHANGED vars

NoneEligible(c) ==
    /\ pc[c] = "select"
    /\ EligibleList = <<>>
    /\ Finish(c, "no_eligible")
    /\ UNCHANGED <<routerVars, ledger, ordered, index, attemptNumber, attempts>>

\* A custom policy's own exception leaves the lock and the call.
PolicyRaises(c) ==
    /\ pc[c] = "select"
    /\ EligibleList # <<>>
    /\ Policy = "custom"
    /\ Finish(c, "raised")
    /\ UNCHANGED <<routerVars, ledger, ordered, index, attemptNumber, attempts>>

Current(c) == ordered[c][index[c]]

-----------------------------------------------------------------------------
(* _record_metrics: one critical section per finished attempt.              *)

SomeDropped == \E d \in Calls : \E i \in DOMAIN ledger[d] : ledger[d][i].fate # "row"

LogEvent(c, n, p, outcome, fate) ==
    ledger' = [ledger EXCEPT ![c] =
        Append(@, [attempt |-> n, provider |-> p, outcome |-> outcome, fate |-> fate])]

\* Mutated form: an event that arrives after close() vanishes uncounted.
DropLateUncounted(c, n, p, outcome) ==
    /\ closed
    /\ UNCHANGED <<ledger, connected, metricsWarned, metricsRecovered>>

DropLate(c, n, p, outcome) ==
    /\ closed
    /\ LogEvent(c, n, p, outcome, "late")
    /\ UNCHANGED <<connected, metricsWarned, metricsRecovered>>

\* Mutated form: the write does not look at the closed flag.
WriteRowUnguarded(c, n, p, outcome) ==
    /\ LogEvent(c, n, p, outcome, "row")
    /\ connected' = TRUE
    /\ metricsRecovered' = (metricsRecovered \/ SomeDropped)
    /\ UNCHANGED metricsWarned

WriteRow(c, n, p, outcome) ==
    /\ ~closed
    /\ LogEvent(c, n, p, outcome, "row")
    /\ connected' = TRUE
    /\ metricsRecovered' = (metricsRecovered \/ SomeDropped)
    /\ UNCHANGED metricsWarned

\* Mutated form: the failed write is counted but not announced.
WriteFailsSilently(c, n, p, outcome) ==
    /\ ~closed
    /\ StoreFaults
    /\ LogEvent(c, n, p, outcome, "failed")
    /\ connected' \in {connected, TRUE}
    /\ UNCHANGED <<metricsWarned, metricsRecovered>>

WriteFails(c, n, p, outcome) ==
    /\ ~closed
    /\ StoreFaults
    /\ LogEvent(c, n, p, outcome, "failed")
    /\ connected' \in {connected, TRUE}
    /\ metricsWarned' = TRUE
    /\ UNCHANGED metricsRecovered

RecordMetrics(c, n, p, outcome) ==
    \/ DropLate(c, n, p, outcome)
    \/ WriteRow(c, n, p, outcome)
    \/ WriteFails(c, n, p, outcome)

NoteAttempt(c, p, outcome) ==
    attempts' = [attempts EXCEPT ![c] =
        Append(@, [provider |-> p, outcome |-> outcome])]

-----------------------------------------------------------------------------
(* The fallback loop.                                                       *)

\* The adapter raises; the attempt is listed and its metrics recorded.
ProviderFails(c) ==
    /\ pc[c] = "inflight"
    /\ \E e \in Errors :
        /\ NoteAttempt(c, Current(c), CategorizeError(e))
        /\ RecordMetrics(c, Len(attempts[c]) + 1, Current(c), CategorizeError(e))
    /\ pc' = [pc EXCEPT ![c] = "failed"]
    /\ UNCHANGED <<health, now, closed, rotation, resets,
                   ordered, index, attemptNumber, result>>

\* A custom factory's exception is outside the try of the attempt loop.
FactoryRaises(c) ==
    /\ pc[c] = "inflight"
    /\ CustomFactory
    /\ attemptNumber[c] = 1
    /\ Finish(c, "raised")
    /\ UNCHANGED <<routerVars, ledger, ordered, index, attemptNumber, attempts>>

LastOutcome(c) == attempts[c][Len(attempts[c])].outcome

\* Mutated form: a fault of the call moves on to the next provider.
StopFallsBack(c) ==
    /\ pc[c] = "failed"
    /\ LastOutcome(c) \in StopCategories
    /\ pc' = [pc EXCEPT ![c] = "inflight"]
    /\ UNCHANGED <<routerVars, ledger, ordered, index, attemptNumber, attempts, result>>

\* A STOP category leaves health alone and ends the whole call.
StopOnCallFault(c) ==
    /\ pc[c] = "failed"
    /\ LastOutcome(c) \in StopCategories
    /\ Finish(c, "exhausted")
    /\ UNCHANGED <<routerVars, ledger, ordered, index, attemptNumber, attempts>>

\* Mutated forms: the bench is not marked as warned about; the state is
\* replaced by a new one rather than updated.
FailHealthUnwarned(s, category) == RecordFailure(s, category, now)
FailHealthReplaced(s, category) ==
    [RecordFailure(Fresh, category, now) EXCEPT !.warned = StartsBench(Fresh, category)]

\* _record_failure with _log_bench: after the bench is logged, warned holds.
FailHealth(s, category) ==
    [RecordFailure(s, category, now) EXCEPT !.warned = @ \/ StartsBench(s, category)]

\* Mutated form: every visit gets a retry cycle.
AnyVisit(c) == TRUE

\* retry_cycle_available: this is the provider's first visit in the order.
FirstVisit(c) == \A j \in 1..(index[c] - 1) : ordered[c][j] # Current(c)

\* SameProviderRetryPolicy targets the provider that leads the order, all of
\* them, or the selected ones.
InRetryScope(c) ==
    \/ RetryScope = "all"
    \/ RetryScope = "first" /\ Current(c) = ordered[c][1]
    \/ RetryScope = "selected" /\ Current(c) \in RetrySelected

\* Mutated form: the retry policy is asked without the router's gates on the
\* category and the new bench.
RetryUngated(c, category, newlyBenched) ==
    IF ~FirstVisit(c) \/ attemptNumber[c] >= RetryCeiling
    THEN {"fall_back"}
    ELSE {"retry", "fall_back"}

\* _should_retry_provider: the router's gates, then the policy's own answer.
RetryDecisions(c, category, newlyBenched) ==
    IF \/ RetryScope = "none"
       \/ ~FirstVisit(c)
       \/ category \in NoRetryCategories
       \/ newlyBenched
       \/ attemptNumber[c] >= RetryCeiling
    THEN {"fall_back"}
    ELSE IF RetryScope = "custom"
         THEN {"retry", "fall_back", "config_error", "raised"}
         ELSE IF category \in RetryableCategories /\ InRetryScope(c)
              THEN {"retry"} ELSE {"fall_back"}

RetryProvider(c) ==
    /\ attemptNumber' = [attemptNumber EXCEPT ![c] = @ + 1]
    /\ pc' = [pc EXCEPT ![c] = "inflight"]
    /\ UNCHANGED <<index, result>>

FallBack(c) ==
    /\ index[c] < Len(ordered[c])
    /\ index' = [index EXCEPT ![c] = @ + 1]
    /\ attemptNumber' = [attemptNumber EXCEPT ![c] = 1]
    /\ pc' = [pc EXCEPT ![c] = "inflight"]
    /\ UNCHANGED result

\* Mutated form: the loop ends before the order does.
ExhaustEarly(c) ==
    /\ Finish(c, "exhausted")
    /\ UNCHANGED <<index, attemptNumber>>

Exhaust(c) ==
    /\ index[c] = Len(ordered[c])
    /\ Finish(c, "exhausted")
    /\ UNCHANGED <<index, attemptNumber>>

\* Mutated form: the failure is charged after the loop has moved on.
BlameNext(c) ==
    health' = [health EXCEPT ![ordered[c][index'[c]]] = FailHealth(@, LastOutcome(c))]

Blame(c) ==
    health' = [health EXCEPT ![Current(c)] = FailHealth(@, LastOutcome(c))]

\* The health section of a failure, then the decision what to try next.
ApplyFailure(c) ==
    /\ pc[c] = "failed"
    /\ LastOutcome(c) \notin StopCategories
    /\ \E d \in RetryDecisions(c, LastOutcome(c),
                               StartsBench(health[Current(c)], LastOutcome(c))) :
        \/ d = "retry" /\ RetryProvider(c)
        \/ d = "fall_back" /\ (FallBack(c) \/ Exhaust(c))
        \/ /\ d \in {"config_error", "raised"}
           /\ Finish(c, d)
           /\ UNCHANGED <<index, attemptNumber>>
    /\ Blame(c)
    /\ UNCHANGED <<now, closed, connected, rotation, metricsWarned,
                   metricsRecovered, resets, ledger, ordered, attempts>>

\* The adapter returns a whole response.
ProviderServes(c) ==
    /\ pc[c] = "inflight"
    /\ NoteAttempt(c, Current(c), "success")
    /\ RecordMetrics(c, Len(attempts[c]) + 1, Current(c), "success")
    /\ pc' = [pc EXCEPT ![c] = "served"]
    /\ UNCHANGED <<health, now, closed, rotation, resets,
                   ordered, index, attemptNumber, result>>

\* The health section of a success, then the response goes to the caller.
ApplySuccess(c) ==
    /\ pc[c] = "served"
    /\ health' = [health EXCEPT ![Current(c)] = RecordSuccess(@)]
    /\ Finish(c, "served")
    /\ UNCHANGED <<now, closed, connected, rotation, metricsWarned,
                   metricsRecovered, resets, ledger, ordered, index,
                   attemptNumber, attempts>>

\* The adapter returns a NormalizedStream: nothing is recorded and the caller
\* gets a RouterStream.  What happens to it is module RouterStream's subject.
OpenStream(c) ==
    /\ pc[c] = "inflight"
    /\ Streams
    /\ pc' = [pc EXCEPT ![c] = "streaming"]
    /\ UNCHANGED <<routerVars, ledger, ordered, index, attemptNumber, attempts, result>>

-----------------------------------------------------------------------------
(* What runs beside the calls.                                              *)

CloseRouter ==
    /\ ~closed
    /\ closed' = TRUE
    /\ connected' = (connected /\ ~OwnedStore)
    /\ UNCHANGED <<health, now, rotation, metricsWarned, metricsRecovered, resets,
                   callVars>>

\* reset_health() and reset_health(provider_id).
ResetHealth(cleared) ==
    /\ resets < MaxResets
    /\ resets' = resets + 1
    /\ health' = [p \in Providers |-> IF p \in cleared THEN Fresh ELSE health[p]]
    /\ UNCHANGED <<now, closed, connected, rotation, metricsWarned,
                   metricsRecovered, callVars>>

Resettable == {Providers} \cup {{p} : p \in Providers}

\* Mutated form: a wall clock, which may be set back.
WallClock ==
    /\ now < MaxTime
    /\ now' \in {0, now + 1}
    /\ UNCHANGED <<health, closed, connected, rotation, metricsWarned,
                   metricsRecovered, resets, callVars>>

Tick ==
    /\ now < MaxTime
    /\ now' = now + 1
    /\ UNCHANGED <<health, closed, connected, rotation, metricsWarned,
                   metricsRecovered, resets, callVars>>

\* A router that nobody calls any more simply stays as it is.
Quiet ==
    /\ \A c \in Calls : pc[c] \in {"done", "streaming"}
    /\ UNCHANGED vars

-----------------------------------------------------------------------------
Attend(c) ==
    \/ EnterInvoke(c) \/ RefuseClosed(c) \/ RejectVariants(c)
    \/ SelectProviders(c) \/ NoneEligible(c) \/ PolicyRaises(c)
    \/ ProviderFails(c) \/ FactoryRaises(c)
    \/ StopOnCallFault(c) \/ ApplyFailure(c)
    \/ ProviderServes(c) \/ ApplySuccess(c)

Environment ==
    \/ CloseRouter
    \/ \E cleared \in Resettable : ResetHealth(cleared)
    \/ Tick

Next ==
    \/ \E c \in Calls : Attend(c) \/ OpenStream(c)
    \/ Environment
    \/ Quiet

Spec == Init /\ [][Next]_vars

\* Each thread keeps running, and a provider call returns or raises: the SDK
\* clients have timeouts.  close, reset_health and the clock owe nothing.
Fairness == \A c \in Calls : WF_vars(Attend(c) \/ OpenStream(c))

FairSpec == Spec /\ Fairness
-----------------------------------------------------------------------------
(* Safety.                                                                  *)

Consistent(s) ==
    /\ s.benched <=> s.warned
    /\ s.benched => s.authDisabled \/ s.cooldownUntil # NoDeadline
    /\ s.cooldownUntil # NoDeadline => s.benched
    /\ s.cooldownUntil # NoDeadline <=> s.cooldownTrigger # None
    /\ s.cooldownTrigger = "consecutive_failures" =>
           s.consecutiveFailures >= FailureThreshold
    /\ s.consecutiveFailures >= FailureThreshold => s.cooldownUntil # NoDeadline
    /\ s.consecutiveFailures > 0 => s.lastError # None

\* A provider's health fields tell one story, whatever the interleaving of
\* calls: a bench has a cause and was warned about, a deadline has a trigger,
\* and the failure count and the threshold agree with that trigger.
HealthConsistent == \A p \in Providers : Consistent(health[p])

\* A malformed request benches nobody: a provider's health differs from a new
\* one's only after some call saw it fail for a reason of the provider's own.
BlameNeedsEvidence ==
    \A p \in Providers : health[p] # Fresh =>
        \E c \in Calls : \E i \in DOMAIN attempts[c] :
            /\ attempts[c][i].provider = p
            /\ attempts[c][i].outcome \notin StopCategories \cup {"success"}

\* RouterExhaustedError means what it says: nothing served the call, and
\* unless the call itself was at fault every provider of the order was tried.
ExhaustedMeansTriedAll ==
    \A c \in Calls : result[c] = "exhausted" =>
        /\ \A i \in DOMAIN attempts[c] : attempts[c][i].outcome # "success"
        /\ \/ attempts[c] # <<>> /\ LastOutcome(c) \in StopCategories
           \/ \A p \in ToSet(ordered[c]) :
                \E i \in DOMAIN attempts[c] : attempts[c][i].provider = p

\* A provider that rejected the key or asked for patience is not called again
\* by the same call, as long as the policy names each provider once.
RefusalRespected ==
    Policy # "custom" =>
        \A c \in Calls : \A i, j \in DOMAIN attempts[c] :
            i < j /\ attempts[c][i].outcome \in {"auth", "rate_limit"} =>
                attempts[c][j].provider # attempts[c][i].provider

\* Retries are bounded however often the policy repeats a provider: one retry
\* cycle per provider and call.
AttemptsBounded ==
    \A c \in Calls : Len(attempts[c]) <=
        Len(ordered[c]) + (RetryCeiling - 1) * Cardinality(ToSet(ordered[c]))

\* A closed router that owns its store keeps no connection to it.
ClosedHoldsNoConnection == closed /\ OwnedStore => ~connected

\* A lost row is announced, and a recovery is announced only after a loss.
StorageTroubleReported ==
    /\ (\E c \in Calls : \E i \in DOMAIN ledger[c] : ledger[c][i].fate = "failed")
           => metricsWarned
    /\ metricsRecovered => metricsWarned

\* An auth bench outlives every success: only reset_health lifts it.
AuthBenchOnlyReset ==
    [][\A p \in Providers :
        health[p].authDisabled /\ ~health'[p].authDisabled => resets' # resets]_vars

\* Failures are never forgotten piecemeal: the count falls only to zero, and
\* only when a call the provider served ends or the caller resets it.
FailuresOnlyForgiven ==
    [][\A p \in Providers :
        health'[p].consecutiveFailures < health[p].consecutiveFailures =>
            /\ health'[p].consecutiveFailures = 0
            /\ \/ resets' # resets
               \/ \E c \in Calls :
                    pc[c] = "served" /\ pc'[c] = "done" /\ Current(c) = p]_vars

\* With the two cooldown durations equal (the defaults are), a failure that
\* arrives while a provider is benched never brings the bench's end forward.
CooldownNeverShortened ==
    [][RateLimitCooldown = FailureCooldown =>
        \A p \in Providers :
            health'[p].cooldownUntil # NoDeadline =>
                health'[p].cooldownUntil >= health[p].cooldownUntil]_vars

\* health.py says a benched provider cannot reach record_success.  A call that
\* was in flight when the bench began does reach it.
AuthBenchVisible ==
    \A p \in Providers : health[p].authDisabled => health[p].benched

-----------------------------------------------------------------------------
(* Refinement and liveness.                                                 *)

Verdict(c) ==
    CASE pc[c] = "streaming" -> "handed_over"
      [] result[c] \in {"closed", "rejected", "no_eligible"} -> "refused"
      [] result[c] = "served" -> "served"
      [] result[c] \in {"exhausted", "raised", "config_error"} -> "failed"
      [] OTHER -> "open"

Contract == INSTANCE FallbackContract
    WITH tried <- attempts, verdict <- [c \in Calls |-> Verdict(c)]

\* Every call obeys the caller's contract.
ImplementsContract == Contract!Spec

\* Whatever fails, an invoke() returns: the retry ceiling and the consumed
\* order bound the loop.
EveryInvokeReturns == \A c \in Calls : <>(pc[c] \in {"done", "streaming"})
=============================================================================
