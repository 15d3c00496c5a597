-------------------------- MODULE RouterInvoke_proofs ------------------------
(***************************************************************************)
(* Proofs about RouterInvoke, for any number of calls and providers, any   *)
(* order of configuration, any policy and any bound.                       *)
(***************************************************************************)
EXTENDS RouterInvoke, Lists_proofs, SequenceTheorems, FiniteSetTheorems, TLAPS

-----------------------------------------------------------------------------
(* The operators on one provider's health.                                  *)

\* categorize_error answers with a category whatever exception it is given.
LEMMA CategorizeType == \A e : CategorizeError(e) \in Categories
  BY DEF CategorizeError, HttpCategory, ResponsesCategory, Categories

\* A new health state is well formed and consistent.
LEMMA FreshState == Fresh \in HealthState /\ Consistent(Fresh)
  BY HealthConfigAssumption
     DEF Fresh, HealthState, Consistent, NoDeadline, None

\* record_success keeps a state well formed, makes it consistent and leaves the
\* auth bench alone.
LEMMA SuccessState ==
    ASSUME NEW s \in HealthState
    PROVE  /\ RecordSuccess(s) \in HealthState
           /\ Consistent(RecordSuccess(s))
           /\ RecordSuccess(s).authDisabled = s.authDisabled
  <1> USE DEF RecordSuccess, Fresh, HealthState, NoDeadline, None
  <1>1. RecordSuccess(s) \in HealthState
    OBVIOUS
  <1>2. Consistent(RecordSuccess(s))
    BY HealthConfigAssumption DEF Consistent
  <1>3. RecordSuccess(s).authDisabled = s.authDisabled
    OBVIOUS
  <1>4. QED
    BY <1>1, <1>2, <1>3

\* record_failure keeps a state well formed.
LEMMA FailureType ==
    ASSUME NEW s \in HealthState, NEW category \in Outcomes, NEW t \in Nat
    PROVE  RecordFailure(s, category, t) \in HealthState
  <1> DEFINE err == IF category \in CountedCategories \/ StartsBench(s, category)
                    THEN category ELSE s.lastError
             auth == s.authDisabled \/ category = "auth"
             bench == s.benched \/ StartsBench(s, category)
             count == IF category \in CountedCategories
                      THEN s.consecutiveFailures + 1 ELSE s.consecutiveFailures
             until == IF category = "rate_limit" THEN t + RateLimitCooldown
                      ELSE IF ReachesThreshold(s, category)
                           THEN t + FailureCooldown ELSE s.cooldownUntil
             trigger == IF category = "rate_limit" THEN "rate_limit"
                        ELSE IF ReachesThreshold(s, category)
                             THEN "consecutive_failures" ELSE s.cooldownTrigger
  <1>1. err \in Categories \cup {None}
    BY DEF Categories, CountedCategories, HealthState, StartsBench,
           ReachesThreshold, Outcomes
  <1>2. auth \in BOOLEAN /\ bench \in BOOLEAN
    OBVIOUS
  <1>3. count \in Nat
    BY DEF HealthState
  <1>4. until \in Nat \cup {NoDeadline}
    BY HealthConfigAssumption DEF HealthState
  <1>5. trigger \in {"rate_limit", "consecutive_failures", None}
    BY DEF HealthState
  <1>6. RecordFailure(s, category, t) =
            [s EXCEPT !.lastError = err, !.authDisabled = auth,
                      !.consecutiveFailures = count, !.cooldownUntil = until,
                      !.cooldownTrigger = trigger, !.benched = bench]
    BY DEF RecordFailure
  <1> HIDE DEF err, auth, bench, count, until, trigger
  <1>7. QED
    BY <1>1, <1>2, <1>3, <1>4, <1>5, <1>6 DEF HealthState

\* _record_failure with _log_bench: well formed, and an auth bench stays.
LEMMA FailHealthType ==
    ASSUME NEW s \in HealthState, NEW category \in Outcomes, now \in Nat
    PROVE  /\ FailHealth(s, category) \in HealthState
           /\ s.authDisabled => FailHealth(s, category).authDisabled
  <1>1. FailHealth(s, category) \in HealthState
    <2>1. RecordFailure(s, category, now) \in HealthState
      BY FailureType
    <2>2. QED
      BY <2>1 DEF FailHealth, HealthState
  <1>2. s.authDisabled => FailHealth(s, category).authDisabled
    BY DEF FailHealth, RecordFailure, HealthState
  <1>3. QED
    BY <1>1, <1>2

\* A consistent state is consistent after one more failure of any category.
LEMMA FailHealthConsistent ==
    ASSUME NEW s \in HealthState, NEW category \in Outcomes, now \in Nat,
           Consistent(s)
    PROVE  Consistent(FailHealth(s, category))
  <1> DEFINE f == FailHealth(s, category)
  <1>1. /\ f.benched = (s.benched \/ StartsBench(s, category))
        /\ f.authDisabled = (s.authDisabled \/ category = "auth")
    BY DEF FailHealth, RecordFailure, HealthState
  <1>2. f.warned = (s.warned \/ StartsBench(s, category))
    BY DEF FailHealth, RecordFailure, HealthState
  <1>3. f.lastError = IF category \in CountedCategories \/ StartsBench(s, category)
                      THEN category ELSE s.lastError
    BY DEF FailHealth, RecordFailure, HealthState
  <1>4. f.consecutiveFailures = IF category \in CountedCategories
                                THEN s.consecutiveFailures + 1
                                ELSE s.consecutiveFailures
    BY DEF FailHealth, RecordFailure, HealthState
  <1>5. f.cooldownUntil = IF category = "rate_limit" THEN now + RateLimitCooldown
                          ELSE IF ReachesThreshold(s, category)
                               THEN now + FailureCooldown ELSE s.cooldownUntil
    BY DEF FailHealth, RecordFailure, HealthState
  <1>6. f.cooldownTrigger = IF category = "rate_limit" THEN "rate_limit"
                            ELSE IF ReachesThreshold(s, category)
                                 THEN "consecutive_failures" ELSE s.cooldownTrigger
    BY DEF FailHealth, RecordFailure, HealthState
  <1> HIDE DEF f
  <1> USE HealthConfigAssumption
      DEF Consistent, HealthState, NoDeadline, None, CountedCategories, Categories,
          Outcomes, StartsBench, ReachesThreshold
  <1>7. f.benched <=> f.warned
    BY <1>1, <1>2
  <1>8. f.benched => f.authDisabled \/ f.cooldownUntil # NoDeadline
    BY <1>1, <1>5
  <1>9. f.cooldownUntil # NoDeadline => f.benched
    BY <1>1, <1>5
  <1>10. f.cooldownUntil # NoDeadline <=> f.cooldownTrigger # None
    BY <1>5, <1>6
  <1>11. f.cooldownTrigger = "consecutive_failures" =>
            f.consecutiveFailures >= FailureThreshold
    BY <1>4, <1>6
  <1>12. f.consecutiveFailures >= FailureThreshold => f.cooldownUntil # NoDeadline
    BY <1>4, <1>5
  <1>13. f.consecutiveFailures > 0 => f.lastError # None
    BY <1>3, <1>4
  <1>14. QED
    BY <1>7, <1>8, <1>9, <1>10, <1>11, <1>12, <1>13 DEF f

-----------------------------------------------------------------------------
(* Types.  The position in the order needs a bound for the current provider *)
(* to be one, and a failed call needs an attempt for its category to be     *)
(* one; both are part of the inductive invariant.                           *)

LoopInv ==
    \A c \in Calls :
        /\ pc[c] \in {"inflight", "failed", "served"} =>
               index[c] \in 1..Len(ordered[c])
        /\ pc[c] = "failed" => attempts[c] # <<>>

TypeInv == TypeOK /\ LoopInv

\* A policy's order is a sequence of configured providers.
LEMMA OrderType ==
    ASSUME NEW eligible, NEW o \in PolicyOrders(eligible)
    PROVE  o \in Seq(Providers)
  BY RouterAssumption DEF PolicyOrders, SeqOf

\* The provider being tried and the category of the last failure exist.
LEMMA CurrentType ==
    ASSUME TypeInv, NEW c \in Calls,
           pc[c] \in {"inflight", "failed", "served"}
    PROVE  Current(c) \in Providers
  BY DEF TypeInv, TypeOK, LoopInv, Current

LEMMA LastOutcomeType ==
    ASSUME TypeOK, NEW c \in Calls, attempts[c] # <<>>
    PROVE  LastOutcome(c) \in Outcomes
  <1>1. attempts[c] \in Seq(Attempt)
    BY DEF TypeOK
  <1>2. Len(attempts[c]) \in 1..Len(attempts[c])
    BY <1>1, EmptySeq
  <1>3. attempts[c][Len(attempts[c])] \in Attempt
    BY <1>1, <1>2
  <1>4. QED
    BY <1>3 DEF LastOutcome, Attempt

\* Recording an attempt's metrics keeps the ledger and the flags well typed.
LEMMA MetricsType ==
    ASSUME TypeOK, NEW c \in Calls, NEW n \in Nat, NEW p \in Providers,
           NEW o \in Outcomes, RecordMetrics(c, n, p, o)
    PROVE  /\ ledger' \in [Calls -> Seq(Event)]
           /\ connected' \in BOOLEAN
           /\ metricsWarned' \in BOOLEAN
           /\ metricsRecovered' \in BOOLEAN
  <1>1. ASSUME NEW fate \in Fates, LogEvent(c, n, p, o, fate)
        PROVE  ledger' \in [Calls -> Seq(Event)]
    <2>1. [attempt |-> n, provider |-> p, outcome |-> o, fate |-> fate] \in Event
      BY DEF Event
    <2>2. QED
      BY <1>1, <2>1 DEF LogEvent, TypeOK
  <1>2. CASE DropLate(c, n, p, o)
    BY <1>1, <1>2 DEF DropLate, TypeOK, Fates
  <1>3. CASE WriteRow(c, n, p, o)
    BY <1>1, <1>3 DEF WriteRow, TypeOK, Fates
  <1>4. CASE WriteFails(c, n, p, o)
    BY <1>1, <1>4 DEF WriteFails, TypeOK, Fates
  <1>5. QED
    BY <1>2, <1>3, <1>4 DEF RecordMetrics

LEMMA AppendType ==
    ASSUME NEW S, NEW s \in Seq(S), NEW e \in S
    PROVE  Append(s, e) \in Seq(S) /\ Append(s, e) # <<>>
  <1>1. Append(s, e) \in Seq(S)
    OBVIOUS
  <1>2. Len(Append(s, e)) = Len(s) + 1 /\ Len(s) \in Nat /\ Len(<<>>) = 0
    OBVIOUS
  <1>3. QED
    BY <1>1, <1>2

\* So does listing it.
LEMMA NoteType ==
    ASSUME TypeOK, NEW c \in Calls, NEW p \in Providers, NEW o \in Outcomes,
           NoteAttempt(c, p, o)
    PROVE  /\ attempts' \in [Calls -> Seq(Attempt)]
           /\ attempts'[c] # <<>>
           /\ \A d \in Calls : d # c => attempts'[d] = attempts[d]
  <1> DEFINE noted == [provider |-> p, outcome |-> o]
             longer == Append(attempts[c], noted)
  <1>1. noted \in Attempt
    BY DEF Attempt
  <1>2. attempts' = [attempts EXCEPT ![c] = longer] /\ attempts \in [Calls -> Seq(Attempt)]
    BY DEF NoteAttempt, TypeOK
  <1> HIDE DEF noted
  <1>3. longer \in Seq(Attempt) /\ longer # <<>>
    BY <1>1, <1>2, AppendType
  <1> HIDE DEF longer
  <1>4. QED
    BY <1>2, <1>3

-----------------------------------------------------------------------------
(* The steps, one lemma per action.                                         *)

LEMMA EnterStep ==
    ASSUME TypeInv, NEW c \in Calls,
           EnterInvoke(c) \/ RefuseClosed(c) \/ RejectVariants(c)
               \/ NoneEligible(c) \/ PolicyRaises(c)
    PROVE  TypeInv'
  BY DEF TypeInv, TypeOK, LoopInv, EnterInvoke, RefuseClosed, RejectVariants,
         NoneEligible, PolicyRaises, Finish, routerVars, PCs, Results

LEMMA SelectStep ==
    ASSUME TypeInv, NEW c \in Calls, SelectProviders(c)
    PROVE  TypeInv'
  <1>1. PICK o \in PolicyOrders(EligibleList) :
            /\ ordered' = [ordered EXCEPT ![c] = o]
            /\ IF o = <<>> THEN Finish(c, "exhausted")
               ELSE pc' = [pc EXCEPT ![c] = "inflight"] /\ UNCHANGED result
    BY DEF SelectProviders
  <1>2. o \in Seq(Providers)
    BY OrderType
  <1>3. o # <<>> => 1 \in 1..Len(o)
    BY <1>2, EmptySeq
  <1>4. TypeOK'
    <2>1. ordered' \in [Calls -> Seq(Providers)]
      BY <1>1, <1>2 DEF TypeInv, TypeOK
    <2>2. pc' \in [Calls -> PCs] /\ result' \in [Calls -> Results]
      BY <1>1 DEF TypeInv, TypeOK, Finish, PCs, Results
    <2>3. connected' \in BOOLEAN
      BY DEF TypeInv, TypeOK, SelectProviders
    <2>4. rotation' \in Nat
      BY DEF TypeInv, TypeOK, SelectProviders
    <2>5. index' \in [Calls -> Nat] /\ attemptNumber' \in [Calls -> Nat]
      BY DEF TypeInv, TypeOK, SelectProviders
    <2>6. QED
      BY <2>1, <2>2, <2>3, <2>4, <2>5 DEF TypeInv, TypeOK, SelectProviders
  <1>5. LoopInv'
    BY <1>1, <1>3 DEF TypeInv, TypeOK, LoopInv, SelectProviders, Finish
  <1>6. QED
    BY <1>4, <1>5 DEF TypeInv

LEMMA AnswerStep ==
    ASSUME TypeInv, NEW c \in Calls, ProviderFails(c) \/ ProviderServes(c)
    PROVE  TypeInv'
  <1>1. PICK o \in Outcomes :
            /\ pc[c] = "inflight"
            /\ NoteAttempt(c, Current(c), o)
            /\ RecordMetrics(c, Len(attempts[c]) + 1, Current(c), o)
            /\ pc' = [pc EXCEPT ![c] = IF o = "success" THEN "served" ELSE "failed"]
            /\ UNCHANGED <<health, now, closed, rotation, resets,
                           ordered, index, attemptNumber, result>>
    <2>1. CASE ProviderFails(c)
      <3>1. PICK e \in Errors :
                /\ NoteAttempt(c, Current(c), CategorizeError(e))
                /\ RecordMetrics(c, Len(attempts[c]) + 1, Current(c), CategorizeError(e))
        BY <2>1 DEF ProviderFails
      <3>2. CategorizeError(e) \in Outcomes /\ CategorizeError(e) # "success"
        BY CategorizeType DEF Outcomes, Categories
      <3>3. QED
        BY <2>1, <3>1, <3>2 DEF ProviderFails
    <2>2. CASE ProviderServes(c)
      BY <2>2 DEF ProviderServes, Outcomes
    <2>3. QED
      BY <2>1, <2>2
  <1>2. Current(c) \in Providers
    BY <1>1, CurrentType
  <1>3. Len(attempts[c]) + 1 \in Nat
    BY DEF TypeInv, TypeOK
  <1>4. /\ ledger' \in [Calls -> Seq(Event)]
        /\ connected' \in BOOLEAN /\ metricsWarned' \in BOOLEAN
        /\ metricsRecovered' \in BOOLEAN
    BY <1>1, <1>2, <1>3, MetricsType DEF TypeInv
  <1>5. /\ attempts' \in [Calls -> Seq(Attempt)]
        /\ attempts'[c] # <<>>
        /\ \A d \in Calls : d # c => attempts'[d] = attempts[d]
    BY <1>1, <1>2, NoteType DEF TypeInv
  <1>6. TypeOK'
    BY <1>1, <1>4, <1>5 DEF TypeInv, TypeOK, PCs
  <1>7. LoopInv'
    BY <1>1, <1>5 DEF TypeInv, TypeOK, LoopInv
  <1>8. QED
    BY <1>6, <1>7 DEF TypeInv

LEMMA LeaveStep ==
    ASSUME TypeInv, NEW c \in Calls,
           FactoryRaises(c) \/ StopOnCallFault(c) \/ OpenStream(c)
    PROVE  TypeInv'
  BY DEF TypeInv, TypeOK, LoopInv, FactoryRaises, StopOnCallFault, OpenStream,
         Finish, routerVars, PCs, Results

\* Where ApplyFailure takes the call.
LEMMA DecisionStep ==
    ASSUME TypeInv, NEW c \in Calls, ApplyFailure(c)
    PROVE  /\ pc' \in [Calls -> PCs]
           /\ result' \in [Calls -> Results]
           /\ index' \in [Calls -> Nat]
           /\ attemptNumber' \in [Calls -> Nat]
           /\ pc'[c] = "inflight" => index'[c] \in 1..Len(ordered[c])
           /\ pc'[c] \in {"inflight", "done"}
           /\ \A d \in Calls : d # c => pc'[d] = pc[d] /\ index'[d] = index[d]
  <1> USE DEF TypeInv, TypeOK
  <1>1. pc[c] = "failed" /\ index[c] \in 1..Len(ordered[c])
    BY DEF LoopInv, ApplyFailure
  <1>2. \/ RetryProvider(c)
        \/ FallBack(c)
        \/ Exhaust(c)
        \/ /\ Finish(c, "config_error") \/ Finish(c, "raised")
           /\ UNCHANGED <<index, attemptNumber>>
    BY DEF ApplyFailure
  <1>3. CASE RetryProvider(c)
    BY <1>1, <1>3 DEF RetryProvider, PCs
  <1>4. CASE FallBack(c)
    BY <1>1, <1>4 DEF FallBack, PCs
  <1>5. CASE Exhaust(c)
    BY <1>5 DEF Exhaust, Finish, PCs, Results
  <1>6. CASE (Finish(c, "config_error") \/ Finish(c, "raised"))
             /\ UNCHANGED <<index, attemptNumber>>
    BY <1>6 DEF Finish, PCs, Results
  <1>7. QED
    BY <1>2, <1>3, <1>4, <1>5, <1>6

LEMMA ApplyStep ==
    ASSUME TypeInv, NEW c \in Calls, ApplyFailure(c) \/ ApplySuccess(c)
    PROVE  TypeInv'
  <1>1. CASE ApplyFailure(c)
    <2>1. pc[c] = "failed" /\ attempts[c] # <<>>
      BY <1>1 DEF ApplyFailure, TypeInv, LoopInv
    <2>2. Current(c) \in Providers /\ LastOutcome(c) \in Outcomes
      BY <2>1, CurrentType, LastOutcomeType DEF TypeInv
    <2>3. health' \in [Providers -> HealthState]
      BY <1>1, <2>2, FailHealthType DEF ApplyFailure, Blame, TypeInv, TypeOK
    <2>4. TypeOK'
      BY <1>1, <2>3, DecisionStep DEF TypeInv, TypeOK, ApplyFailure
    <2>5. LoopInv'
      BY <1>1, DecisionStep DEF TypeInv, LoopInv, ApplyFailure
    <2>6. QED
      BY <2>4, <2>5 DEF TypeInv
  <1>2. CASE ApplySuccess(c)
    <2>1. Current(c) \in Providers
      BY <1>2, CurrentType DEF ApplySuccess
    <2>2. health' \in [Providers -> HealthState]
      BY <1>2, <2>1, SuccessState DEF ApplySuccess, TypeInv, TypeOK
    <2>3. QED
      BY <1>2, <2>2 DEF TypeInv, TypeOK, LoopInv, ApplySuccess, Finish, PCs, Results
  <1>3. QED
    BY <1>1, <1>2

LEMMA EnvironmentStep ==
    ASSUME TypeInv, Environment
    PROVE  TypeInv'
  <1>1. CASE CloseRouter
    BY <1>1 DEF CloseRouter, TypeInv, TypeOK, LoopInv, callVars
  <1>2. CASE \E cleared \in Resettable : ResetHealth(cleared)
    BY <1>2, FreshState DEF ResetHealth, TypeInv, TypeOK, LoopInv, callVars
  <1>3. CASE Tick
    BY <1>3 DEF Tick, TypeInv, TypeOK, LoopInv, callVars
  <1>4. QED
    BY <1>1, <1>2, <1>3 DEF Environment

LEMMA TypeInvInductive == TypeInv /\ [Next]_vars => TypeInv'
  <1> SUFFICES ASSUME TypeInv, [Next]_vars PROVE TypeInv'
    OBVIOUS
  <1>1. ASSUME NEW c \in Calls, Attend(c) PROVE TypeInv'
    BY <1>1, EnterStep, SelectStep, AnswerStep, LeaveStep, ApplyStep DEF Attend
  <1>2. ASSUME NEW c \in Calls, OpenStream(c) PROVE TypeInv'
    BY <1>2, LeaveStep
  <1>3. CASE Environment
    BY <1>3, EnvironmentStep
  <1>4. CASE UNCHANGED vars
    BY <1>4 DEF TypeInv, TypeOK, LoopInv, vars, routerVars, callVars
  <1>5. QED
    BY <1>1, <1>2, <1>3, <1>4 DEF Next, Quiet

\* Every variable of the router and of its calls keeps its type, and a call in
\* the fallback loop is always at a provider of its order.
LEMMA TypeInvariance == Spec => []TypeInv
  <1>1. Init => TypeInv
    <2> SUFFICES ASSUME Init PROVE TypeInv
      OBVIOUS
    <2>1. health \in [Providers -> HealthState]
      BY FreshState DEF Init
    <2>2. /\ ledger \in [Calls -> Seq(Event)]
          /\ ordered \in [Calls -> Seq(Providers)]
          /\ attempts \in [Calls -> Seq(Attempt)]
      BY EmptySeq DEF Init
    <2>3. pc \in [Calls -> PCs] /\ result \in [Calls -> Results]
      BY DEF Init, PCs, Results
    <2>4. QED
      BY <2>1, <2>2, <2>3 DEF Init, TypeInv, TypeOK, LoopInv
  <1>2. TypeInv /\ [Next]_vars => TypeInv'
    BY TypeInvInductive
  <1>3. QED
    BY <1>1, <1>2, PTL DEF Spec

\* Every reachable state of the router and its callers is well typed: health
\* records, attempts, orders and counters keep the shape invoke relies on.
THEOREM TypeCorrect == Spec => []TypeOK
  <1>1. TypeInv => TypeOK
    BY DEF TypeInv
  <1>2. QED
    BY <1>1, TypeInvariance, PTL

-----------------------------------------------------------------------------
(* Health.  Every property of the providers' health follows from one fact:  *)
(* a step leaves a provider's state alone, renews it by a reset, applies    *)
(* record_success, or applies one failure.                                  *)

LEMMA HealthStep ==
    ASSUME TypeInv, [Next]_vars, NEW p \in Providers
    PROVE  \/ health'[p] = health[p]
           \/ health'[p] = Fresh /\ resets' # resets
           \/ health'[p] = RecordSuccess(health[p])
           \/ \E category \in Outcomes : health'[p] = FailHealth(health[p], category)
  <1> USE DEF TypeInv, TypeOK
  <1>1. ASSUME NEW c \in Calls, ApplyFailure(c)
        PROVE  \/ health'[p] = health[p]
               \/ \E category \in Outcomes :
                    health'[p] = FailHealth(health[p], category)
    <2>1. pc[c] = "failed" /\ attempts[c] # <<>>
      BY <1>1 DEF ApplyFailure, LoopInv
    <2>2. Current(c) \in Providers /\ LastOutcome(c) \in Outcomes
      BY <2>1, CurrentType, LastOutcomeType
    <2>3. QED
      BY <1>1, <2>2 DEF ApplyFailure, Blame
  <1>2. ASSUME NEW c \in Calls, ApplySuccess(c)
        PROVE  health'[p] = health[p] \/ health'[p] = RecordSuccess(health[p])
    BY <1>2, CurrentType DEF ApplySuccess
  <1>3. ASSUME NEW cleared \in Resettable, ResetHealth(cleared)
        PROVE  health'[p] = health[p] \/ (health'[p] = Fresh /\ resets' # resets)
    BY <1>3 DEF ResetHealth
  <1>4. CASE \E c \in Calls :
            \/ EnterInvoke(c) \/ RefuseClosed(c) \/ RejectVariants(c)
            \/ SelectProviders(c) \/ NoneEligible(c) \/ PolicyRaises(c)
            \/ ProviderFails(c) \/ FactoryRaises(c) \/ StopOnCallFault(c)
            \/ ProviderServes(c) \/ OpenStream(c)
    BY <1>4 DEF EnterInvoke, RefuseClosed, RejectVariants, SelectProviders,
                NoneEligible, PolicyRaises, ProviderFails, FactoryRaises,
                StopOnCallFault, ProviderServes, OpenStream, routerVars
  <1>5. CASE CloseRouter \/ Tick \/ UNCHANGED vars
    BY <1>5 DEF CloseRouter, Tick, vars, routerVars
  <1>6. QED
    BY <1>1, <1>2, <1>3, <1>4, <1>5 DEF Next, Attend, Environment, Quiet

\* No interleaving of calls, resets and clock ticks makes a provider's health
\* fields contradict one another, nor benches a provider without a warning.
THEOREM HealthIsConsistent == Spec => []HealthConsistent
  <1>1. Init => HealthConsistent
    BY FreshState DEF Init, HealthConsistent
  <1>2. TypeInv /\ HealthConsistent /\ [Next]_vars => HealthConsistent'
    <2> SUFFICES ASSUME TypeInv, HealthConsistent, [Next]_vars, NEW p \in Providers
                 PROVE  Consistent(health'[p])
      BY DEF HealthConsistent
    <2>1. health[p] \in HealthState /\ Consistent(health[p]) /\ now \in Nat
      BY DEF TypeInv, TypeOK, HealthConsistent
    <2>2. QED
      BY <2>1, HealthStep, FreshState, SuccessState, FailHealthConsistent
  <1>3. QED
    BY <1>1, <1>2, TypeInvariance, PTL DEF Spec

\* Whatever succeeds, fails or expires, an auth bench ends only by a reset.
THEOREM AuthBenchStays == Spec => AuthBenchOnlyReset
  <1>1. TypeInv /\ [Next]_vars =>
            [\A p \in Providers :
                health[p].authDisabled /\ ~health'[p].authDisabled =>
                    resets' # resets]_vars
    <2> SUFFICES ASSUME TypeInv, [Next]_vars, NEW p \in Providers,
                        health[p].authDisabled, ~health'[p].authDisabled
                 PROVE  resets' # resets
      OBVIOUS
    <2>1. health[p] \in HealthState /\ now \in Nat
      BY DEF TypeInv, TypeOK
    <2>2. QED
      BY <2>1, HealthStep, SuccessState, FailHealthType
  <1>2. QED
    BY <1>1, TypeInvariance, PTL DEF Spec, AuthBenchOnlyReset

\* A failure never lowers the failure count.
LEMMA FailureKeepsCount ==
    ASSUME NEW h \in HealthState, NEW category \in Outcomes
    PROVE  FailHealth(h, category).consecutiveFailures >= h.consecutiveFailures
  <1>1. FailHealth(h, category).consecutiveFailures =
            IF category \in CountedCategories
            THEN h.consecutiveFailures + 1 ELSE h.consecutiveFailures
    BY DEF FailHealth, RecordFailure, HealthState
  <1>2. h.consecutiveFailures \in Nat
    BY DEF HealthState
  <1>3. QED
    BY <1>1, <1>2

\* A provider's failures are forgotten all at once, and only when a call that
\* it served ends or the caller resets it: no other step lowers the count.
THEOREM ForgivenWholly == Spec => FailuresOnlyForgiven
  <1> DEFINE Forgiven(p) ==
        /\ health'[p].consecutiveFailures = 0
        /\ \/ resets' # resets
           \/ \E c \in Calls : pc[c] = "served" /\ pc'[c] = "done" /\ Current(c) = p
  <1>1. TypeInv /\ [Next]_vars =>
            [\A p \in Providers :
                health'[p].consecutiveFailures < health[p].consecutiveFailures
                    => Forgiven(p)]_vars
    <2> SUFFICES ASSUME TypeInv, [Next]_vars, NEW p \in Providers,
                        health'[p].consecutiveFailures < health[p].consecutiveFailures
                 PROVE  Forgiven(p)
      OBVIOUS
    <2>1. health[p] \in HealthState /\ health[p].consecutiveFailures \in Nat /\ now \in Nat
      BY DEF TypeInv, TypeOK, HealthState
    <2>2. health'[p] # health[p]
      BY <2>1
    <2>3. \A category \in Outcomes : health'[p] # FailHealth(health[p], category)
      BY <2>1, FailureKeepsCount, FailHealthType DEF HealthState
    <2>4. CASE health'[p] = Fresh /\ resets' # resets
      BY <2>4 DEF Fresh
    <2>5. CASE health'[p] = RecordSuccess(health[p]) /\ resets' = resets
      <3>1. health'[p].consecutiveFailures = 0
        BY <2>5 DEF RecordSuccess, Fresh
      <3>2. ASSUME ~\E c \in Calls : ApplySuccess(c) /\ Current(c) = p PROVE FALSE
        <4>1. ASSUME NEW c \in Calls, ApplyFailure(c) PROVE FALSE
          <5>1. pc[c] = "failed" /\ attempts[c] # <<>>
            BY <4>1 DEF ApplyFailure, TypeInv, LoopInv
          <5>2. Current(c) \in Providers /\ LastOutcome(c) \in Outcomes
            BY <5>1, CurrentType, LastOutcomeType DEF TypeInv
          <5>3. QED
            BY <2>2, <2>3, <4>1, <5>2 DEF ApplyFailure, Blame, TypeInv, TypeOK
        <4>2. ASSUME NEW c \in Calls, ApplySuccess(c) PROVE FALSE
          BY <2>2, <3>2, <4>2 DEF ApplySuccess, TypeInv, TypeOK
        <4>3. ASSUME NEW cleared \in Resettable, ResetHealth(cleared) PROVE FALSE
          BY <2>5, <4>3 DEF ResetHealth, TypeInv, TypeOK
        <4>4. CASE \E c \in Calls :
                  \/ EnterInvoke(c) \/ RefuseClosed(c) \/ RejectVariants(c)
                  \/ SelectProviders(c) \/ NoneEligible(c) \/ PolicyRaises(c)
                  \/ ProviderFails(c) \/ FactoryRaises(c) \/ StopOnCallFault(c)
                  \/ ProviderServes(c) \/ OpenStream(c)
          BY <2>2, <4>4
             DEF EnterInvoke, RefuseClosed, RejectVariants, SelectProviders,
                 NoneEligible, PolicyRaises, ProviderFails, FactoryRaises,
                 StopOnCallFault, ProviderServes, OpenStream, routerVars
        <4>5. CASE CloseRouter \/ Tick \/ UNCHANGED vars
          BY <2>2, <4>5 DEF CloseRouter, Tick, vars, routerVars
        <4>6. QED
          BY <4>1, <4>2, <4>3, <4>4, <4>5 DEF Next, Attend, Environment, Quiet
      <3>3. PICK c \in Calls : ApplySuccess(c) /\ Current(c) = p
        BY <3>2
      <3>4. pc[c] = "served" /\ pc'[c] = "done"
        BY <3>3 DEF ApplySuccess, Finish, TypeInv, TypeOK
      <3>5. QED
        BY <3>1, <3>3, <3>4
    <2>6. CASE health'[p] = RecordSuccess(health[p]) /\ resets' # resets
      BY <2>6 DEF RecordSuccess, Fresh
    <2>7. QED
      BY <2>2, <2>3, <2>4, <2>5, <2>6, HealthStep
  <1>2. QED
    BY <1>1, TypeInvariance, PTL DEF Spec, FailuresOnlyForgiven

\* With equal durations no bench reaches further than one duration from now.
DeadlinesNear ==
    RateLimitCooldown = FailureCooldown =>
        \A p \in Providers : health[p].cooldownUntil <= now + FailureCooldown

LEMMA FailureDeadline ==
    ASSUME NEW h \in HealthState, NEW category \in Outcomes, now \in Nat,
           RateLimitCooldown = FailureCooldown,
           h.cooldownUntil <= now + FailureCooldown
    PROVE  LET f == FailHealth(h, category)
           IN  /\ f.cooldownUntil <= now + FailureCooldown
               /\ f.cooldownUntil >= h.cooldownUntil
  <1>1. FailHealth(h, category).cooldownUntil =
            IF category = "rate_limit" THEN now + RateLimitCooldown
            ELSE IF ReachesThreshold(h, category)
                 THEN now + FailureCooldown ELSE h.cooldownUntil
    BY DEF FailHealth, RecordFailure, HealthState
  <1>2. h.cooldownUntil \in Int /\ FailureCooldown \in Nat
    BY HealthConfigAssumption DEF HealthState, NoDeadline
  <1>3. QED
    BY <1>1, <1>2

LEMMA ClockForward ==
    ASSUME TypeInv, [Next]_vars
    PROVE  now' \in Nat /\ now' >= now
  <1>1. \/ now' = now
        \/ Tick
    BY DEF Next, Attend, Environment, Quiet, EnterInvoke, RefuseClosed,
           RejectVariants, SelectProviders, NoneEligible, PolicyRaises, ProviderFails,
           FactoryRaises, StopOnCallFault, ApplyFailure, ProviderServes, ApplySuccess,
           OpenStream, CloseRouter, ResetHealth, vars, routerVars
  <1>2. QED
    BY <1>1 DEF Tick, TypeInv, TypeOK

\* With the default, equal durations, no late failure of a call that was in
\* flight brings forward the end of a bench that has begun since.
THEOREM BenchNeverShortened == Spec => CooldownNeverShortened
  <1> USE DEF NoDeadline
  <1>1. Init => DeadlinesNear
    BY HealthConfigAssumption DEF Init, DeadlinesNear, Fresh
  <1>2. TypeInv /\ DeadlinesNear /\ [Next]_vars =>
            /\ DeadlinesNear'
            /\ [RateLimitCooldown = FailureCooldown =>
                  \A p \in Providers :
                    health'[p].cooldownUntil # NoDeadline =>
                        health'[p].cooldownUntil >= health[p].cooldownUntil]_vars
    <2> SUFFICES ASSUME TypeInv, DeadlinesNear, [Next]_vars,
                        RateLimitCooldown = FailureCooldown, NEW p \in Providers
                 PROVE  /\ health'[p].cooldownUntil <= now' + FailureCooldown
                        /\ health'[p].cooldownUntil # NoDeadline =>
                              health'[p].cooldownUntil >= health[p].cooldownUntil
      BY DEF DeadlinesNear
    <2>1. /\ health[p] \in HealthState /\ now \in Nat /\ now' \in Nat /\ now' >= now
          /\ health[p].cooldownUntil <= now + FailureCooldown
          /\ health[p].cooldownUntil \in Int /\ FailureCooldown \in Nat
      BY ClockForward, HealthConfigAssumption
         DEF TypeInv, TypeOK, DeadlinesNear, HealthState
    <2>2. CASE health'[p] = health[p]
      BY <2>1, <2>2
    <2>3. CASE health'[p] = Fresh \/ health'[p] = RecordSuccess(health[p])
      BY <2>1, <2>3 DEF Fresh, RecordSuccess
    <2>4. ASSUME NEW category \in Outcomes, health'[p] = FailHealth(health[p], category)
          PROVE  /\ health'[p].cooldownUntil <= now' + FailureCooldown
                 /\ health'[p].cooldownUntil >= health[p].cooldownUntil
      <3>1. /\ health'[p].cooldownUntil <= now + FailureCooldown
            /\ health'[p].cooldownUntil >= health[p].cooldownUntil
        BY <2>1, <2>4, FailureDeadline
      <3>2. health'[p].cooldownUntil \in Int
        BY <2>1, <2>4, FailHealthType DEF HealthState
      <3>3. QED
        BY <2>1, <3>1, <3>2
    <2>5. QED
      BY <2>2, <2>3, <2>4, HealthStep
  <1>3. QED
    BY <1>1, <1>2, TypeInvariance, PTL DEF Spec, CooldownNeverShortened

-----------------------------------------------------------------------------
(* The store.                                                               *)

\* With a policy that does not read the store, a closed router never opens
\* the connection again: late metrics are dropped under the same lock that
\* close() took.
THEOREM ClosedStaysDisconnected ==
    ASSUME Policy # "score_based"
    PROVE  Spec => []ClosedHoldsNoConnection
  <1>1. Init => ClosedHoldsNoConnection
    BY DEF Init, ClosedHoldsNoConnection
  <1>2. TypeInv /\ ClosedHoldsNoConnection /\ [Next]_vars => ClosedHoldsNoConnection'
    <2> SUFFICES ASSUME TypeInv, ClosedHoldsNoConnection, [Next]_vars
                 PROVE  ClosedHoldsNoConnection'
      OBVIOUS
    <2> USE DEF ClosedHoldsNoConnection
    <2>1. ASSUME NEW c \in Calls, NEW n, NEW p, NEW o,
                 RecordMetrics(c, n, p, o), closed' = closed
          PROVE  ClosedHoldsNoConnection'
      BY <2>1 DEF RecordMetrics, DropLate, WriteRow, WriteFails
    <2>2. ASSUME NEW c \in Calls, ProviderFails(c) \/ ProviderServes(c)
          PROVE  ClosedHoldsNoConnection'
      BY <2>1, <2>2 DEF ProviderFails, ProviderServes
    <2>3. ASSUME NEW c \in Calls, SelectProviders(c)
          PROVE  ClosedHoldsNoConnection'
      BY <2>3 DEF SelectProviders
    <2>4. CASE CloseRouter
      BY <2>4 DEF CloseRouter
    <2>5. CASE \E c \in Calls :
              \/ EnterInvoke(c) \/ RefuseClosed(c) \/ RejectVariants(c)
              \/ NoneEligible(c) \/ PolicyRaises(c) \/ FactoryRaises(c)
              \/ StopOnCallFault(c) \/ ApplyFailure(c) \/ ApplySuccess(c)
              \/ OpenStream(c)
      BY <2>5 DEF EnterInvoke, RefuseClosed, RejectVariants, NoneEligible,
                  PolicyRaises, FactoryRaises, StopOnCallFault, ApplyFailure,
                  ApplySuccess, OpenStream, routerVars
    <2>6. CASE (\E cleared \in Resettable : ResetHealth(cleared)) \/ Tick
               \/ UNCHANGED vars
      BY <2>6 DEF ResetHealth, Tick, vars, routerVars
    <2>7. QED
      BY <2>2, <2>3, <2>4, <2>5, <2>6 DEF Next, Attend, Environment, Quiet
  <1>3. QED
    BY <1>1, <1>2, TypeInvariance, PTL DEF Spec

\* What the ledger says of the store: a failed write was warned about, a late
\* event means a closed router, a recovery follows a warning.
StoreInv ==
    /\ \A c \in Calls : \A i \in DOMAIN ledger[c] :
        /\ ledger[c][i].fate = "failed" => metricsWarned
        /\ ledger[c][i].fate = "late" => closed
    /\ metricsRecovered => metricsWarned

LEMMA RecordKeepsStoreInv ==
    ASSUME TypeInv, StoreInv, NEW c \in Calls, NEW n \in Nat, NEW p \in Providers,
           NEW o \in Outcomes, RecordMetrics(c, n, p, o), closed' = closed
    PROVE  StoreInv'
  <1>1. ASSUME NEW fate \in Fates, LogEvent(c, n, p, o, fate),
               metricsWarned => metricsWarned',
               fate = "failed" => metricsWarned', fate = "late" => closed'
        PROVE  \A d \in Calls : \A i \in DOMAIN ledger'[d] :
                  /\ ledger'[d][i].fate = "failed" => metricsWarned'
                  /\ ledger'[d][i].fate = "late" => closed'
    <2> DEFINE e == [attempt |-> n, provider |-> p, outcome |-> o, fate |-> fate]
    <2>1. /\ ledger[c] \in Seq(Event) /\ e \in Event
          /\ ledger'[c] = Append(ledger[c], e)
          /\ \A d \in Calls : d # c => ledger'[d] = ledger[d]
      BY <1>1 DEF LogEvent, TypeInv, TypeOK, Event
    <2>2. /\ DOMAIN ledger'[c] = 1..(Len(ledger[c]) + 1) /\ Len(ledger[c]) \in Nat
          /\ DOMAIN ledger[c] = 1..Len(ledger[c])
          /\ ledger'[c][Len(ledger[c]) + 1] = e
          /\ \A i \in 1..Len(ledger[c]) : ledger'[c][i] = ledger[c][i]
      BY <2>1, AppendProperties
    <2>3. \A i \in DOMAIN ledger'[c] : i = Len(ledger[c]) + 1 \/ i \in DOMAIN ledger[c]
      BY <2>2
    <2>4. e.fate = fate
      OBVIOUS
    <2> HIDE DEF e
    <2>5. ASSUME NEW i \in DOMAIN ledger'[c]
          PROVE  /\ ledger'[c][i].fate = "failed" => metricsWarned'
                 /\ ledger'[c][i].fate = "late" => closed'
      <3>1. CASE i = Len(ledger[c]) + 1
        BY <1>1, <2>2, <2>4, <3>1
      <3>2. CASE i \in DOMAIN ledger[c]
        <4>1. ledger'[c][i] = ledger[c][i]
          BY <2>2, <3>2
        <4>2. QED
          BY <1>1, <3>2, <4>1 DEF StoreInv
      <3>3. QED
        BY <2>3, <3>1, <3>2
    <2>6. ASSUME NEW d \in Calls, d # c, NEW i \in DOMAIN ledger'[d]
          PROVE  /\ ledger'[d][i].fate = "failed" => metricsWarned'
                 /\ ledger'[d][i].fate = "late" => closed'
      BY <1>1, <2>1, <2>6 DEF StoreInv
    <2>7. QED
      BY <2>5, <2>6
  <1>2. CASE DropLate(c, n, p, o)
    BY <1>1, <1>2 DEF DropLate, StoreInv, Fates
  <1>3. CASE WriteRow(c, n, p, o)
    <2>1. SomeDropped => metricsWarned
      <3> SUFFICES ASSUME NEW d \in Calls, NEW i \in DOMAIN ledger[d],
                          ledger[d][i].fate # "row"
                   PROVE  metricsWarned
        BY DEF SomeDropped
      <3>1. ledger[d] \in Seq(Event)
        BY DEF TypeInv, TypeOK
      <3>2. ledger[d][i] \in Event
        BY <3>1
      <3>3. ledger[d][i].fate = "failed"
        BY <1>3, <3>2 DEF Event, Fates, WriteRow, StoreInv
      <3>4. QED
        BY <3>3 DEF StoreInv
    <2>2. QED
      BY <1>1, <1>3, <2>1 DEF WriteRow, StoreInv, Fates
  <1>4. CASE WriteFails(c, n, p, o)
    BY <1>1, <1>4 DEF WriteFails, StoreInv, Fates
  <1>5. QED
    BY <1>2, <1>3, <1>4 DEF RecordMetrics

\* No row is lost in silence, and a recovery is announced only after a loss
\* was: rows dropped because the router is closed do not count as one.
THEOREM LossesAnnounced == Spec => []StorageTroubleReported
  <1>1. Init => StoreInv
    BY DEF Init, StoreInv
  <1>2. TypeInv /\ StoreInv /\ [Next]_vars => StoreInv'
    <2> SUFFICES ASSUME TypeInv, StoreInv, [Next]_vars PROVE StoreInv'
      OBVIOUS
    <2>1. ASSUME NEW c \in Calls, ProviderFails(c) \/ ProviderServes(c)
          PROVE  StoreInv'
      <3>1. pc[c] = "inflight" /\ closed' = closed
        BY <2>1 DEF ProviderFails, ProviderServes
      <3>2. Current(c) \in Providers /\ Len(attempts[c]) + 1 \in Nat
        BY <3>1, CurrentType DEF TypeInv, TypeOK
      <3>3. \E o \in Outcomes : RecordMetrics(c, Len(attempts[c]) + 1, Current(c), o)
        BY <2>1, CategorizeType DEF ProviderFails, ProviderServes, Outcomes
      <3>4. QED
        BY <3>1, <3>2, <3>3, RecordKeepsStoreInv
    <2>2. CASE \E c \in Calls :
              \/ EnterInvoke(c) \/ RefuseClosed(c) \/ RejectVariants(c)
              \/ SelectProviders(c) \/ NoneEligible(c) \/ PolicyRaises(c)
              \/ FactoryRaises(c) \/ StopOnCallFault(c) \/ ApplyFailure(c)
              \/ ApplySuccess(c) \/ OpenStream(c)
      <3>1. UNCHANGED <<ledger, closed, metricsWarned, metricsRecovered>>
        BY <2>2 DEF EnterInvoke, RefuseClosed, RejectVariants, SelectProviders,
                    NoneEligible, PolicyRaises, FactoryRaises, StopOnCallFault,
                    ApplyFailure, ApplySuccess, OpenStream, routerVars
      <3>2. QED
        BY <3>1 DEF StoreInv
    <2>3. CASE Environment \/ UNCHANGED vars
      BY <2>3 DEF Environment, CloseRouter, ResetHealth, Tick, vars, routerVars,
                  callVars, StoreInv
    <2>4. QED
      BY <2>1, <2>2, <2>3 DEF Next, Attend, Quiet
  <1>3. StoreInv => StorageTroubleReported
    BY DEF StoreInv, StorageTroubleReported
  <1>4. QED
    BY <1>1, <1>2, <1>3, TypeInvariance, PTL DEF Spec

-----------------------------------------------------------------------------
(* The verdict of a call.  CallOK relates a call's place in the loop to the *)
(* attempts it has listed; it is inductive together with TypeInv.           *)

Tried(c, p) == \E i \in DOMAIN attempts[c] : attempts[c][i].provider = p

CallOK(c) ==
    /\ pc[c] \in {"start", "select", "inflight", "failed", "served",
                  "streaming", "done"}
    /\ result[c] \notin {"stream_error", "abandoned"}
    /\ pc[c] = "done" <=> result[c] # "none"
    /\ pc[c] \in {"start", "select"} => attempts[c] = <<>>
    /\ pc[c] \in {"start", "select", "inflight", "failed", "streaming"} =>
           \A i \in DOMAIN attempts[c] : attempts[c][i].outcome # "success"
    /\ pc[c] \in {"inflight", "streaming"} /\ attempts[c] # <<>> =>
           LastOutcome(c) \notin StopCategories
    /\ pc[c] = "failed" => attempts[c][Len(attempts[c])].provider = Current(c)
    /\ pc[c] = "served" => attempts[c] # <<>> /\ LastOutcome(c) = "success"
    /\ pc[c] \in {"inflight", "failed"} =>
           \A j \in 1..(index[c] - 1) : Tried(c, ordered[c][j])
    /\ result[c] \in {"closed", "rejected", "no_eligible"} => attempts[c] = <<>>
    /\ result[c] = "served" => attempts[c] # <<>> /\ LastOutcome(c) = "success"
    /\ result[c] \in {"exhausted", "raised", "config_error"} =>
           \A i \in DOMAIN attempts[c] : attempts[c][i].outcome # "success"
    /\ result[c] = "exhausted" =>
           \/ attempts[c] # <<>> /\ LastOutcome(c) \in StopCategories
           \/ \A j \in 1..Len(ordered[c]) : Tried(c, ordered[c][j])

CallInv == \A c \in Calls : CallOK(c)

\* What listing an attempt does to the list.
LEMMA NoteFacts ==
    ASSUME TypeOK, NEW c \in Calls, NEW p \in Providers, NEW o \in Outcomes,
           NoteAttempt(c, p, o)
    PROVE  /\ Len(attempts'[c]) = Len(attempts[c]) + 1
           /\ DOMAIN attempts'[c] = 1..(Len(attempts[c]) + 1)
           /\ DOMAIN attempts[c] = 1..Len(attempts[c])
           /\ attempts'[c][Len(attempts[c]) + 1] = [provider |-> p, outcome |-> o]
           /\ \A i \in DOMAIN attempts[c] : attempts'[c][i] = attempts[c][i]
           /\ attempts'[c] # <<>>
  <1>1. attempts[c] \in Seq(Attempt) /\ Len(attempts[c]) \in Nat
    BY DEF TypeOK
  <1>2. attempts'[c] = Append(attempts[c], [provider |-> p, outcome |-> o])
    BY DEF NoteAttempt, TypeOK
  <1>3. [provider |-> p, outcome |-> o] \in Attempt
    BY DEF Attempt
  <1>4. QED
    BY <1>1, <1>2, <1>3, AppendProperties

\* A call that takes no step stays as it is.
LEMMA Frame ==
    ASSUME NEW d \in Calls, CallOK(d), pc'[d] = pc[d], result'[d] = result[d],
           attempts'[d] = attempts[d], ordered'[d] = ordered[d],
           index'[d] = index[d]
    PROVE  CallOK(d)'
  BY DEF CallOK, Tried, LastOutcome, Current

LEMMA OthersUnchanged ==
    ASSUME TypeInv, NEW c \in Calls, Attend(c) \/ OpenStream(c),
           NEW d \in Calls, d # c
    PROVE  /\ pc'[d] = pc[d] /\ result'[d] = result[d]
           /\ attempts'[d] = attempts[d] /\ ordered'[d] = ordered[d]
           /\ index'[d] = index[d]
  <1> USE DEF TypeInv, TypeOK
  <1>1. CASE EnterInvoke(c) \/ RefuseClosed(c) \/ RejectVariants(c)
             \/ NoneEligible(c) \/ PolicyRaises(c) \/ FactoryRaises(c)
             \/ StopOnCallFault(c) \/ OpenStream(c) \/ ApplySuccess(c)
    BY <1>1 DEF EnterInvoke, RefuseClosed, RejectVariants, NoneEligible,
                PolicyRaises, FactoryRaises, StopOnCallFault, OpenStream,
                ApplySuccess, Finish
  <1>2. CASE SelectProviders(c)
    BY <1>2 DEF SelectProviders, Finish
  <1>3. CASE ProviderFails(c) \/ ProviderServes(c)
    BY <1>3 DEF ProviderFails, ProviderServes, NoteAttempt
  <1>4. CASE ApplyFailure(c)
    BY <1>4 DEF ApplyFailure, RetryProvider, FallBack, Exhaust, Finish
  <1>5. QED
    BY <1>1, <1>2, <1>3, <1>4 DEF Attend

LEMMA SimpleCallStep ==
    ASSUME TypeInv, NEW c \in Calls, CallOK(c),
           \/ EnterInvoke(c) \/ RefuseClosed(c) \/ RejectVariants(c)
           \/ NoneEligible(c) \/ PolicyRaises(c) \/ FactoryRaises(c)
           \/ StopOnCallFault(c) \/ OpenStream(c) \/ ApplySuccess(c)
    PROVE  CallOK(c)'
  <1> USE DEF CallOK, Tried, LastOutcome, Finish, TypeInv, TypeOK
  <1>1. CASE EnterInvoke(c) \/ RefuseClosed(c)
    BY <1>1 DEF EnterInvoke, RefuseClosed
  <1>2. CASE RejectVariants(c) \/ NoneEligible(c) \/ PolicyRaises(c)
    BY <1>2 DEF RejectVariants, NoneEligible, PolicyRaises
  <1>3. CASE FactoryRaises(c) \/ OpenStream(c)
    BY <1>3 DEF FactoryRaises, OpenStream
  <1>4. CASE StopOnCallFault(c)
    BY <1>4 DEF StopOnCallFault, LoopInv
  <1>5. CASE ApplySuccess(c)
    BY <1>5 DEF ApplySuccess
  <1>6. QED
    BY <1>1, <1>2, <1>3, <1>4, <1>5

LEMMA SelectCallStep ==
    ASSUME TypeInv, NEW c \in Calls, CallOK(c), SelectProviders(c)
    PROVE  CallOK(c)'
  <1>1. PICK o \in PolicyOrders(EligibleList) :
            /\ ordered' = [ordered EXCEPT ![c] = o]
            /\ IF o = <<>> THEN Finish(c, "exhausted")
               ELSE pc' = [pc EXCEPT ![c] = "inflight"] /\ UNCHANGED result
    BY DEF SelectProviders
  <1>2. /\ pc[c] = "select" /\ attempts[c] = <<>> /\ attempts' = attempts
        /\ index'[c] = 1 /\ ordered'[c] = o
    BY <1>1 DEF SelectProviders, CallOK, TypeInv, TypeOK
  <1>3. CASE o = <<>>
    <2>1. pc'[c] = "done" /\ result'[c] = "exhausted"
      BY <1>1, <1>3 DEF Finish, TypeInv, TypeOK
    <2>2. Len(ordered'[c]) = 0
      BY <1>2, <1>3
    <2>3. QED
      BY <1>2, <2>1, <2>2 DEF CallOK, Tried, LastOutcome
  <1>4. CASE o # <<>>
    <2>1. pc'[c] = "inflight" /\ result'[c] = result[c]
      BY <1>1, <1>4 DEF TypeInv, TypeOK
    <2>2. QED
      BY <1>2, <2>1 DEF CallOK, Tried, LastOutcome
  <1>5. QED
    BY <1>3, <1>4

\* What both kinds of answer do to the call.
LEMMA AnswerFacts ==
    ASSUME TypeInv, NEW c \in Calls, ProviderFails(c) \/ ProviderServes(c)
    PROVE  \E o \in Outcomes :
            /\ NoteAttempt(c, Current(c), o)
            /\ ProviderFails(c) => o # "success"
            /\ ProviderServes(c) => o = "success"
            /\ pc[c] = "inflight"
            /\ pc'[c] = IF o = "success" THEN "served" ELSE "failed"
            /\ UNCHANGED <<ordered, index, result>>
  <1>1. CASE ProviderFails(c)
    <2>1. PICK e \in Errors : NoteAttempt(c, Current(c), CategorizeError(e))
      BY <1>1 DEF ProviderFails
    <2>2. CategorizeError(e) \in Outcomes /\ CategorizeError(e) # "success"
      BY CategorizeType DEF Outcomes, Categories
    <2>3. pc[c] = "inflight" /\ pc'[c] = "failed" /\ UNCHANGED <<ordered, index, result>>
      BY <1>1 DEF ProviderFails, TypeInv, TypeOK
    <2>4. ~ProviderServes(c)
      BY <2>3 DEF ProviderServes, TypeInv, TypeOK
    <2>5. QED
      BY <2>1, <2>2, <2>3, <2>4
  <1>2. CASE ProviderServes(c)
    <2>1. pc'[c] = "served"
      BY <1>2 DEF ProviderServes, TypeInv, TypeOK
    <2>2. ~ProviderFails(c)
      BY <2>1 DEF ProviderFails, TypeInv, TypeOK
    <2>3. QED
      BY <1>2, <2>1, <2>2 DEF ProviderServes, Outcomes
  <1>3. QED
    BY <1>1, <1>2

LEMMA AnswerCallStep ==
    ASSUME TypeInv, NEW c \in Calls, CallOK(c),
           ProviderFails(c) \/ ProviderServes(c)
    PROVE  CallOK(c)'
  <1>1. PICK o \in Outcomes :
            /\ NoteAttempt(c, Current(c), o)
            /\ pc[c] = "inflight"
            /\ pc'[c] = IF o = "success" THEN "served" ELSE "failed"
            /\ UNCHANGED <<ordered, index, result>>
    BY AnswerFacts
  <1>2. Current(c) \in Providers /\ Current(c)' = Current(c)
    BY <1>1, CurrentType DEF Current
  <1> DEFINE n == Len(attempts[c])
  <1>3. /\ Len(attempts'[c]) = n + 1 /\ DOMAIN attempts'[c] = 1..(n + 1)
        /\ DOMAIN attempts[c] = 1..n
        /\ attempts'[c][n + 1] = [provider |-> Current(c), outcome |-> o]
        /\ \A i \in DOMAIN attempts[c] : attempts'[c][i] = attempts[c][i]
        /\ attempts'[c] # <<>>
    BY <1>1, <1>2, NoteFacts DEF TypeInv
  <1>4. n \in Nat /\ index[c] \in 1..Len(ordered[c])
    BY <1>1 DEF TypeInv, TypeOK, LoopInv
  <1>5. result'[c] = "none"
    BY <1>1 DEF CallOK
  <1>6. o # "success" =>
            \A i \in DOMAIN attempts'[c] : attempts'[c][i].outcome # "success"
    BY <1>1, <1>3, <1>4 DEF CallOK
  <1>7. \A p : Tried(c, p) => Tried(c, p)'
    BY <1>3, <1>4 DEF Tried
  <1>8. LastOutcome(c)' = o
    BY <1>3 DEF LastOutcome
  <1>9. \A j \in 1..(index'[c] - 1) : Tried(c, ordered[c][j])'
    BY <1>1, <1>7 DEF CallOK
  <1>10. ordered' = ordered
    BY <1>1
  <1>11. CASE o = "success"
    BY <1>1, <1>3, <1>5, <1>8, <1>11 DEF CallOK
  <1>12. CASE o # "success"
    <2>1. attempts'[c][Len(attempts'[c])].provider = Current(c)'
      BY <1>2, <1>3
    <2>2. \A j \in 1..(index'[c] - 1) : Tried(c, ordered[c][j])'
      BY <1>9
    <2>3. QED
      BY <1>1, <1>5, <1>6, <1>12, <2>1, <2>2, <1>10 DEF CallOK, Tried
  <1>13. QED
    BY <1>11, <1>12

LEMMA FailureCallStep ==
    ASSUME TypeInv, NEW c \in Calls, CallOK(c), ApplyFailure(c)
    PROVE  CallOK(c)'
  <1> USE DEF TypeInv, TypeOK
  <1>1. /\ pc[c] = "failed" /\ LastOutcome(c) \notin StopCategories
        /\ attempts' = attempts /\ ordered' = ordered /\ attempts[c] # <<>>
        /\ index[c] \in 1..Len(ordered[c]) /\ result[c] = "none"
    BY DEF ApplyFailure, LoopInv, CallOK
  <1>2. /\ \A i \in DOMAIN attempts[c] : attempts[c][i].outcome # "success"
        /\ \A j \in 1..(index[c] - 1) : Tried(c, ordered[c][j])
        /\ attempts[c][Len(attempts[c])].provider = ordered[c][index[c]]
    BY <1>1 DEF CallOK, Current
  <1>3. Len(attempts[c]) \in DOMAIN attempts[c]
    BY <1>1, EmptySeq
  <1>4. \A j \in 1..index[c] : Tried(c, ordered[c][j])
    <2>1. Tried(c, ordered[c][index[c]])
      BY <1>2, <1>3 DEF Tried
    <2>2. \A j \in 1..index[c] : j \in 1..(index[c] - 1) \/ j = index[c]
      BY <1>1
    <2>3. QED
      BY <1>2, <2>1, <2>2
  <1>5. \A p : Tried(c, p)' = Tried(c, p)
    BY <1>1 DEF Tried
  <1>6. LastOutcome(c)' = LastOutcome(c)
    BY <1>1 DEF LastOutcome
  <1>7. \/ RetryProvider(c)
        \/ FallBack(c)
        \/ Exhaust(c)
        \/ Finish(c, "config_error")
        \/ Finish(c, "raised")
    BY DEF ApplyFailure
  <1>8. CASE RetryProvider(c)
    <2>1. pc'[c] = "inflight" /\ index'[c] = index[c] /\ result'[c] = "none"
      BY <1>1, <1>8 DEF RetryProvider
    <2>2. QED
      BY <1>1, <1>2, <1>5, <1>6, <2>1 DEF CallOK, Tried
  <1>9. CASE FallBack(c)
    <2>1. pc'[c] = "inflight" /\ index'[c] = index[c] + 1 /\ result'[c] = "none"
      BY <1>1, <1>9 DEF FallBack
    <2>2. \A j \in 1..(index'[c] - 1) : Tried(c, ordered[c][j])
      BY <1>1, <1>4, <2>1
    <2>3. QED
      BY <1>1, <1>2, <1>5, <1>6, <2>1, <2>2 DEF CallOK, Tried
  <1>10. CASE Exhaust(c)
    <2>1. pc'[c] = "done" /\ result'[c] = "exhausted" /\ index[c] = Len(ordered[c])
      BY <1>10 DEF Exhaust, Finish
    <2>2. QED
      BY <1>1, <1>2, <1>4, <1>5, <1>6, <2>1 DEF CallOK, Tried
  <1>11. CASE Finish(c, "config_error") \/ Finish(c, "raised")
    <2>1. pc'[c] = "done" /\ result'[c] \in {"config_error", "raised"}
      BY <1>11 DEF Finish
    <2>2. QED
      BY <1>1, <1>2, <2>1 DEF CallOK, Tried
  <1>12. QED
    BY <1>7, <1>8, <1>9, <1>10, <1>11

LEMMA CallInvInductive == TypeInv /\ CallInv /\ [Next]_vars => CallInv'
  <1> SUFFICES ASSUME TypeInv, CallInv, [Next]_vars PROVE CallInv'
    OBVIOUS
  <1>1. ASSUME NEW c \in Calls, Attend(c) \/ OpenStream(c) PROVE CallInv'
    <2>1. CallOK(c)'
      BY <1>1, SimpleCallStep, SelectCallStep, AnswerCallStep, FailureCallStep
         DEF Attend, CallInv
    <2>2. ASSUME NEW d \in Calls, d # c PROVE CallOK(d)'
      BY <1>1, <2>2, OthersUnchanged, Frame DEF CallInv
    <2>3. QED
      BY <2>1, <2>2 DEF CallInv
  <1>2. CASE Environment \/ UNCHANGED vars
    <2>1. UNCHANGED callVars
      BY <1>2 DEF Environment, CloseRouter, ResetHealth, Tick, vars
    <2>2. QED
      BY <2>1, Frame DEF CallInv, callVars
  <1>3. QED
    BY <1>1, <1>2 DEF Next, Quiet

LEMMA CallInvariance == Spec => []CallInv
  <1>1. Init => CallInv
    BY DEF Init, CallInv, CallOK, Tried
  <1>2. QED
    BY <1>1, TypeInvariance, CallInvInductive, PTL DEF Spec

\* RouterExhaustedError is raised only when nothing served the call and either
\* the call was at fault or every provider of the policy's order was tried.
THEOREM ExhaustionIsReal == Spec => []ExhaustedMeansTriedAll
  <1>1. TypeInv /\ CallInv => ExhaustedMeansTriedAll
    <2> SUFFICES ASSUME TypeInv, CallInv, NEW c \in Calls, result[c] = "exhausted"
                 PROVE  /\ \A i \in DOMAIN attempts[c] :
                               attempts[c][i].outcome # "success"
                        /\ \/ attempts[c] # <<>> /\ LastOutcome(c) \in StopCategories
                           \/ \A p \in ToSet(ordered[c]) : Tried(c, p)
      BY DEF ExhaustedMeansTriedAll, Tried
    <2>1. ordered[c] \in Seq(Providers) /\ CallOK(c)
      BY DEF TypeInv, TypeOK, CallInv
    <2>2. QED
      BY <2>1 DEF CallOK, ToSet
  <1>2. QED
    BY <1>1, TypeInvariance, CallInvariance, PTL

-----------------------------------------------------------------------------
(* Orders.  Both built-in policies answer with every eligible provider      *)
(* once, because the configuration names every provider once: a round-robin *)
(* order is a rotation, and a score-based one has as many members as there  *)
(* are eligible providers, so that it cannot repeat any.                    *)

Distinct(s) == \A i, j \in DOMAIN s : i # j => s[i] # s[j]

OrdersInv == Policy # "custom" => \A c \in Calls : Distinct(ordered[c])

\* The filter keeps the configured order, and so repeats nobody.
LEMMA EligibleOnce == EligibleList \in Seq(Providers) /\ IsInjective(EligibleList)
  BY RouterAssumption, KeptElements, KeptInjective DEF EligibleList

\* A built-in policy's order names nobody twice.
LEMMA OrderDistinct ==
    ASSUME rotation \in Nat, Policy # "custom", EligibleList # <<>>,
           NEW o \in PolicyOrders(EligibleList)
    PROVE  Distinct(o)
  <1> DEFINE eligible == EligibleList
             n == Len(eligible)
             i == rotation % n
  <1>1. eligible \in Seq(Providers) /\ IsInjective(eligible) /\ eligible # <<>>
    BY EligibleOnce
  <1>2. o \in Seq(Providers) /\ Permits(eligible, o)
    BY OrderType DEF PolicyOrders
  <1> HIDE DEF eligible
  <1>3. n \in Nat \ {0}
    BY <1>1, EmptySeq
  <1>4. i \in 0..(n - 1)
    <2> HIDE DEF n
    <2> QED
      BY <1>3
  <1>5. CASE Policy = "round_robin"
    <2>1. o = SubSeq(eligible, i + 1, n) \o SubSeq(eligible, 1, i)
      BY <1>2, <1>5 DEF Permits, Rotated
    <2> HIDE DEF i
    <2>2. IsInjective(SubSeq(eligible, i + 1, n) \o SubSeq(eligible, 1, i))
      BY <1>1, <1>4, RotationKeeps
    <2> QED
      BY <2>1, <2>2 DEF IsInjective, Distinct
  <1>6. CASE Policy = "score_based"
    <2>1. Len(o) = Len(eligible) /\ ToSet(o) = ToSet(eligible)
      BY <1>2, <1>6 DEF Permits
    <2>2. IsInjective(o)
      BY <1>1, <1>2, <2>1, SameLengthInjective
    <2> QED
      BY <2>2 DEF IsInjective, Distinct
  <1> QED
    BY <1>5, <1>6, RouterAssumption

\* Only the policy's answer sets a call's order.
LEMMA AttendKeepsOrders ==
    ASSUME TypeInv, OrdersInv, NEW c \in Calls, Attend(c) \/ OpenStream(c)
    PROVE  OrdersInv'
  <1> SUFFICES ASSUME Policy # "custom", NEW d \in Calls
               PROVE  Distinct(ordered'[d])
    BY DEF OrdersInv, Distinct
  <1>1. Distinct(ordered[d])
    BY DEF OrdersInv
  <1>2. CASE d # c
    BY <1>1, <1>2, OthersUnchanged
  <1>3. CASE d = c /\ SelectProviders(c)
    <2>1. PICK o \in PolicyOrders(EligibleList) :
              ordered' = [ordered EXCEPT ![c] = o]
      BY <1>3 DEF SelectProviders
    <2>2. rotation \in Nat /\ EligibleList # <<>> /\ ordered'[c] = o
      BY <1>3, <2>1 DEF SelectProviders, TypeInv, TypeOK
    <2> QED
      BY <1>3, <2>2, OrderDistinct
  <1>4. CASE ~SelectProviders(c)
    <2>1. ordered' = ordered
      BY <1>4 DEF Attend, OpenStream, EnterInvoke, RefuseClosed, RejectVariants,
                  NoneEligible, PolicyRaises, FactoryRaises, StopOnCallFault,
                  ApplySuccess, ProviderFails, ProviderServes, ApplyFailure,
                  RetryProvider, FallBack, Exhaust, Finish
    <2> QED
      BY <1>1, <2>1
  <1> QED
    BY <1>2, <1>3, <1>4

LEMMA OrdersInvariance == Spec => []OrdersInv
  <1>1. Init => OrdersInv
    BY DEF Init, OrdersInv, Distinct
  <1>2. TypeInv /\ OrdersInv /\ [Next]_vars => OrdersInv'
    <2> SUFFICES ASSUME TypeInv, OrdersInv, [Next]_vars PROVE OrdersInv'
      OBVIOUS
    <2>1. ASSUME NEW c \in Calls, Attend(c) \/ OpenStream(c) PROVE OrdersInv'
      BY <2>1, AttendKeepsOrders
    <2>2. CASE Environment \/ UNCHANGED vars
      <3>1. ordered' = ordered
        BY <2>2 DEF Environment, CloseRouter, ResetHealth, Tick, vars, callVars
      <3> QED
        BY <3>1 DEF OrdersInv, Distinct
    <2> QED
      BY <2>1, <2>2 DEF Next, Quiet
  <1> QED
    BY <1>1, <1>2, TypeInvariance, PTL DEF Spec

-----------------------------------------------------------------------------
(* Refusals.                                                                *)

Refused(c, i) == attempts[c][i].outcome \in {"auth", "rate_limit"}

RefusalOK(c) ==
    Distinct(ordered[c]) =>
        /\ pc[c] \in {"inflight", "failed", "served"} =>
               \A i \in DOMAIN attempts[c] :
                   \E j \in 1..index[c] : attempts[c][i].provider = ordered[c][j]
        /\ pc[c] = "inflight" =>
               \A i \in DOMAIN attempts[c] :
                   Refused(c, i) => attempts[c][i].provider # Current(c)
        /\ \A i, j \in DOMAIN attempts[c] :
               i < j /\ Refused(c, i) =>
                   attempts[c][j].provider # attempts[c][i].provider

RefusalInv == \A c \in Calls : RefusalOK(c)

LEMMA RefusalFrame ==
    ASSUME NEW d \in Calls, RefusalOK(d), pc'[d] = pc[d],
           attempts'[d] = attempts[d], ordered'[d] = ordered[d], index'[d] = index[d]
    PROVE  RefusalOK(d)'
  BY DEF RefusalOK, Refused, Distinct, Current

\* The next attempt goes to a provider that has not refused the call.
LEMMA AnswerKeepsRefusals ==
    ASSUME TypeInv, NEW c \in Calls, RefusalOK(c), ProviderFails(c) \/ ProviderServes(c)
    PROVE  RefusalOK(c)'
  <1>1. PICK o \in Outcomes :
            /\ NoteAttempt(c, Current(c), o)
            /\ pc[c] = "inflight"
            /\ pc'[c] = IF o = "success" THEN "served" ELSE "failed"
            /\ UNCHANGED <<ordered, index, result>>
    BY AnswerFacts
  <1>2. Current(c) \in Providers
    BY <1>1, CurrentType
  <1> DEFINE n == Len(attempts[c])
  <1>3. /\ DOMAIN attempts'[c] = 1..(n + 1) /\ DOMAIN attempts[c] = 1..n
        /\ attempts'[c][n + 1] = [provider |-> Current(c), outcome |-> o]
        /\ \A i \in DOMAIN attempts[c] : attempts'[c][i] = attempts[c][i]
    BY <1>1, <1>2, NoteFacts DEF TypeInv
  <1>4. n \in Nat /\ index[c] \in 1..Len(ordered[c])
    BY <1>1 DEF TypeInv, TypeOK, LoopInv
  <1> SUFFICES ASSUME Distinct(ordered[c]) PROVE RefusalOK(c)'
    BY <1>1 DEF RefusalOK, Distinct
  <1>5. /\ \A i \in 1..n : \E j \in 1..index[c] :
              attempts'[c][i].provider = ordered[c][j]
        /\ \A i \in 1..n : Refused(c, i)' => attempts'[c][i].provider # Current(c)
        /\ \A i, j \in 1..n : i < j /\ Refused(c, i)' =>
              attempts'[c][j].provider # attempts'[c][i].provider
    <2>1. /\ \A i \in 1..n : \E j \in 1..index[c] : attempts[c][i].provider = ordered[c][j]
          /\ \A i \in 1..n : Refused(c, i) => attempts[c][i].provider # Current(c)
          /\ \A i, j \in 1..n : i < j /\ Refused(c, i) =>
                attempts[c][j].provider # attempts[c][i].provider
      BY <1>1, <1>3 DEF RefusalOK
    <2>2. \A i \in 1..n : attempts'[c][i] = attempts[c][i] /\ Refused(c, i)' = Refused(c, i)
      BY <1>3 DEF Refused
    <2> HIDE DEF n
    <2>3. QED
      BY <2>1, <2>2
  <1>6. \A i \in DOMAIN attempts'[c] : i \in 1..n \/ i = n + 1
    BY <1>3, <1>4
  <1>7. attempts'[c][n + 1].provider = Current(c)
    BY <1>3
  <1> HIDE DEF n
  <1>8. \A i \in DOMAIN attempts'[c] :
            \E j \in 1..index'[c] : attempts'[c][i].provider = ordered'[c][j]
    <2>1. index' = index /\ ordered' = ordered /\ index[c] \in 1..index[c]
      BY <1>1, <1>4
    <2>2. attempts'[c][n + 1].provider = ordered[c][index[c]]
      BY <1>7 DEF Current
    <2>3. QED
      BY <1>5, <1>6, <2>1, <2>2
  <1>9. \A i, j \in DOMAIN attempts'[c] :
            i < j /\ Refused(c, i)' => attempts'[c][j].provider # attempts'[c][i].provider
    <2> SUFFICES ASSUME NEW i \in DOMAIN attempts'[c], NEW j \in DOMAIN attempts'[c],
                        i < j, Refused(c, i)'
                 PROVE  attempts'[c][j].provider # attempts'[c][i].provider
      OBVIOUS
    <2>1. i \in 1..n
      BY <1>3, <1>4, <1>6
    <2>2. QED
      BY <1>5, <1>6, <1>7, <2>1
  <1>10. QED
    BY <1>1, <1>8, <1>9 DEF RefusalOK

\* The loop goes back to the same provider only after an error that is no
\* refusal, and otherwise on to one the call has not seen.
LEMMA FailureKeepsRefusals ==
    ASSUME TypeInv, NEW c \in Calls, CallOK(c), RefusalOK(c), ApplyFailure(c)
    PROVE  RefusalOK(c)'
  <1> USE DEF TypeInv, TypeOK
  <1>1. /\ pc[c] = "failed" /\ attempts' = attempts /\ ordered' = ordered
        /\ attempts[c] # <<>> /\ index[c] \in 1..Len(ordered[c])
        /\ attempts[c][Len(attempts[c])].provider = Current(c)
        /\ DOMAIN attempts[c] = 1..Len(attempts[c])
        /\ DOMAIN ordered[c] = 1..Len(ordered[c])
    BY DEF ApplyFailure, LoopInv, CallOK
  <1>2. \/ /\ RetryProvider(c)
           /\ LastOutcome(c) \notin NoRetryCategories
        \/ FallBack(c)
        \/ /\ pc'[c] = "done"
    <2>1. PICK d \in RetryDecisions(c, LastOutcome(c),
                               StartsBench(health[Current(c)], LastOutcome(c))) :
            \/ d = "retry" /\ RetryProvider(c)
            \/ d = "fall_back" /\ (FallBack(c) \/ Exhaust(c))
            \/ d \in {"config_error", "raised"} /\ Finish(c, d)
      BY DEF ApplyFailure
    <2>2. d = "retry" => LastOutcome(c) \notin NoRetryCategories
      BY <2>1 DEF RetryDecisions
    <2>3. QED
      BY <2>1, <2>2 DEF Exhaust, Finish
  <1> SUFFICES ASSUME Distinct(ordered[c]) PROVE RefusalOK(c)'
    BY <1>1 DEF RefusalOK, Distinct
  <1>3. /\ \A i \in DOMAIN attempts[c] :
              \E j \in 1..index[c] : attempts[c][i].provider = ordered[c][j]
        /\ \A i, j \in DOMAIN attempts[c] :
              i < j /\ Refused(c, i) => attempts[c][j].provider # attempts[c][i].provider
    BY <1>1 DEF RefusalOK
  <1>4. \A i \in DOMAIN attempts[c] : Refused(c, i)' = Refused(c, i)
    BY <1>1 DEF Refused
  <1>5. CASE RetryProvider(c) /\ LastOutcome(c) \notin NoRetryCategories
    <2>1. pc'[c] = "inflight" /\ index'[c] = index[c]
      BY <1>5 DEF RetryProvider
    <2>2. Current(c)' = Current(c)
      BY <1>1, <2>1 DEF Current
    <2>3. \A i \in DOMAIN attempts[c] :
              Refused(c, i) => attempts[c][i].provider # Current(c)
      <3> SUFFICES ASSUME NEW i \in DOMAIN attempts[c], Refused(c, i)
                   PROVE  attempts[c][i].provider # Current(c)
        OBVIOUS
      <3>1. i # Len(attempts[c])
        BY <1>5 DEF Refused, LastOutcome, NoRetryCategories
      <3>2. i < Len(attempts[c]) /\ Len(attempts[c]) \in DOMAIN attempts[c]
        BY <1>1, <3>1
      <3>3. QED
        BY <1>1, <1>3, <3>2
    <2>4. QED
      BY <1>1, <1>3, <1>4, <2>1, <2>2, <2>3 DEF RefusalOK
  <1>6. CASE FallBack(c)
    <2>1. /\ pc'[c] = "inflight" /\ index'[c] = index[c] + 1
          /\ index[c] + 1 \in DOMAIN ordered[c]
      BY <1>1, <1>6 DEF FallBack
    <2>2. Current(c)' = ordered[c][index[c] + 1]
      BY <1>1, <2>1 DEF Current
    <2>3. \A j \in 1..index[c] : ordered[c][j] # Current(c)'
      <3> SUFFICES ASSUME NEW j \in 1..index[c] PROVE ordered[c][j] # Current(c)'
        OBVIOUS
      <3>1. j \in DOMAIN ordered[c] /\ j # index[c] + 1
        BY <1>1
      <3>2. QED
        BY <2>1, <2>2, <3>1 DEF Distinct
    <2>4. \A i \in DOMAIN attempts[c] : attempts[c][i].provider # Current(c)'
      BY <1>3, <2>3
    <2>5. \A j \in 1..index[c] : j \in 1..index'[c]
      BY <1>1, <2>1
    <2>6. QED
      BY <1>1, <1>3, <1>4, <2>1, <2>4, <2>5 DEF RefusalOK
  <1>7. CASE pc'[c] = "done"
    BY <1>1, <1>3, <1>4, <1>7 DEF RefusalOK
  <1>8. QED
    BY <1>2, <1>5, <1>6, <1>7

\* A provider that rejected the key or asked for patience is not called again
\* by the same call.
THEOREM RefusalsAreRespected == Spec => []RefusalRespected
  <1>1. Init => RefusalInv
    BY DEF Init, RefusalInv, RefusalOK
  <1>2. TypeInv /\ CallInv /\ RefusalInv /\ [Next]_vars => RefusalInv'
    <2> SUFFICES ASSUME TypeInv, CallInv, RefusalInv, [Next]_vars PROVE RefusalInv'
      OBVIOUS
    <2>1. ASSUME NEW c \in Calls, Attend(c) \/ OpenStream(c) PROVE RefusalInv'
      <3>1. CallOK(c) /\ RefusalOK(c)
        BY DEF CallInv, RefusalInv
      <3>2. ASSUME \/ EnterInvoke(c) \/ RefuseClosed(c) \/ RejectVariants(c)
                   \/ NoneEligible(c) \/ PolicyRaises(c) \/ FactoryRaises(c)
                   \/ StopOnCallFault(c) \/ ApplySuccess(c) \/ OpenStream(c)
            PROVE  RefusalOK(c)'
        <4>1. /\ attempts'[c] = attempts[c] /\ ordered'[c] = ordered[c]
              /\ index'[c] = index[c]
          BY <3>2 DEF EnterInvoke, RefuseClosed, RejectVariants, NoneEligible,
                      PolicyRaises, FactoryRaises, StopOnCallFault, ApplySuccess,
                      OpenStream
        <4>2. pc'[c] \in {"select", "done", "streaming"}
          BY <3>2 DEF EnterInvoke, RefuseClosed, RejectVariants, NoneEligible,
                      PolicyRaises, FactoryRaises, StopOnCallFault, ApplySuccess,
                      OpenStream, Finish, TypeInv, TypeOK
        <4>3. QED
          BY <3>1, <4>1, <4>2 DEF RefusalOK, Refused, Distinct
      <3>3. ASSUME SelectProviders(c) PROVE RefusalOK(c)'
        <4>1. attempts' = attempts /\ attempts[c] = <<>>
          BY <3>1, <3>3 DEF SelectProviders, CallOK
        <4>2. DOMAIN attempts'[c] = {}
          BY <4>1
        <4>3. QED
          BY <4>2 DEF RefusalOK
      <3>4. RefusalOK(c)'
        BY <2>1, <3>1, <3>2, <3>3, AnswerKeepsRefusals, FailureKeepsRefusals DEF Attend
      <3>5. ASSUME NEW d \in Calls, d # c PROVE RefusalOK(d)'
        BY <2>1, <3>5, OthersUnchanged, RefusalFrame DEF RefusalInv
      <3>6. QED
        BY <3>4, <3>5 DEF RefusalInv
    <2>2. CASE Environment \/ UNCHANGED vars
      <3>1. UNCHANGED callVars
        BY <2>2 DEF Environment, CloseRouter, ResetHealth, Tick, vars
      <3>2. QED
        BY <3>1, RefusalFrame DEF RefusalInv, callVars
    <2>3. QED
      BY <2>1, <2>2 DEF Next, Quiet
  <1>3. RefusalInv /\ OrdersInv => RefusalRespected
    BY DEF RefusalInv, RefusalOK, OrdersInv, RefusalRespected, Refused
  <1>4. QED
    BY <1>1, <1>2, <1>3, TypeInvariance, CallInvariance, OrdersInvariance,
       PTL DEF Spec

-----------------------------------------------------------------------------
(* The number of attempts.  Before a visit, a call has made at most one     *)
(* attempt per finished visit and one retry cycle per provider seen.        *)

Seen(c, k) == {ordered[c][j] : j \in 1..k}

Bound(c, k) == k + (RetryCeiling - 1) * Cardinality(Seen(c, k))

BoundOK(c) ==
    /\ pc[c] \in {"inflight", "failed", "served"} =>
           /\ attemptNumber[c] \in 1..RetryCeiling
           /\ attemptNumber[c] > 1 => FirstVisit(c)
    /\ pc[c] = "inflight" =>
           Len(attempts[c]) < Bound(c, index[c] - 1) + attemptNumber[c]
    /\ pc[c] \in {"failed", "served"} =>
           Len(attempts[c]) <= Bound(c, index[c] - 1) + attemptNumber[c]
    /\ pc[c] \in {"done", "streaming"} =>
           Len(attempts[c]) <= Bound(c, Len(ordered[c]))

BoundInv == \A c \in Calls : BoundOK(c)

LEMMA SeenFinite ==
    ASSUME TypeInv, NEW c \in Calls, NEW k \in Nat
    PROVE  /\ IsFiniteSet(Seen(c, k)) /\ Cardinality(Seen(c, k)) \in Nat
           /\ Seen(c, k + 1) = Seen(c, k) \cup {ordered[c][k + 1]}
           /\ IsFiniteSet(Seen(c, k + 1)) /\ Cardinality(Seen(c, k + 1)) \in Nat
  <1>1. IsFiniteSet(1..k) /\ IsFiniteSet(1..(k + 1))
    BY FS_Interval
  <1>2. ASSUME NEW m \in Nat
        PROVE  IsFiniteSet(Seen(c, m)) /\ Cardinality(Seen(c, m)) \in Nat
    <2>1. IsFiniteSet(1..m)
      BY FS_Interval
    <2> DEFINE f == [j \in 1..m |-> ordered[c][j]]
    <2>2. f \in Surjection(1..m, Seen(c, m))
      BY DEF Surjection, Seen
    <2>3. IsFiniteSet(Seen(c, m))
      BY <2>1, <2>2, FS_Surjection
    <2>4. QED
      BY <2>3, FS_CardinalityType
  <1>3. Seen(c, k + 1) = Seen(c, k) \cup {ordered[c][k + 1]}
    <2>1. 1..(k + 1) = (1..k) \cup {k + 1}
      OBVIOUS
    <2>2. QED
      BY <2>1 DEF Seen
  <1>4. QED
    BY <1>2, <1>3

LEMMA BoundType ==
    ASSUME TypeInv, NEW c \in Calls, NEW k \in Nat
    PROVE  Bound(c, k) \in Nat
  <1>0. RetryCeiling - 1 \in Nat
    BY RouterAssumption
  <1>1. RetryCeiling - 1 \in Nat /\ Cardinality(Seen(c, k)) \in Nat
    BY <1>0, SeenFinite
  <1>2. \A a, b \in Nat : a * b \in Nat
    OBVIOUS
  <1>3. QED
    BY <1>1, <1>2 DEF Bound

LEMMA BoundGrows ==
    ASSUME TypeInv, NEW c \in Calls, NEW k \in Nat, NEW m \in Nat, k <= m
    PROVE  Bound(c, k) <= Bound(c, m)
  <1>1. Seen(c, k) \in SUBSET Seen(c, m)
    BY DEF Seen
  <1>2. Cardinality(Seen(c, k)) <= Cardinality(Seen(c, m))
    BY <1>1, SeenFinite, FS_Subset
  <1>3. /\ RetryCeiling - 1 \in Nat /\ Cardinality(Seen(c, k)) \in Nat
        /\ Cardinality(Seen(c, m)) \in Nat
    <2>1. RetryCeiling - 1 \in Nat
      BY RouterAssumption
    <2>2. QED
      BY <2>1, SeenFinite
  <1>4. \A r, a, b \in Nat : a <= b => r * a <= r * b
    OBVIOUS
  <1>5. (RetryCeiling - 1) * Cardinality(Seen(c, k))
            <= (RetryCeiling - 1) * Cardinality(Seen(c, m))
    BY <1>2, <1>3, <1>4
  <1>6. /\ (RetryCeiling - 1) * Cardinality(Seen(c, k)) \in Nat
        /\ (RetryCeiling - 1) * Cardinality(Seen(c, m)) \in Nat
    <2>1. \A a, b \in Nat : a * b \in Nat
      OBVIOUS
    <2>2. QED
      BY <1>3, <2>1
  <1>7. QED
    BY <1>5, <1>6 DEF Bound

\* A visit costs one attempt and, on the provider's first visit, one retry cycle.
LEMMA VisitCost ==
    ASSUME TypeInv, NEW c \in Calls, BoundOK(c),
           pc[c] \in {"inflight", "failed", "served"}
    PROVE  Bound(c, index[c] - 1) + attemptNumber[c] <= Bound(c, index[c])
  <1> DEFINE k == index[c] - 1
             n == Cardinality(Seen(c, k))
             r == RetryCeiling - 1
  <1>1. k \in Nat /\ k + 1 = index[c] /\ r \in Nat
    BY RouterAssumption DEF TypeInv, TypeOK, LoopInv
  <1>2. attemptNumber[c] \in 1..RetryCeiling
    BY DEF BoundOK
  <1>3. /\ IsFiniteSet(Seen(c, k)) /\ n \in Nat
        /\ Seen(c, index[c]) = Seen(c, k) \cup {Current(c)}
    BY <1>1, SeenFinite DEF Current
  <1>4. Cardinality(Seen(c, index[c])) = IF Current(c) \in Seen(c, k) THEN n ELSE n + 1
    BY <1>3, FS_AddElement
  <1>5. attemptNumber[c] > 1 => Current(c) \notin Seen(c, k)
    BY DEF BoundOK, FirstVisit, Seen
  <1>6. r * (n + 1) = r * n + r /\ r * n \in Nat
    <2>1. \A a, b \in Nat : a * (b + 1) = a * b + a /\ a * b \in Nat
      OBVIOUS
    <2>2. QED
      BY <1>1, <1>3, <2>1
  <1>7. Bound(c, k) = k + r * n
    BY DEF Bound
  <1>8. Bound(c, index[c]) = index[c] + r * Cardinality(Seen(c, index[c]))
    BY DEF Bound
  <1> HIDE DEF k, n
  <1>9. CASE Current(c) \in Seen(c, k)
    <2>1. attemptNumber[c] = 1
      BY <1>2, <1>5, <1>9 DEF k
    <2>2. QED
      BY <1>1, <1>4, <1>6, <1>7, <1>8, <1>9, <2>1 DEF k
  <1>10. CASE Current(c) \notin Seen(c, k)
    <2>1. Bound(c, index[c]) = index[c] + r * n + r
      BY <1>1, <1>4, <1>6, <1>8, <1>10
    <2>2. attemptNumber[c] <= r + 1 /\ attemptNumber[c] \in Nat
      BY <1>2, RouterAssumption
    <2> HIDE DEF r
    <2>3. QED
      BY <1>1, <1>6, <1>7, <2>1, <2>2 DEF k
  <1>11. QED
    BY <1>9, <1>10

\* Wherever the loop stops, the call has paid for no more than its whole order.
LEMMA StopWithinBound ==
    ASSUME TypeInv, NEW c \in Calls, BoundOK(c),
           pc[c] \in {"inflight", "failed", "served"}
    PROVE  Len(attempts[c]) <= Bound(c, Len(ordered[c]))
  <1>1. index[c] \in Nat /\ index[c] - 1 \in Nat /\ Len(ordered[c]) \in Nat
        /\ index[c] <= Len(ordered[c])
    BY DEF TypeInv, TypeOK, LoopInv
  <1>2. /\ Bound(c, index[c] - 1) \in Nat /\ Bound(c, index[c]) \in Nat
        /\ Bound(c, Len(ordered[c])) \in Nat
    BY <1>1, BoundType
  <1>3. Bound(c, index[c]) <= Bound(c, Len(ordered[c]))
    BY <1>1, BoundGrows
  <1>4. Len(attempts[c]) <= Bound(c, index[c] - 1) + attemptNumber[c]
    BY <1>2 DEF BoundOK, TypeInv, TypeOK
  <1>5. Len(attempts[c]) \in Nat /\ attemptNumber[c] \in Nat
    BY DEF TypeInv, TypeOK
  <1>6. QED
    BY <1>2, <1>3, <1>4, <1>5, VisitCost

LEMMA BoundFrame ==
    ASSUME NEW d \in Calls, BoundOK(d), pc'[d] = pc[d], attempts'[d] = attempts[d],
           ordered'[d] = ordered[d], index'[d] = index[d],
           attemptNumber'[d] = attemptNumber[d]
    PROVE  BoundOK(d)'
  <1>1. \A k : Bound(d, k)' = Bound(d, k)
    BY DEF Bound, Seen
  <1>2. FirstVisit(d)' = FirstVisit(d)
    BY DEF FirstVisit, Current
  <1>3. QED
    BY <1>1, <1>2 DEF BoundOK

LEMMA AttemptNumberOfOthers ==
    ASSUME TypeInv, NEW c \in Calls, Attend(c) \/ OpenStream(c), NEW d \in Calls, d # c
    PROVE  attemptNumber'[d] = attemptNumber[d]
  <1>1. \/ UNCHANGED attemptNumber
        \/ SelectProviders(c)
        \/ ApplyFailure(c)
    BY DEF Attend, EnterInvoke, RefuseClosed, RejectVariants, NoneEligible, PolicyRaises,
           ProviderFails, FactoryRaises, StopOnCallFault, ProviderServes, ApplySuccess,
           OpenStream
  <1>2. QED
    BY <1>1 DEF SelectProviders, ApplyFailure, RetryProvider, FallBack, Exhaust,
                TypeInv, TypeOK

\* The call's own steps, one by one.
LEMMA BoundStep ==
    ASSUME TypeInv, NEW c \in Calls, CallOK(c), BoundOK(c), Attend(c) \/ OpenStream(c)
    PROVE  BoundOK(c)'
  <1> DEFINE n == Len(attempts[c])
  <1>0. n \in Nat /\ RetryCeiling \in Nat /\ RetryCeiling >= 1
    BY RouterAssumption DEF TypeInv, TypeOK
  <1>1. ASSUME attempts'[c] = attempts[c], ordered'[c] = ordered[c],
               pc'[c] \in {"done", "streaming"},
               n <= Bound(c, Len(ordered[c]))
        PROVE  BoundOK(c)'
    <2>1. Bound(c, Len(ordered[c]))' = Bound(c, Len(ordered[c]))
      BY <1>1 DEF Bound, Seen
    <2>2. QED
      BY <1>1, <2>1 DEF BoundOK
  <1>2. ASSUME attempts[c] = <<>> PROVE n <= Bound(c, Len(ordered[c]))
    <2>1. Bound(c, Len(ordered[c])) \in Nat /\ n = 0
      BY <1>2, BoundType DEF TypeInv, TypeOK
    <2>2. QED
      BY <2>1
  <1>3. ASSUME EnterInvoke(c) PROVE BoundOK(c)'
    <2>1. pc'[c] = "select"
      BY <1>3 DEF EnterInvoke, TypeInv, TypeOK
    <2>2. QED
      BY <2>1 DEF BoundOK
  <1>4. ASSUME RefuseClosed(c) \/ RejectVariants(c) \/ NoneEligible(c) \/ PolicyRaises(c)
        PROVE  BoundOK(c)'
    <2>1. /\ pc[c] \in {"start", "select"} /\ pc'[c] = "done"
          /\ attempts' = attempts /\ ordered' = ordered
      BY <1>4 DEF RefuseClosed, RejectVariants, NoneEligible, PolicyRaises, Finish,
                  TypeInv, TypeOK
    <2>2. attempts[c] = <<>>
      BY <2>1 DEF CallOK
    <2>3. QED
      BY <1>1, <1>2, <2>1, <2>2
  <1>5. ASSUME SelectProviders(c) PROVE BoundOK(c)'
    <2>1. /\ attempts' = attempts /\ attempts[c] = <<>>
          /\ index'[c] = 1 /\ attemptNumber'[c] = 1
          /\ pc'[c] \in {"inflight", "done"}
      BY <1>5 DEF SelectProviders, CallOK, Finish, TypeInv, TypeOK
    <2>2. TypeInv'
      BY <1>5, SelectStep
    <2>3. \A k \in Nat : Bound(c, k)' \in Nat
      <3> SUFFICES ASSUME NEW k \in Nat PROVE Bound(c, k)' \in Nat
        OBVIOUS
      <3>1. RetryCeiling - 1 \in Nat
        BY RouterAssumption
      <3>2. IsFiniteSet(Seen(c, k)')
        <4> DEFINE f == [j \in 1..k |-> ordered'[c][j]]
        <4>1. f \in Surjection(1..k, Seen(c, k)')
          BY DEF Surjection, Seen
        <4>2. IsFiniteSet(1..k)
          BY FS_Interval
        <4>3. QED
          BY <4>1, <4>2, FS_Surjection
      <3>3. Cardinality(Seen(c, k)') \in Nat
        BY <3>2, FS_CardinalityType
      <3>4. \A a, b \in Nat : a * b \in Nat
        OBVIOUS
      <3>5. QED
        BY <3>1, <3>3, <3>4 DEF Bound
    <2>4. Len(attempts'[c]) = 0 /\ Len(ordered'[c]) \in Nat
      BY <2>1, <2>2 DEF TypeInv, TypeOK
    <2>5. Bound(c, index[c] - 1)' \in Nat
      <3>1. Bound(c, index[c] - 1)' = Bound(c, 0)'
        <4>1. index'[c] - 1 = 0
          BY <2>1
        <4>2. QED
          BY <4>1 DEF Bound, Seen
      <3>2. QED
        BY <2>3, <3>1
    <2>6. Bound(c, Len(ordered[c]))' \in Nat
      <3>1. PICK m \in Nat : m = Len(ordered'[c])
        BY <2>4
      <3>2. Bound(c, Len(ordered[c]))' = Bound(c, m)'
        BY <3>1 DEF Bound, Seen
      <3>3. QED
        BY <2>3, <3>2
    <2>7. Len(attempts'[c]) < Bound(c, index[c] - 1)' + attemptNumber'[c]
      BY <2>1, <2>4, <2>5
    <2>8. Len(attempts'[c]) <= Bound(c, Len(ordered[c]))'
      BY <2>4, <2>6
    <2>9. 1 \in 1..RetryCeiling /\ ~(attemptNumber'[c] > 1)
      BY <1>0, <2>1
    <2>10. QED
      BY <2>1, <2>7, <2>8, <2>9 DEF BoundOK
  <1>6. ASSUME ProviderFails(c) \/ ProviderServes(c) PROVE BoundOK(c)'
    <2>1. PICK o \in Outcomes :
            /\ NoteAttempt(c, Current(c), o) /\ pc[c] = "inflight"
            /\ pc'[c] = IF o = "success" THEN "served" ELSE "failed"
            /\ UNCHANGED <<ordered, index, result>>
      BY <1>6, AnswerFacts
    <2>2. Current(c) \in Providers /\ attemptNumber' = attemptNumber
      BY <1>6, <2>1, CurrentType DEF ProviderFails, ProviderServes
    <2>3. Len(attempts'[c]) = n + 1
      BY <2>1, <2>2, NoteFacts DEF TypeInv
    <2>4. Bound(c, index[c] - 1)' = Bound(c, index[c] - 1) /\ FirstVisit(c)' = FirstVisit(c)
      BY <2>1 DEF Bound, Seen, FirstVisit, Current
    <2>5. Bound(c, index[c] - 1) \in Nat /\ attemptNumber[c] \in Nat
      <3>1. index[c] - 1 \in Nat
        BY <2>1 DEF TypeInv, TypeOK, LoopInv
      <3>2. QED
        BY <3>1, BoundType DEF TypeInv, TypeOK
    <2>6. n < Bound(c, index[c] - 1) + attemptNumber[c]
      BY <2>1 DEF BoundOK
    <2>7. n + 1 <= Bound(c, index[c] - 1) + attemptNumber[c]
      BY <1>0, <2>5, <2>6
    <2>8. pc'[c] \in {"served", "failed"}
      BY <2>1
    <2>9. /\ attemptNumber[c] \in 1..RetryCeiling
          /\ attemptNumber[c] > 1 => FirstVisit(c)
      BY <2>1 DEF BoundOK
    <2>10. QED
      BY <2>2, <2>3, <2>4, <2>7, <2>8, <2>9 DEF BoundOK
  <1>7. ASSUME FactoryRaises(c) \/ StopOnCallFault(c) \/ ApplySuccess(c) \/ OpenStream(c)
        PROVE  BoundOK(c)'
    <2>1. /\ pc[c] \in {"inflight", "failed", "served"} /\ pc'[c] \in {"done", "streaming"}
          /\ attempts' = attempts /\ ordered' = ordered
      BY <1>7 DEF FactoryRaises, StopOnCallFault, ApplySuccess, OpenStream, Finish,
                  TypeInv, TypeOK
    <2>2. QED
      BY <1>1, <2>1, StopWithinBound
  <1>8. ASSUME ApplyFailure(c) PROVE BoundOK(c)'
    <2>1. /\ pc[c] = "failed" /\ attempts' = attempts /\ ordered' = ordered
          /\ index[c] \in 1..Len(ordered[c]) /\ attemptNumber[c] \in 1..RetryCeiling
          /\ n <= Bound(c, index[c] - 1) + attemptNumber[c]
      BY <1>8 DEF ApplyFailure, BoundOK, TypeInv, TypeOK, LoopInv
    <2>2. \A k : Bound(c, k)' = Bound(c, k)
      BY <2>1 DEF Bound, Seen
    <2>3. \/ /\ RetryProvider(c) /\ FirstVisit(c)
             /\ attemptNumber[c] < RetryCeiling
          \/ FallBack(c)
          \/ pc'[c] = "done"
      <3>1. PICK d \in RetryDecisions(c, LastOutcome(c),
                                 StartsBench(health[Current(c)], LastOutcome(c))) :
              \/ d = "retry" /\ RetryProvider(c)
              \/ d = "fall_back" /\ (FallBack(c) \/ Exhaust(c))
              \/ d \in {"config_error", "raised"} /\ Finish(c, d)
        BY <1>8 DEF ApplyFailure
      <3>2. d = "retry" => FirstVisit(c) /\ ~(attemptNumber[c] >= RetryCeiling)
        BY <3>1 DEF RetryDecisions
      <3>3. ~(attemptNumber[c] >= RetryCeiling) => attemptNumber[c] < RetryCeiling
        BY <1>0, <2>1
      <3>4. Exhaust(c) \/ (\E d2 : Finish(c, d2)) => pc'[c] = "done"
        BY DEF Exhaust, Finish, TypeInv, TypeOK
      <3>5. QED
        BY <3>1, <3>2, <3>3, <3>4
    <2>4. /\ Bound(c, index[c] - 1) \in Nat /\ Bound(c, index[c]) \in Nat
          /\ attemptNumber[c] \in Nat /\ index[c] \in Nat
      <3>1. index[c] - 1 \in Nat /\ index[c] \in Nat
        BY <2>1
      <3>2. QED
        BY <2>1, <3>1, BoundType
    <2>5. CASE RetryProvider(c) /\ FirstVisit(c) /\ attemptNumber[c] < RetryCeiling
      <3>1. /\ pc'[c] = "inflight" /\ index'[c] = index[c]
            /\ attemptNumber'[c] = attemptNumber[c] + 1
        BY <2>5 DEF RetryProvider, TypeInv, TypeOK
      <3>2. FirstVisit(c)'
        BY <2>1, <2>5, <3>1 DEF FirstVisit, Current
      <3>3. /\ attemptNumber'[c] \in 1..RetryCeiling
            /\ n < Bound(c, index[c] - 1) + attemptNumber'[c]
        BY <1>0, <2>1, <2>4, <2>5, <3>1
      <3>4. Bound(c, index[c] - 1)' = Bound(c, index[c] - 1)
        BY <2>2, <3>1 DEF Bound, Seen
      <3>5. QED
        BY <2>1, <3>1, <3>2, <3>3, <3>4 DEF BoundOK
    <2>6. CASE FallBack(c)
      <3>1. pc'[c] = "inflight" /\ index'[c] = index[c] + 1 /\ attemptNumber'[c] = 1
        BY <2>6 DEF FallBack, TypeInv, TypeOK
      <3>2. index'[c] - 1 = index[c]
        BY <2>4, <3>1
      <3>3. Bound(c, index[c] - 1)' = Bound(c, index[c])
        BY <2>1, <3>2 DEF Bound, Seen
      <3>4. n < Bound(c, index[c]) + 1
        BY <1>0, <2>1, <2>4, VisitCost
      <3>5. 1 \in 1..RetryCeiling
        BY <1>0
      <3>6. QED
        BY <2>1, <3>1, <3>3, <3>4, <3>5 DEF BoundOK
    <2>7. CASE pc'[c] = "done"
      BY <1>1, <2>1, <2>7, StopWithinBound
    <2>8. QED
      BY <2>3, <2>5, <2>6, <2>7
  <1>9. QED
    BY <1>3, <1>4, <1>5, <1>6, <1>7, <1>8 DEF Attend

\* One retry cycle per provider and call, however often a policy's order names
\* a provider and whatever a custom retry policy answers.
THEOREM AttemptsAreBounded == Spec => []AttemptsBounded
  <1>1. Init => BoundInv
    BY DEF Init, BoundInv, BoundOK
  <1>2. TypeInv /\ CallInv /\ BoundInv /\ [Next]_vars => BoundInv'
    <2> SUFFICES ASSUME TypeInv, CallInv, BoundInv, [Next]_vars PROVE BoundInv'
      OBVIOUS
    <2>1. ASSUME NEW c \in Calls, Attend(c) \/ OpenStream(c) PROVE BoundInv'
      <3>1. BoundOK(c)'
        BY <2>1, BoundStep DEF CallInv, BoundInv
      <3>2. ASSUME NEW d \in Calls, d # c PROVE BoundOK(d)'
        BY <2>1, <3>2, OthersUnchanged, AttemptNumberOfOthers, BoundFrame DEF BoundInv
      <3>3. QED
        BY <3>1, <3>2 DEF BoundInv
    <2>2. CASE Environment \/ UNCHANGED vars
      <3>1. UNCHANGED callVars
        BY <2>2 DEF Environment, CloseRouter, ResetHealth, Tick, vars
      <3>2. QED
        BY <3>1, BoundFrame DEF BoundInv, callVars
    <2>3. QED
      BY <2>1, <2>2 DEF Next, Quiet
  <1>3. TypeInv /\ CallInv /\ BoundInv => AttemptsBounded
    <2> SUFFICES ASSUME TypeInv, CallInv, BoundInv, NEW c \in Calls
                 PROVE  Len(attempts[c]) <= Len(ordered[c])
                            + (RetryCeiling - 1) * Cardinality(ToSet(ordered[c]))
      BY DEF AttemptsBounded
    <2>1. Seen(c, Len(ordered[c])) = ToSet(ordered[c])
      BY DEF Seen, ToSet, TypeInv, TypeOK
    <2>2. Len(attempts[c]) <= Bound(c, Len(ordered[c]))
      <3>1. CASE pc[c] \in {"start", "select"}
        <4>1. attempts[c] = <<>>
          BY <3>1 DEF CallInv, CallOK
        <4>2. Bound(c, Len(ordered[c])) \in Nat
          BY BoundType DEF TypeInv, TypeOK
        <4>3. QED
          BY <4>1, <4>2
      <3>2. CASE pc[c] \in {"inflight", "failed", "served"}
        BY <3>2, StopWithinBound DEF BoundInv
      <3>3. CASE pc[c] \in {"done", "streaming"}
        BY <3>3 DEF BoundInv, BoundOK
      <3>4. QED
        BY <3>1, <3>2, <3>3 DEF CallInv, CallOK
    <2>3. QED
      BY <2>1, <2>2 DEF Bound
  <1>4. QED
    BY <1>1, <1>2, <1>3, TypeInvariance, CallInvariance, PTL DEF Spec

-----------------------------------------------------------------------------
(* Blame.                                                                   *)

Evidence(p) ==
    \E c \in Calls : \E i \in DOMAIN attempts[c] :
        /\ attempts[c][i].provider = p
        /\ attempts[c][i].outcome \notin StopCategories \cup {"success"}

\* What a call listed stays listed.
LEMMA EvidenceStays ==
    ASSUME TypeInv, [Next]_vars, NEW p \in Providers, Evidence(p)
    PROVE  Evidence(p)'
  <1>1. CASE attempts' = attempts
    BY <1>1 DEF Evidence
  <1>2. ASSUME NEW c \in Calls, ProviderFails(c) \/ ProviderServes(c)
        PROVE  Evidence(p)'
    <2>1. PICK o \in Outcomes : NoteAttempt(c, Current(c), o) /\ pc[c] = "inflight"
      BY <1>2, AnswerFacts
    <2>2. Current(c) \in Providers
      BY <2>1, CurrentType
    <2>3. \A i \in DOMAIN attempts[c] :
              i \in DOMAIN attempts'[c] /\ attempts'[c][i] = attempts[c][i]
      <3>1. TypeOK /\ Len(attempts[c]) \in Nat
        BY DEF TypeInv, TypeOK
      <3>2. /\ DOMAIN attempts'[c] = 1..(Len(attempts[c]) + 1)
            /\ DOMAIN attempts[c] = 1..Len(attempts[c])
            /\ \A i \in DOMAIN attempts[c] : attempts'[c][i] = attempts[c][i]
        BY <2>1, <2>2, <3>1, NoteFacts
      <3>3. QED
        BY <3>1, <3>2
    <2>4. \A d \in Calls : d # c => attempts'[d] = attempts[d]
      BY <2>1 DEF NoteAttempt, TypeInv, TypeOK
    <2>5. QED
      BY <2>3, <2>4 DEF Evidence
  <1>3. CASE \E c \in Calls :
            \/ EnterInvoke(c) \/ RefuseClosed(c) \/ RejectVariants(c)
            \/ SelectProviders(c) \/ NoneEligible(c) \/ PolicyRaises(c)
            \/ FactoryRaises(c) \/ StopOnCallFault(c) \/ ApplyFailure(c)
            \/ ApplySuccess(c) \/ OpenStream(c)
    BY <1>1, <1>3 DEF EnterInvoke, RefuseClosed, RejectVariants, SelectProviders,
                NoneEligible, PolicyRaises, FactoryRaises, StopOnCallFault,
                ApplyFailure, ApplySuccess, OpenStream
  <1>4. CASE Environment \/ UNCHANGED vars
    BY <1>1, <1>4 DEF Environment, CloseRouter, ResetHealth, Tick, vars, callVars
  <1>5. QED
    BY <1>2, <1>3, <1>4 DEF Next, Attend, Quiet

\* Only ApplyFailure charges a failure, and it charges one the call has listed.
LEMMA ChargeHasEvidence ==
    ASSUME TypeInv, CallInv, NEW c \in Calls, ApplyFailure(c)
    PROVE  /\ Evidence(Current(c))
           /\ \A p \in Providers : p # Current(c) => health'[p] = health[p]
  <1>1. /\ pc[c] = "failed" /\ attempts[c] # <<>>
        /\ LastOutcome(c) \notin StopCategories
    BY DEF ApplyFailure, TypeInv, LoopInv
  <1>2. Len(attempts[c]) \in DOMAIN attempts[c]
    BY <1>1, EmptySeq DEF TypeInv, TypeOK
  <1>3. /\ LastOutcome(c) # "success"
        /\ attempts[c][Len(attempts[c])].provider = Current(c)
    BY <1>1, <1>2 DEF CallInv, CallOK, LastOutcome
  <1>4. Evidence(Current(c))
    BY <1>1, <1>2, <1>3 DEF Evidence, LastOutcome
  <1>5. \A p \in Providers : p # Current(c) => health'[p] = health[p]
    BY DEF ApplyFailure, Blame, TypeInv, TypeOK
  <1>6. QED
    BY <1>4, <1>5

\* One malformed request benches nobody: a provider's health is ever touched
\* only when some call has seen it fail for a reason of its own.
THEOREM BlameIsDeserved == Spec => []BlameNeedsEvidence
  <1>1. Init => BlameNeedsEvidence
    BY DEF Init, BlameNeedsEvidence
  <1>2. TypeInv /\ CallInv /\ BlameNeedsEvidence /\ [Next]_vars => BlameNeedsEvidence'
    <2> SUFFICES ASSUME TypeInv, CallInv, BlameNeedsEvidence, [Next]_vars,
                        NEW p \in Providers, health'[p] # Fresh
                 PROVE  Evidence(p)'
      BY DEF BlameNeedsEvidence, Evidence
    <2>1. CASE health[p] # Fresh
      BY <2>1, EvidenceStays DEF BlameNeedsEvidence, Evidence
    <2>2. CASE health[p] = Fresh
      <3>1. ASSUME NEW c \in Calls, ApplyFailure(c) PROVE Evidence(p)
        BY <2>2, <3>1, ChargeHasEvidence
      <3>2. ASSUME ~\E c \in Calls : ApplyFailure(c) PROVE FALSE
        <4>1. RecordSuccess(Fresh) = Fresh
          BY DEF RecordSuccess, Fresh
        <4>2. ASSUME NEW c \in Calls, ApplySuccess(c) PROVE health'[p] = Fresh
          BY <2>2, <4>1, <4>2 DEF ApplySuccess, TypeInv, TypeOK
        <4>3. ASSUME NEW cleared \in Resettable, ResetHealth(cleared)
              PROVE  health'[p] = Fresh
          BY <2>2, <4>3 DEF ResetHealth
        <4>4. CASE \E c \in Calls :
                  \/ EnterInvoke(c) \/ RefuseClosed(c) \/ RejectVariants(c)
                  \/ SelectProviders(c) \/ NoneEligible(c) \/ PolicyRaises(c)
                  \/ ProviderFails(c) \/ FactoryRaises(c) \/ StopOnCallFault(c)
                  \/ ProviderServes(c) \/ OpenStream(c)
          BY <2>2, <4>4
             DEF EnterInvoke, RefuseClosed, RejectVariants, SelectProviders,
                 NoneEligible, PolicyRaises, ProviderFails, FactoryRaises,
                 StopOnCallFault, ProviderServes, OpenStream, routerVars
        <4>5. CASE CloseRouter \/ Tick \/ UNCHANGED vars
          BY <2>2, <4>5 DEF CloseRouter, Tick, vars, routerVars
        <4>6. QED
          BY <3>2, <4>2, <4>3, <4>4, <4>5 DEF Next, Attend, Environment, Quiet
      <3>3. QED
        BY <3>1, <3>2, EvidenceStays
    <2>3. QED
      BY <2>1, <2>2
  <1>3. QED
    BY <1>1, <1>2, TypeInvariance, CallInvariance, PTL DEF Spec

-----------------------------------------------------------------------------
(* Refinement.                                                              *)

LEMMA FinalOutcome ==
    ASSUME TypeInv, NEW c \in Calls, attempts[c] # <<>>
    PROVE  Len(attempts[c]) \in DOMAIN attempts[c]
  BY EmptySeq DEF TypeInv, TypeOK

\* A call that is trying a provider has seen nothing final yet.
LEMMA NotEnded ==
    ASSUME TypeInv, CallInv, NEW c \in Calls, pc[c] = "inflight"
    PROVE  ~Contract!Ended(c)
  <1>1. CallOK(c)
    BY DEF CallInv
  <1>2. CASE attempts[c] = <<>>
    BY <1>2 DEF Contract!Ended
  <1>3. CASE attempts[c] # <<>>
    <2>1. Len(attempts[c]) \in DOMAIN attempts[c]
      BY <1>3, FinalOutcome
    <2>2. /\ attempts[c][Len(attempts[c])].outcome # "success"
          /\ attempts[c][Len(attempts[c])].outcome \notin StopCategories
      BY <1>1, <1>3, <2>1 DEF CallOK, LastOutcome
    <2>3. ~Contract!Final(attempts[c][Len(attempts[c])].outcome)
      BY <2>2 DEF Contract!Final, Contract!StopCategories, StopCategories
    <2>4. QED
      BY <2>3 DEF Contract!Ended
  <1>4. QED
    BY <1>2, <1>3

\* Every step of a call is a step of the caller's contract or none at all.
LEMMA ContractStep ==
    ASSUME TypeInv, CallInv, CallInv', NEW c \in Calls, Attend(c) \/ OpenStream(c)
    PROVE  [Contract!Next]_(Contract!contractVars)
  <1> DEFINE verdict == [d \in Calls |-> Verdict(d)]
  <1>0. ASSUME NEW d \in Calls, d # c
        PROVE  verdict'[d] = verdict[d] /\ attempts'[d] = attempts[d]
    <2>1. pc'[d] = pc[d] /\ result'[d] = result[d] /\ attempts'[d] = attempts[d]
      BY <1>0, OthersUnchanged
    <2>2. Verdict(d)' = Verdict(d)
      BY <2>1 DEF Verdict
    <2>3. QED
      BY <2>1, <2>2
  <1> USE DEF TypeInv, TypeOK
  <1>1. CASE attempts' = attempts /\ Verdict(c)' = Verdict(c)
    <2>1. verdict' = verdict
      BY <1>0, <1>1
    <2>2. QED
      BY <1>1, <2>1 DEF Contract!contractVars
  <1>2. ASSUME NEW v, attempts' = attempts, Verdict(c) = "open", Verdict(c)' = v
        PROVE  Contract!Conclude(c, v)
    <2>1. verdict[c] = "open" /\ verdict' = [verdict EXCEPT ![c] = v]
      BY <1>0, <1>2
    <2>2. QED
      BY <1>2, <2>1 DEF Contract!Conclude
  <1>3. CASE ProviderFails(c) \/ ProviderServes(c)
    <2>1. PICK o \in Outcomes :
            /\ NoteAttempt(c, Current(c), o) /\ pc[c] = "inflight"
            /\ pc'[c] = IF o = "success" THEN "served" ELSE "failed"
            /\ result' = result
      BY <1>3, AnswerFacts
    <2>2. result[c] = "none"
      BY <2>1 DEF CallInv, CallOK
    <2>3. Verdict(c) = "open" /\ Verdict(c)' = "open"
      BY <2>1, <2>2 DEF Verdict
    <2>4. verdict' = verdict /\ verdict[c] = "open"
      BY <1>0, <2>3
    <2>5. ~Contract!Ended(c)
      BY <2>1, NotEnded
    <2>6. Current(c) \in Providers
      BY <2>1, CurrentType
    <2>7. \E q \in Providers, u \in Categories \cup {"success"} :
            attempts' = [attempts EXCEPT ![c] =
                            Append(@, [provider |-> q, outcome |-> u])]
      BY <2>1, <2>6 DEF NoteAttempt, Outcomes
    <2>9. Contract!Try(c)
      BY <2>4, <2>5, <2>7 DEF Contract!Try, Contract!Categories, Categories
    <2>10. QED
      BY <2>9 DEF Contract!Next
  <1>4. CASE EnterInvoke(c)
    <2>1. pc[c] = "start" /\ result[c] = "none" /\ result' = result /\ pc'[c] = "select"
      BY <1>4 DEF EnterInvoke, CallInv, CallOK
    <2>2. attempts' = attempts
      BY <1>4 DEF EnterInvoke
    <2>3. QED
      BY <1>1, <2>1, <2>2 DEF Verdict
  <1>5. CASE RefuseClosed(c) \/ RejectVariants(c) \/ NoneEligible(c)
    <2>1. /\ pc[c] \in {"start", "select"} /\ result[c] = "none" /\ attempts[c] = <<>>
          /\ attempts' = attempts /\ pc'[c] = "done"
          /\ result'[c] \in {"closed", "rejected", "no_eligible"}
      BY <1>5 DEF RefuseClosed, RejectVariants, NoneEligible, Finish, CallInv, CallOK
    <2>2. Verdict(c) = "open" /\ Verdict(c)' = "refused"
      BY <2>1 DEF Verdict
    <2>3. QED
      BY <1>2, <2>1, <2>2 DEF Contract!Next, Contract!Refuse
  <1>6. ASSUME pc[c] # "done", pc[c] # "streaming", pc'[c] = "done",
               attempts' = attempts,
               result'[c] \in {"exhausted", "raised", "config_error"}
        PROVE  Contract!Next
    <2>1. result[c] = "none"
      BY <1>6 DEF CallInv, CallOK
    <2>2. Verdict(c) = "open" /\ Verdict(c)' = "failed"
      BY <1>6, <2>1 DEF Verdict
    <2>3. ~Contract!Succeeded(c)
      BY <1>6, FinalOutcome DEF Contract!Succeeded, CallInv, CallOK
    <2>4. QED
      BY <1>2, <1>6, <2>2, <2>3 DEF Contract!Next, Contract!Fail
  <1>7. CASE PolicyRaises(c) \/ FactoryRaises(c) \/ StopOnCallFault(c)
    BY <1>6, <1>7 DEF PolicyRaises, FactoryRaises, StopOnCallFault, Finish
  <1>8. CASE SelectProviders(c)
    <2>1. pc[c] = "select" /\ attempts' = attempts
      BY <1>8 DEF SelectProviders
    <2>2. \/ pc'[c] = "done" /\ result'[c] = "exhausted"
          \/ pc'[c] = "inflight" /\ result' = result
      BY <1>8 DEF SelectProviders, Finish
    <2>3. CASE pc'[c] = "done" /\ result'[c] = "exhausted"
      BY <1>6, <2>1, <2>3
    <2>4. CASE pc'[c] = "inflight" /\ result' = result
      BY <1>1, <2>1, <2>4 DEF Verdict, CallInv, CallOK
    <2>5. QED
      BY <2>2, <2>3, <2>4
  <1>9. CASE ApplyFailure(c)
    <2>1. pc[c] = "failed" /\ attempts' = attempts
      BY <1>9 DEF ApplyFailure
    <2>2. \/ pc'[c] = "inflight" /\ result' = result
          \/ pc'[c] = "done" /\ result'[c] \in {"exhausted", "config_error", "raised"}
      BY <1>9 DEF ApplyFailure, RetryProvider, FallBack, Exhaust, Finish
    <2>3. CASE pc'[c] = "inflight" /\ result' = result
      BY <1>1, <2>1, <2>3 DEF Verdict, CallInv, CallOK
    <2>4. CASE pc'[c] = "done" /\ result'[c] \in {"exhausted", "config_error", "raised"}
      BY <1>6, <2>1, <2>4
    <2>5. QED
      BY <2>2, <2>3, <2>4
  <1>10. CASE ApplySuccess(c)
    <2>1. /\ pc[c] = "served" /\ result[c] = "none" /\ attempts' = attempts
          /\ pc'[c] = "done" /\ result'[c] = "served"
      BY <1>10 DEF ApplySuccess, Finish, CallInv, CallOK
    <2>2. Verdict(c) = "open" /\ Verdict(c)' = "served"
      BY <2>1 DEF Verdict
    <2>3. Contract!Succeeded(c)
      BY <2>1 DEF Contract!Succeeded, CallInv, CallOK, LastOutcome
    <2>4. QED
      BY <1>2, <2>1, <2>2, <2>3 DEF Contract!Next, Contract!Serve
  <1>11. CASE OpenStream(c)
    <2>1. /\ pc[c] = "inflight" /\ attempts' = attempts /\ pc'[c] = "streaming"
          /\ result' = result
      BY <1>11 DEF OpenStream
    <2>5. result[c] = "none"
      BY <2>1 DEF CallInv, CallOK
    <2>2. Verdict(c) = "open" /\ Verdict(c)' = "handed_over"
      BY <2>1, <2>5 DEF Verdict
    <2>3. ~Contract!Ended(c)
      BY <2>1, NotEnded
    <2>4. QED
      BY <1>2, <2>1, <2>2, <2>3 DEF Contract!Next, Contract!HandOver
  <1>12. QED
    BY <1>3, <1>4, <1>5, <1>7, <1>8, <1>9, <1>10, <1>11 DEF Attend

\* The router implements the caller's contract: tries and verdict of every
\* call, however the calls, close(), resets and the clock interleave.
THEOREM RouterImplementsContract == Spec => ImplementsContract
  <1>1. Init => Contract!Init
    BY DEF Init, Contract!Init, Verdict
  <1>2. TypeInv /\ CallInv /\ CallInv' /\ [Next]_vars
            => [Contract!Next]_(Contract!contractVars)
    <2> SUFFICES ASSUME TypeInv, CallInv, CallInv', [Next]_vars
                 PROVE  [Contract!Next]_(Contract!contractVars)
      OBVIOUS
    <2>1. ASSUME NEW c \in Calls, Attend(c) \/ OpenStream(c)
          PROVE  [Contract!Next]_(Contract!contractVars)
      BY <2>1, ContractStep
    <2>2. CASE Environment \/ UNCHANGED vars
      <3>1. UNCHANGED callVars
        BY <2>2 DEF Environment, CloseRouter, ResetHealth, Tick, vars
      <3>2. QED
        BY <3>1 DEF callVars, Contract!contractVars, Verdict
    <2>3. QED
      BY <2>1, <2>2 DEF Next, Quiet
  <1>3. QED
    BY <1>1, <1>2, TypeInvariance, CallInvariance, PTL
       DEF Spec, ImplementsContract, Contract!Spec
=============================================================================
