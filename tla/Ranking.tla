------------------------------- MODULE Ranking -------------------------------
(***************************************************************************)
(* policies/round_robin.py, policies/sticky.py and policies/score_based.py *)
(* with what the last one computes: the aggregate query of the stores      *)
(* (sqlite.py, duckdb.py, postgres.py), storage/score_aggregation.py,      *)
(* scoring.py, and stats.py, which computes the same figures from the raw  *)
(* events.                                                                 *)
(*                                                                         *)
(* An event keeps what the query tells apart: whose attempt it was, which  *)
(* partition it belongs to, how it ended and how many half-lives ago.      *)
(* Numbers are exact: a weight is an integer number of Units, a quality is *)
(* a fraction, and fractions are compared by cross-multiplication.         *)
(***************************************************************************)
EXTENDS Integers, SequencesExt, Lists

CONSTANTS
    Configured,         \* the providers of the router, in configured order
    Recorded,           \* those of them whose attempts are recorded
    RankingPolicies,    \* the policies to consider
    Happenings,         \* what may be recorded: partition and outcome
    Reference,          \* latency_reference_ms, in the unit of Latency
    Pretend,            \* optimistic_start_pretend_attempts
    MaxAge,             \* the window of the query, in half-lives
    MaxEvents,          \* bound on the recorded events
    MaxSteps            \* bound on recorded events and ordered calls together

\* "other": of another model, protocol or type of call.
Partitions == {"same", "other_scope", "other"}
Successes == {"fast", "slow", "empty"}
Failures == {"rate_limit", "timeout", "failed"}
NoLatency == -1

\* ProviderRouter and StickyRoutingPolicy refuse duplicate IDs, and the latter
\* refuses one that is not configured; ScoreBasedPolicy checks its numbers.
ASSUME RankingAssumption ==
    /\ Configured \in Seq(ToSet(Configured)) /\ IsInjective(Configured)
    /\ Recorded \subseteq ToSet(Configured)
    /\ Happenings \subseteq Partitions \X (Successes \cup Failures)
    /\ RankingPolicies \subseteq
           [sticky : Seq(ToSet(Configured)), ranked : BOOLEAN, decay : BOOLEAN,
            scope : {"current", "all"}, weights : Nat \X Nat]
    /\ \A policy \in RankingPolicies :
           IsInjective(policy.sticky) /\ policy.weights[1] + policy.weights[2] > 0
    /\ Reference \in Nat \ {0} /\ Pretend \in Nat \ {0}
    /\ MaxAge \in Nat /\ MaxEvents \in Nat /\ MaxSteps \in Nat

\* The default weights start a provider without evidence at 3/4.
OptimisticNum == 3
OptimisticDen == 4

Latency(outcome) ==
    CASE outcome = "slow" -> 4 [] outcome = "empty" -> NoLatency [] OTHER -> 1

VARIABLES
    policy,     \* sticky IDs, whether scores rank, decay, scope and the two weights
    history,    \* the recorded events, oldest first
    index,      \* RoundRobinPolicy._index
    orders,     \* the calls ordered so far
    last        \* the last call: its eligible providers and what order returned

rankingVars == <<policy, history, index, orders, last>>

MayStep == Len(history) + orders < MaxSteps

NoCall == [eligible |-> <<>>, answered |-> FALSE, order |-> <<>>, leads |-> <<>>]

RankingInit ==
    /\ policy \in RankingPolicies
    /\ history = <<>>
    /\ index = 0
    /\ orders = 0
    /\ last = NoCall

----------------------------------------------------------------------------
\* The weight of an event: 1, or 1/2 to the power of its age in half-lives.  An
\* event that has just left the window weighs one unit.

TwoTo[n \in 0..MaxAge + 1] == IF n = 0 THEN 1 ELSE 2 * TwoTo[n - 1]

Unit == IF policy.decay THEN TwoTo[MaxAge + 1] ELSE 1
Weight(e) == IF policy.decay THEN TwoTo[MaxAge + 1 - e.age] ELSE 1

\* The join of requested providers and attempts: partition, scope and window.
Joined(e, p) ==
    /\ e.provider = p
    /\ e.partition = "same" \/ (policy.scope = "all" /\ e.partition = "other_scope")
    /\ e.age <= MaxAge

TotalWeight(rows) == Summed([i \in DOMAIN history |-> Weight(history[i])], rows)
TotalLatency(rows) ==
    Summed([i \in DOMAIN history |-> Weight(history[i]) * Latency(history[i].outcome)],
           rows)

\* Mutated form: the latency columns forget to ask for success.
ScoreAggregateOfAnyLatency(p) ==
    LET matched == {i \in DOMAIN history : Joined(history[i], p)}
        successful == {i \in matched : history[i].outcome \in Successes}
        timed == {i \in matched : Latency(history[i].outcome) # NoLatency}
        failed == matched \ successful
    IN  [attempts |-> TotalWeight(matched),
         successes |-> TotalWeight(successful),
         latencyWeight |-> TotalWeight(timed),
         latencyTotal |-> TotalLatency(timed),
         errors |-> Cardinality(failed),
         rateLimits |-> Cardinality({i \in failed : history[i].outcome = "rate_limit"}),
         timeouts |-> Cardinality({i \in failed : history[i].outcome = "timeout"})]

\* _build_score_aggregate_sql: one row of sums for a requested provider.
ScoreAggregate(p) ==
    LET matched == {i \in DOMAIN history : Joined(history[i], p)}
        successful == {i \in matched : history[i].outcome \in Successes}
        timed == {i \in successful : Latency(history[i].outcome) # NoLatency}
        failed == matched \ successful
    IN  [attempts |-> TotalWeight(matched),
         successes |-> TotalWeight(successful),
         latencyWeight |-> TotalWeight(timed),
         latencyTotal |-> TotalLatency(timed),
         errors |-> Cardinality(failed),
         rateLimits |-> Cardinality({i \in failed : history[i].outcome = "rate_limit"}),
         timeouts |-> Cardinality({i \in failed : history[i].outcome = "timeout"})]

\* validate_score_aggregates: what a store may not answer.
ValidAggregate(row) ==
    /\ row.attempts >= row.successes /\ row.successes >= row.latencyWeight
    /\ row.latencyWeight >= 0 /\ row.latencyTotal >= 0
    /\ {row.errors, row.rateLimits, row.timeouts} \subseteq Nat

----------------------------------------------------------------------------
\* stats.py: the same figures, accumulated one event after the other.

EmptyStats ==
    [attempts |-> 0, successes |-> 0, latencyWeight |-> 0, latencyTotal |-> 0,
     errors |-> 0, rateLimits |-> 0, timeouts |-> 0]

\* _Bucket.add and _Accumulator.add: a failure counts no latency, and neither
\* does a stream that completed without a chunk.
Accumulate(stats, e) ==
    LET counted == [stats EXCEPT !.attempts = @ + Weight(e)]
        succeeded == [counted EXCEPT !.successes = @ + Weight(e)]
    IN  CASE e.outcome \in Successes /\ Latency(e.outcome) = NoLatency -> succeeded
          [] e.outcome \in Successes /\ Latency(e.outcome) # NoLatency ->
                [succeeded EXCEPT !.latencyWeight = @ + Weight(e),
                                  !.latencyTotal = @ + Weight(e) * Latency(e.outcome)]
          [] e.outcome \in Failures ->
                [counted EXCEPT !.errors = @ + 1,
                    !.rateLimits = @ + (IF e.outcome = "rate_limit" THEN 1 ELSE 0),
                    !.timeouts = @ + (IF e.outcome = "timeout" THEN 1 ELSE 0)]

\* The loop of aggregate_stats over the events of a partition.
StatsUpTo(p) ==
    LET stats[n \in 0..Len(history)] ==
            IF n = 0 THEN EmptyStats
            ELSE IF Joined(history[n], p) THEN Accumulate(stats[n - 1], history[n])
            ELSE stats[n - 1]
    IN  stats

AggregateStats(p) == StatsUpTo(p)[Len(history)]

----------------------------------------------------------------------------
\* scoring.py, on provider_stats_from_score_aggregate.  A fraction is a record.

\* attempt_count * success_rate is the weight of the successes.
SuccessQuality(row) ==
    [num |-> OptimisticNum * Pretend * Unit + OptimisticDen * row.successes,
     den |-> Pretend * Unit + row.attempts]

\* reference / (reference + average) with average = total / weight; without a
\* timed success the raw quality is 0.
SpeedQuality(row) ==
    LET raw == Reference * row.latencyWeight
        all == IF row.latencyWeight = 0 THEN 1 ELSE raw + row.latencyTotal
    IN  [num |-> OptimisticNum * Pretend * Unit * all + OptimisticDen * row.successes * raw,
         den |-> (Pretend * Unit + row.successes) * all]

\* calculate_provider_score, up to the factors all scores of a policy share.
ProviderScore(row) ==
    LET success == SuccessQuality(row)
        speed == SpeedQuality(row)
    IN  [num |-> policy.weights[1] * success.num * speed.den
                 + policy.weights[2] * speed.num * success.den,
         den |-> success.den * speed.den]

Higher(a, b) == a.num * b.den > b.num * a.den

----------------------------------------------------------------------------
\* The policies.

\* RoundRobinPolicy.order
Rotated(eligible) ==
    IF eligible = <<>> THEN <<>>
    ELSE LET i == index % Len(eligible)
         IN  SubSeq(eligible, i + 1, Len(eligible)) \o SubSeq(eligible, 1, i)

Scores(list) == [i \in DOMAIN list |-> ProviderScore(ScoreAggregate(list[i]))]

\* Mutated form: sorted ascending, then reversed, which reverses the ties too.
PrecedesReversed(score, i, j) ==
    Higher(score[i], score[j]) \/ (~Higher(score[j], score[i]) /\ i > j)

\* reverse=True sorts descending and leaves equals in their order.
Precedes(score, i, j) ==
    Higher(score[i], score[j]) \/ (~Higher(score[j], score[i]) /\ i < j)

Place(score, i) == 1 + Cardinality({j \in DOMAIN score : Precedes(score, j, i)})

\* sorted(rotated, key=score, reverse=True)
BestFirst(rotated) ==
    LET score == Scores(rotated)
    IN  [k \in DOMAIN rotated |->
            rotated[CHOOSE i \in DOMAIN rotated : Place(score, i) = k]]

\* ScoreBasedPolicy.order: a store that fails, or answers with figures that
\* cannot be, leaves the rotation as it is.
Ranked(eligible, answered) ==
    LET rotated == Rotated(eligible)
    IN  IF /\ policy.ranked /\ answered
           /\ \A i \in DOMAIN rotated : ValidAggregate(ScoreAggregate(rotated[i]))
        THEN BestFirst(rotated)
        ELSE rotated

IsSticky(p) == p \in ToSet(policy.sticky)

\* StickyRoutingPolicy.order: the fixed prefix, then the fallback's order.
StickyPrefix(eligible) == Kept(policy.sticky, ToSet(eligible))
Remainder(eligible) == Kept(eligible, {p \in ToSet(eligible) : ~IsSticky(p)})

\* Mutated form: the counter is kept within the list of this call.
NextIndexWrapped(remainder) == IF remainder = <<>> THEN index ELSE (index + 1) % 2

\* The counter only moves when there was something to rotate.
NextIndex(remainder) == IF remainder = <<>> THEN index ELSE index + 1

\* One call of the router: eligible is what health and filters left of the
\* configured list; answered tells whether the store answered the query.
Orders(eligible, answered) ==
    /\ MayStep
    /\ orders' = orders + 1
    /\ LET remainder == Remainder(eligible)
           order == StickyPrefix(eligible) \o Ranked(remainder, answered)
           same == eligible = last.eligible
           leads == IF same THEN last.leads ELSE <<>>
       IN  /\ index' = NextIndex(remainder)
           /\ last' = [eligible |-> eligible, answered |-> answered, order |-> order,
                       leads |-> IF remainder = <<>> THEN <<>>
                                 ELSE Append(leads, Rotated(remainder)[1])]
    /\ UNCHANGED <<policy, history>>

\* An attempt is recorded; the history matters to a policy that ranks.
Records(e) ==
    /\ policy.ranked /\ MayStep /\ Len(history) < MaxEvents
    /\ history' = Append(history, e)
    /\ last' = NoCall
    /\ UNCHANGED <<policy, index, orders>>

\* A half-life goes by.
Ages ==
    /\ history # <<>> /\ \E i \in DOMAIN history : history[i].age <= MaxAge
    /\ history' = [i \in DOMAIN history |->
                      [history[i] EXCEPT !.age = IF @ > MaxAge THEN @ ELSE @ + 1]]
    /\ last' = NoCall
    /\ UNCHANGED <<policy, index, orders>>

\* A new process begins the rotation anew; the database remembers.
Restarts ==
    /\ orders > 0
    /\ index' = 0 /\ orders' = 0
    /\ last' = NoCall
    /\ UNCHANGED <<policy, history>>

NewEvent(p, h) == [provider |-> p, partition |-> h[1], outcome |-> h[2], age |-> 0]

RankingNext ==
    \/ \E chosen \in SUBSET ToSet(Configured) \ {{}}, answered \in {policy.ranked, FALSE} :
           Orders(Kept(Configured, chosen), answered)
    \/ \E p \in Recorded, h \in Happenings : Records(NewEvent(p, h))
    \/ Ages
    \/ Restarts

RankingSpec == RankingInit /\ [][RankingNext]_rankingVars

----------------------------------------------------------------------------
\* The figures that three backends compute by SQL are those that Python computes
\* from the events: partition, window, scope, decay and missing latencies agree.
AggregatesAgree ==
    history # <<>> =>
        \A p \in ToSet(Configured) : ScoreAggregate(p) = AggregateStats(p)

\* What a call gets is every eligible provider once: the sticky ones first, in
\* their fixed order; of the others, with an answer from the store, the better
\* scored before the worse, and equals (or all, without an answer) in the order
\* of the rotation, so that ties do not always favour the same provider.
OrderSound ==
    [][orders' = orders + 1 =>
        LET order == last'.order
            eligible == last'.eligible
            place(p) == CHOOSE i \in DOMAIN order : order[i] = p
            score(p) == ProviderScore(ScoreAggregate(p))
            rotated == Rotated(Remainder(eligible))
            turn(p) == CHOOSE i \in DOMAIN rotated : rotated[i] = p
            fixed(p) == CHOOSE i \in DOMAIN policy.sticky : policy.sticky[i] = p
            scored == policy.ranked /\ last'.answered
        IN  /\ Len(order) = Len(eligible) /\ ToSet(order) = ToSet(eligible)
            /\ \A p, q \in ToSet(eligible) :
                   place(p) < place(q) =>
                       \/ IsSticky(p) /\ ~IsSticky(q)
                       \/ IsSticky(p) /\ IsSticky(q) /\ fixed(p) < fixed(q)
                       \/ /\ ~IsSticky(p) /\ ~IsSticky(q)
                          /\ scored => ~Higher(score(q), score(p))
                          /\ turn(p) < turn(q) \/ (scored /\ Higher(score(p), score(q)))
      ]_rankingVars

\* While the same providers stay eligible, each one that is not sticky leads the
\* rotation once before any of them leads again.
RotationFair ==
    LET leads == last.leads
        n == Len(Remainder(last.eligible))
    IN  \A i, j \in DOMAIN leads : i < j /\ j - i < n => leads[i] # leads[j]

\* The score that every configured provider would get now.
Standing == [p \in ToSet(Configured) |-> ProviderScore(ScoreAggregate(p))]

\* Recording a failure never improves the standing of anybody: not by its short
\* latency, not by its weight, whatever weights the policy was given.
FailureNeverPays ==
    [][Len(history') = Len(history) + 1 /\ history'[Len(history')].outcome \in Failures =>
           \A before \in {Standing}, after \in {Standing'}, p \in ToSet(Configured) :
               ~Higher(after[p], before[p])]_rankingVars
=============================================================================
