# Formal models of llm_provider_router

TLA+ specifications of the Python library in
`src/ProviderRouter/src/llm_provider_router/` (paths below are relative to that
directory), model-checked with TLC on small instances and, where it says so,
proved with TLAPS for every value of the constants. `PROJECT.json` maps each
definition to the lines it models.

1. [The system](#1-the-system)
2. [The modules](#2-the-modules)
3. [The runs](#3-the-runs)
4. [Fairness](#4-fairness)
5. [The proofs](#5-the-proofs)
6. [Where code and documentation disagree](#6-where-code-and-documentation-disagree)
7. [What is not modelled](#7-what-is-not-modelled)
8. [Plan](#8-plan)

## 1. The system

A `ProviderRouter` sits between an application and several LLM providers. One
call of `invoke()` filters the providers, asks a policy to order the rest, and
calls them in that order until one answers. It remembers how each provider
behaved (its *health*), writes one metrics event per physical attempt to a store,
and wraps a streaming answer so that it can fall back in mid-stream.

| Component | Source | State | Operations |
|---|---|---|---|
| Router, fallback loop | `router.py:127-793` | `_health`, `_closed`, metrics flags and counter, one lock; per call the order, the position, the attempts | `invoke`, `close`, `reset_health`, `health_report` |
| `RouterStream` | `router.py:794-1143` | current stream and provider, remaining order, attempts, flags | `__next__`, `close`, restart |
| Health of a provider | `health.py` | auth bench, cooldown and trigger, failure count, warned, benched | `record_failure`, `record_success`, `cooldown_remaining` |
| Error classification | `errors.py` | none | `categorize_error` |
| Eligibility filter | `filters.py` | none | `filter_eligible_providers` |
| Same-provider retry | `retry.py` | none | `should_retry` |
| Policies | `policies/` | a rotation counter; a sticky list | `order` |
| Adapters | `adapters/` | cached SDK client and its key; per stream two flags and the usage | `invoke`, stream iteration |
| File stores | `storage/{sqlite,duckdb}.py` | one kept connection, its open transaction | `record_attempt`, queries, `close` |
| PostgreSQL store | `storage/postgres.py` | `_pool_instance`, `_schema_validated` | `record_attempts`, queries, `inspect_schema`, `close` |
| Schema | `storage/schema.py` | none | classification of a catalog |
| Store administration | `storage/admin.py`, `cli.py` | files, their names and locks; a remote catalog | create, inspect, migrate, backup |
| Scores, statistics | `scoring.py`, `stats.py`, `storage/score_aggregation.py` | none | arithmetic over events |
| Configuration, events | `config.py`, `metrics.py`, `types.py` | none | validation |

**How they interact.** Every thread calls the same router. One non-reentrant lock
protects health, the rotation counter, the metrics state and the store's write;
no lock is held while an adapter is called. A stream is driven by its consumer
after `invoke()` has returned, and goes back to the router's lock for its metrics
and health. The adapters are shared by all threads and have no lock at all.
Several processes may point their stores at one metrics file and run the
administration commands on it; they share nothing but the file system and the
locks of the database engine. A PostgreSQL store has no lock of its own: the
router serializes the calls it makes, other users of the store need not. A
score-based policy reads its figures from the store inside the router's lock.
Callbacks into user code are: a custom policy and a custom retry policy, a custom
adapter factory, `on_restart`, the clock.

**What is hard.**

- *Interleaving.* A failure is two critical sections (metrics, then health), a
  success likewise, and entering `invoke()` is two as well (closed check, then
  selection). Other calls, `close()`, resets and the clock run in between. A
  provider can be benched while calls to it are in flight, and a late success or
  a late failure then meets a state it was not decided on.
- *Partial failure.* A metrics write fails, a stream dies after some chunks, the
  next one fails to open, `on_restart` raises.
- *Termination.* The fallback loop, the retry cycle within it and the restart
  loop are bounded only by what they consume.
- *Staleness.* The order is fixed when a call starts; the client cache is tested
  and replaced without a lock. A file is looked for, inspected and opened by name,
  one after the other, and other processes create, take back and migrate it in
  between. The PostgreSQL store notes that the schema is valid after it validated.
- *Crashes.* A process may die in the middle of a commit or of a creation.
- *Lost answers.* A connection may be lost around a commit.

**What makes each component correct.**

| Component | It is correct when |
|---|---|
| Fallback loop | a fault of the call ends it and benches nobody; "exhausted" is true; every call returns; retries are bounded; no connection survives `close()` |
| Health | its fields agree under any interleaving; no failure is forgotten; only a reset lifts an auth bench; a bench is never shortened |
| Metrics | one event per attempt; a lost one is counted and announced |
| `RouterStream` | no truncated answer passes for a served one; restarts only move forward; no connection leaks; a consumer reaches the end |
| Adapters | a corrected key takes effect; clients are reused; stream flags mean what the router takes them to mean |
| Policies, scores | everybody gets a turn; equals keep the order of the rotation; a failure never pays; SQL and Python compute the same figures |
| File stores | what was acknowledged stays; rows go only where the schema was accepted; what was refused is not there |
| PostgreSQL store | batches are atomic and durable once acknowledged; one pool; no rows over an unvalidated schema |
| Administration | nobody finds a half-made database; a creation replaces nothing; a migration goes ahead only with a faithful backup |

The full list of hazards, each with its line and the properties that cover it, is
in `PROJECT.json`.

## 2. The modules

```
ErrorCategory <- ProviderHealth <- RouterInvoke <- RouterStream <- MCRouterStream
      ^                             |    ^    ^
      |                     INSTANCE|    |    +- MCRouterInvoke
      +------ FallbackContract <----+    +- RouterInvoke_proofs <- RouterStream_proofs

Lists <- RouterInvoke, Ranking      Lists_proofs <- RouterInvoke_proofs, Ranking_proofs

NormalizedStream <-INSTANCE- Adapter <- MCAdapter, Adapter_proofs

StorageSchema <- LocalStorage  <- LocalStorage_proofs
      ^
      +------- PostgresStore <- PostgresStore_proofs
                      +-INSTANCE-> MetricsLog

LocalStorage, PostgresStore, Ranking, Adapter <- MCComponents
Ranking <- Ranking_proofs
```

An arrow points at the module that is extended or instantiated.

**ErrorCategory** (`errors.py`, with the category sets of `router.py`, `health.py`
and `retry.py`). An exception is a record of its kind and, where the class carries
one, an HTTP status or a Responses error code. `CategorizeError` is the whole
classification; the sets `StopCategories`, `NoRetryCategories`,
`CountedCategories` and `RetryableCategories` are the tables other modules decide
by.

**ProviderHealth** (`health.py`). Pure operators on one provider's record.
`RecordFailure` keeps the category in place of the error's text; a provider
without an entry in `_health` is `Fresh`, because no operation tells them apart.

**Lists**. The two loops that several parts share, as recursive functions of the
number of elements read, which is the form the proofs can reason about: `Kept` is
the comprehension that keeps the members of a set in their order (the eligibility
filter, the sticky prefix and what it leaves), `Summed` the conditional SQL sum.

**RouterInvoke** (`router.py`, `filters.py`, `retry.py`, `policies/`). Each
element of `Calls` is one execution of `invoke()`; its local variables are
functions of the call. One action is one critical section of the lock together
with the local code around it:

| Actions | Code |
|---|---|
| `EnterInvoke`, `RefuseClosed`, `RejectVariants` | closed check; validation of the call |
| `SelectProviders`, `NoneEligible`, `PolicyRaises` | filter and policy, under the lock |
| `ProviderFails`, `ProviderServes`, `OpenStream`, `FactoryRaises` | the adapter or factory answers; attempt listed, metrics written under the lock |
| `StopOnCallFault`, `ApplyFailure`, `ApplySuccess` | health under the lock, then retry, fallback, exhaustion or return |
| `CloseRouter`, `ResetHealth`, `Tick` | the application and the clock |

`pc` values name the gaps between critical sections: `select` (closed check
passed), `inflight` (adapter running), `failed` and `served` (metrics written,
health not yet). `ledger` is a history variable: per call, the metrics events with
their fate, so that the store's rows and `_dropped_metrics_events` are both read
off it. A score-based order is any permutation of the eligible providers, a custom
order any sequence of them, a custom retry policy any answer, its exception and a
non-boolean answer (`config_error`) included.

**FallbackContract** is what a caller relies on: a call tries providers one after
the other, a success or a fault of the call is its last try, and the verdict
agrees with the tries. It knows no locks, health, policies or metrics.
`RouterInvoke` refines it with `tried <- attempts`; `RouterStream` does so over the
whole life of a stream.

**RouterStream** extends RouterInvoke: `HandOver` is `OpenStream` plus the
construction of the wrapper, and the consumer's steps (`NextChunk`, `NextEnds`,
`NextDies`, `RestartOpens`, `RestartFails`, `RestartExhausts`, `CallbackRaises`,
`CloseServed`, `Abandon`, and the health sections) interleave with all other calls.
`live` is a history variable of the provider connections that are open.

**NormalizedStream** (`adapters/base.py`) is the contract between an adapter's
stream and the router: the two flags only rise, only while the stream is open, and
a completion marker is never seen in a shape that was not recognised.
`RouterStream!NextChunk` consumes streams that behave so; **Adapter** provides
them.

**Adapter** (`adapters/openai_compatible.py`, `adapters/openai_responses.py`,
`ProviderConfig.resolve_api_key`). `_client_for` takes no lock, so each access to
`_client` and `_client_api_key` is an action: `Resolve`, `Check`, `Build`, `Mark`,
`Fetch`. A client is known by the key it was built with, keys by the order in
which they were issued. `builds` is a history variable: how many clients were built
with each key. The threads are `Callers`. `Protocol` chooses the wrapper; `RotateAnytime` says
whether a key may change while a call picks its client.

**StorageSchema** (`storage/schema.py`). A catalog is what a backend reads from a
database: table names, columns, version rows, index definitions. `Inspect` is the
whole classification (missing, current, older, newer, implicit version 1,
unknown), with the type names of each engine; `Current` is what
`validate_runtime_schema` accepts. Four columns stand for the thirteen of
`provider_attempts`; between them they have every type, a key, required columns
and a nullable one.

**LocalStorage** (`storage/sqlite.py`, `storage/duckdb.py`, and the local half of
`storage/admin.py`). A process is a store (its lock makes its threads one actor)
or an administration command. Files are numbered as they appear and keep their
number when they lose their name, since an open connection survives that; `target`
and `backup` are the two names that matter, `draft` a process's private temporary
file.

| Actions | Code |
|---|---|
| `StoreCalls`, `StoreInspects`, `StoreOpens` | `_connect`: does the path exist, inspect it read-only, open it by name |
| `StoreInserts`, `StoreInsertTimesOut`, `StoreCommits`, `StoreCommitFails`; `StoreInsertsAndCommits` | `record_attempt` of SQLite (two statements) and of DuckDB |
| `StoreReads`, `StoreStatementFails`, `StoreCloses` | queries, failing statements, `close` |
| `CreateLooks`, `CreateBuilds`, `CreateAborts`, `CreateLinks`, `CreateBeaten`, `CreateValidates`, `CreateWithdraws` | `create_database`: inspect, build a private file, `os.link`, inspect again or unlink |
| `AdminAssesses`, `AdminSigns`, `AdminCopies`, `AdminCannotCopy`, `AdminCopied`, `AdminPublishes`, `AdminRejectsCopy`, `AdminUnlinks`, `AdminLocks`, `AdminCannotLock`, `AdminMigrates`, `AdminFinishes` | `migrate_database` with and without a backup |
| `Crash` | a process is killed; a SQLite commit under way is durable, undone, or a hot journal |

The engines are external: SQLite's lock states with a rollback journal (a
pending writer lets no new reader in; a read-only connection cannot roll back a
hot journal, a writable one does with its first statement) and DuckDB's exclusive
writer. Python's `sqlite3` opens a transaction before an INSERT and leaves it open
when the INSERT raises: such a connection is "deferred", without a lock, until its
next query gives it one it keeps. A wait for a lock is an action that is not enabled; giving up is one that is
enabled whenever the lock is not free.

**PostgresStore** (`storage/postgres.py`, `create_postgres_database`). Every
unlocked read or write of `_pool_instance` and `_schema_validated` is an action:
`PgLooksForPool`, `PgBuilds`, `PgFetches`, `PgReadsFlag`, `PgValidates`, `PgMarks`,
`PgChecksOut`, and for `close` `PgCloses`, `PgUnsetsPool`, `PgUnsetsFlag`,
`PgShutsPool`. A batch sends its chunks one by one (`PgInserts`) and commits at the
end (`PgCommits`, `PgCommitLost`). `usage`, chosen at the start and fixed, says how
the store is used: "serial" is one call or close at a time, as from one router;
in "orderly" use calls of several threads or routers overlap, but not with a close;
"free" use has a close in the middle of calls as well. `checked`, a history variable,
has the pools over which the schema was found current since the last close. The
server, the pools and the operators who upgrade the schema are external.

**MetricsLog** is what a caller may expect of a store: the rows of one call land
together or not at all, a call that returned has landed, a call that raised may
have, and what landed stays. `PostgresStore` refines it with `log <- table`.

**Ranking** (`policies/`, `scoring.py`, `stats.py`, `storage/score_aggregation.py`
and the aggregate queries). An event keeps what the query tells apart: provider,
partition, outcome, age in half-lives. `ScoreAggregate` is the SQL,
`AggregateStats` the accumulation in Python. Numbers are exact: weights are integer
multiples of the smallest one and qualities are fractions, compared by
cross-multiplication. `Orders` is one call of `order` for any set of eligible
providers, with a store that answers or fails.

**MCComponents** puts the four components beside the router (the metrics file, the
PostgreSQL store, the ranking, an adapter) into one specification: they share no
variable, so a step of one says nothing about another, and `part`, chosen at the
start, tells which of them runs while the others rest. (Running them together would
multiply the state spaces without adding a behaviour.)

The operators under a comment "Mutated form" are plausible errors in the operator
below them. No specification uses them; substituting one for the original must
make the named property fail, which shows that the property can.

## 3. The runs

All state counts are distinct states.

| Run | Instance | States | What it shows |
|---|---|---|---|
| `shared` | 2 calls, 2 providers, round robin, custom retry policy, ceiling 2, threshold 2, `close()` | 303 k | `TypeOK`; health is touched only with evidence (`BlameNeedsEvidence`); "exhausted" is true; a closed router holds no connection; a provider that refused is not called again |
| `threshold` | 2 fair calls, 1 provider, built-in retry, threshold 2, cooldowns 2, clock to 3, 1 reset, failing store | 259 k | health consistent; lost rows announced; auth benches end by reset only; failures forgiven as a whole; benches never shortened; every call returns |
| `retry` | 1 call, 2 providers, custom orders up to length 3, ceiling 3, raising factory, streams | 358 k | `AttemptsBounded`; the caller's contract |
| `lifecycle` | 1 call, 3 providers in any order, both stream failure policies, 2 chunks, fair | 54 k | `StreamTypeOK`; one event per attempt; every attempt accounted for; no leaked connection; no silent truncation; restarts move forward; the contract over the stream's life; every stream ends |
| `stream_shared` | 2 calls that may both stream, 2 providers, `on_restart` may raise | 2.4 M | health stays consistent; opening a stream forgives nothing |
| `components` | see below | 650 k | file stores: types and locks, `RowsSurvive`, `RowsOnlyInCurrent`, `TargetWhole`, `BackupFaithful`; PostgreSQL: one pool, no rows before the schema was checked, `ImplementsMetricsLog`; policies: `AggregatesAgree`, `RotationFair`, `OrderSound`, `FailureNeverPays`; adapter: a corrected key takes effect, clients are reused, the stream contract is implemented |
| `kept_lock` | 2 SQLite stores, 1 command, 2 rows | | *violation*, see section 6 |
| `late_success` | 2 calls, 1 provider | | *violation*, see section 6 |
| `reopened` | 2 calls, score-based policy | | *violation*, see section 6 |
| `callback` | 1 stream, raising `on_restart` | | *violation*, see section 6 |
| `rotated_key` | 2 threads, a key corrected at any point | | *violation*, see section 6 |
| `duplicate_client` | 2 threads, one key | | *violation*, see section 6 |

**Why these bounds.**

- Two calls are what an interleaving hazard needs: one in flight, one that
  changes what the first was decided on.
- A threshold of 2 separates a counted failure from a bench and lets the two
  calls contribute one failure each. In `retry` it is above the number of
  attempts, so that a bench does not hide the retry cycle.
- Two providers make a fallback, three a restart after a failed restart. A custom
  order of length 3 over two providers contains every repetition that matters for
  `retry_cycles_seen`: adjacent, separated and total.
- A cooldown of 2 under a clock that reaches 3 lets a bench be extended while it
  lasts and lapse. Round robin orders all eligible providers, so the second call
  of `shared` starts from the rotation the first left.
- Two chunks tell "recognised, then completed" from both at once; one is enough
  where only health is at issue.

Of `components`:

- *Local part:* two stores, one command, two rows, both engines, five initial states
  of the path, two files, one fault (a kill, an interrupt or a failing unlink).
  Two stores are one that is in the middle of something and one that writes, reads
  or creates; the command adds a third party that locks. Two files let a creation
  meet another one, and a backup meet its source; with the disk full every later
  creation fails. The same part was also checked with three files, which gives
  928 k states of that part and nothing new; the theorems of section 5 hold for any number.
- *PostgreSQL part:* two threads, a batch of two statements and one of one, two
  pools (the second is the one a race or a reconnect builds), one fault of the
  server, one creator, the operators' upgrade at any point, in all three usages.
- *Ranking part:* three configured providers, of which two have a history of up to
  two events with seven outcomes and partitions, a window of one half-life, and
  five policies: round robin, a sticky provider before it, and scores that are
  flat or decaying, of one scope or of all, with one weight at 0. Three steps of
  recording and ordering (restarts and aging not counted) are enough for two
  providers to swap ranks and for a rotation to go past its end; two events are
  enough for a tie, a reversal and an event that leaves the window.

- *Adapter part:* two threads with two calls each and two keys, which are one
  rotation: both threads may build a client with the first key and reuse or replace
  it with the second. With three calls each the part has 85 k states instead of
  30 k and shows nothing new.

`Stores` double as `Threads` and as `Callers`, and the run is symmetric in stores and in rows: all
its properties are invariants, action properties or the refinement, none is
liveness.

The errors of an instance are one representative per rule the code
distinguishes (auth, rate limit, counted and retryable, counted only, fault of the
call). `Tick`, `ResetHealth` and the adapters' counters are bounded by `MaxTime`,
`MaxResets`, `MaxKey`, `MaxCalls` and `MaxStreamEvents`; a stream's chunks by
`MaxChunks`; a custom order by `MaxOrder`. The storage side is
bounded by `MaxFiles`, `MaxFaults`, `MaxPools`, `MaxServerFaults`, `MaxAge`,
`MaxEvents` and `MaxSteps`. Symmetry over calls, threads, stores or rows is used
only in runs without liveness properties. Deadlock is checked in every run: `Quiet`
and `Rest` are the only stuttering actions, and they need every call to be over.
The storage side needs none, since a store may always be asked for a query.

## 4. Fairness

`Fairness` gives every call weak fairness of its own steps: its thread is scheduled
again and again, and a provider call returns or raises because the SDK clients are
built with a timeout (`adapters/openai_compatible.py:114`). Nothing is assumed of
`close()`, `reset_health()` or the clock, nor which outcome a provider chooses.

`StreamFairness` adds the consumer's loop: `EveryStreamEnds` is about a consumer
that keeps calling `next()`. Closing a stream is not fair, so termination does not
rest on it. A provider's stream is finite here (`MaxChunks`); an endless one never
ends in the code either.

The storage side states no fairness and no liveness. A store keeps its connection
for as long as its owner likes, nothing in the code makes it close one, and a
backup of a SQLite file waits for a locked source without any limit: "the command
ends" is false without an assumption that the code does not justify.

## 5. The proofs

The proof modules quantify over all values of the constants; they use only the
assumptions named in the modules (`HealthConfigAssumption`: durations and
threshold positive; `RouterAssumption`; `RankingAssumption`; `AdapterAssumption`, `LocalAssumption` and
`PostgresAssumption`, of which the finiteness of `Threads` and `Rows` is needed
because their members are counted), and the hypotheses stated in a theorem.

**RouterInvoke_proofs**

| Theorem | States |
|---|---|
| `TypeCorrect` | `Spec => []TypeOK` |
| `HealthIsConsistent` | `Spec => []HealthConsistent` |
| `AuthBenchStays` | `Spec => AuthBenchOnlyReset` |
| `ForgivenWholly` | `Spec => FailuresOnlyForgiven` |
| `BenchNeverShortened` | `Spec => CooldownNeverShortened` |
| `ClosedStaysDisconnected` | `Spec => []ClosedHoldsNoConnection`, if the policy does not query the store |
| `LossesAnnounced` | `Spec => []StorageTroubleReported` |
| `ExhaustionIsReal` | `Spec => []ExhaustedMeansTriedAll` |
| `BlameIsDeserved` | `Spec => []BlameNeedsEvidence` |
| `RefusalsAreRespected` | `Spec => []RefusalRespected` |
| `AttemptsAreBounded` | `Spec => []AttemptsBounded` |
| `RouterImplementsContract` | `Spec => ImplementsContract` |

`TypeOK` is not inductive: the type of the next event needs the current provider
to exist, so `TypeInv` adds `LoopInv` (a call in the loop has a valid position, a
failed one has an attempt). Health is handled by `HealthStep`: every step leaves a
provider's record alone, resets it, or applies `FailHealth` or `RecordSuccess`;
with the lemmas that these two operators preserve types and consistency,
`HealthIsConsistent`, `AuthBenchStays` and `ForgivenWholly` are short. A bench is
not shortened because no deadline lies further than one cooldown ahead
(`DeadlinesNear`), which is inductive as long as the clock does not run backwards.
The verdicts rest on `CallInv`, which relates a call's place to the attempts it has
listed (while a call loops no attempt succeeded; everything before the current
position was tried; a call that goes on did not fail by its own fault).
`BlameIsDeserved` adds that attempts are never unlisted (`EvidenceStays`) and that a
failure about to be charged is itself evidence (`ChargeHasEvidence`). `StoreInv`
adds to the announced losses that an event dropped as late means a closed router.
`BoundInv` bounds the attempts at every position: one for each entry of the order
passed so far, and the further tries of one retry cycle for each different
provider among them. `RefusalInv` says that whoever was tried stands at or before
the current position, so an order that names no provider twice never comes back to
it. That the built-in policies answer with such orders is `OrdersInv`: the
configuration repeats no provider (`_reject_duplicate_provider_ids`, an assumption
on `ProviderList`), what the filter keeps of it repeats none (`EligibleOnce`), a
rotation keeps elements apart (`RotationKeeps`), and a list with the members and
the length of a list without repetitions has none either (`SameLengthInjective`, by
counting). A custom policy may repeat providers; the two properties do not speak of
it. The refinement
maps each step to a step of the contract or a stutter in `ContractStep`, using
`CallInv` for the contract's guards.

`ClosedStaysDisconnected` needs its hypothesis: the run `reopened` refutes it for
the score-based policy.

**RouterStream_proofs**

| Theorem | States |
|---|---|
| `StreamTypeCorrect` | `StreamSpec => []StreamTypeOK` |
| `OpeningIsNoSuccess` | `StreamSpec => OpeningForgivesNothing` |
| `StreamImplementsContract` | `StreamSpec => ImplementsStreamContract` |
| `OneEventPerAttempt` | `AttemptRecordedOnce`, if callbacks do not raise |
| `EveryAttemptAccounted` | `AttemptsAccounted`, if callbacks do not raise |
| `NoConnectionLeaks` | `NoStreamLeaked`, if callbacks do not raise |
| `NoSilentTruncation` | `ServedMeansFinished`, if callbacks do not raise |
| `RestartsOnlyForward` | `StreamSpec => []RestartsMoveForward` |

A step of a stream is either a step of `RouterInvoke` that leaves the streams alone,
for which the lemmas of `RouterInvoke_proofs` are reused, or a step of a consumer.
`StreamTypeInv` adds that a stream being consumed has a provider. `VerdictInv` says
of each place what the last attempt is, from which the contract's guards follow.
`AccountInv` numbers the attempts: while a stream is open it is the next one to be
listed, every earlier one is in the ledger under its number exactly once, and only
the open one holds a connection. The hypothesis `CallbackMayRaise = FALSE` is
needed (`callback`). `ForwardInv` says that what remains of an order is distinct and
disjoint from what was tried; that the order was distinct to begin with is
`OrdersInv` again, which no step of a stream can disturb (`StreamKeepsOrder`).

**Adapter_proofs**

| Theorem | States |
|---|---|
| `AdapterTypeCorrect` | `AdapterSpec => []AdapterTypeOK` |
| `CorrectedKeyIsUsed` | `AdapterSpec => []KeyTakesEffect` |
| `ClientsAreReused` | `AdapterSpec => []ClientsReused` |
| `WrappersImplementContract` | `AdapterSpec => ImplementsNormalizedStream` |

`KeyInv` is the inductive invariant: while no key changes under a call that picks
its client, all picking calls hold the key in force, a call past its rebuild finds
the client built with it, and a client filed under the key in force was built with
it. The hypothesis on the key is needed (`rotated_key`). `ReuseInv` counts: the
clients built with the key in force and the threads about to build one are together
no more than the threads; until one of those clients is filed, each is in the hands
of a thread about to file it, and afterwards no call starts to build another. The
bound is the number of threads and not one, because threads that meet before the
first client is filed build one each (`duplicate_client`).

**PostgresStore_proofs**

| Theorem | States |
|---|---|
| `PgTypeCorrect` | `PgSpec => []PgTypeOK` |
| `OnePool` | `PgSpec => []OnePoolAtATime` |
| `CheckedBeforeRows` | `PgSpec => []RowsNeedCheckedSchema` |
| `PgImplementsLog` | `PgSpec => ImplementsMetricsLog` |

`PgInv` adds to the types what each place says of the call and its pool (`Placed`),
that an open call has not been answered and no batch is in two calls
(`Unanswered`, which the refinement needs). For orderly use it says that a close is
alone (`CloseAlone`), and that behind a set flag, and behind every call that has
passed the flag, there is a validation since the last close, unless a close is about
to clear the flag (`SomeCheck`). For serialized use it adds that there is one call
(`OneCall`), that its pool is the store's open pool (`SerialPool`), and that the flag
speaks of that pool unless a close is about to clear it (`SerialFlag`).

**LocalStorage_proofs**

| Theorem | States |
|---|---|
| `LocalTypeCorrect` | `LocalSpec => []LocalTypeOK` |
| `RowsOnlyWhereAccepted` | `LocalSpec => []RowsOnlyInCurrent` |
| `StoredRowsSurvive` | `LocalSpec => []RowsSurvive` |
| `TargetIsWhole` | `LocalSpec => []TargetWhole` |
| `BackupIsFaithful` | `LocalSpec => BackupFaithful` |

Three invariants build on each other. `LocalInv` has the types, what each place
means for a process's connection and lock (`PlaceOK`), and that two processes never
have open transactions on one file. `FileInv` has the contents (`MetOK`): a process
is connected only to the target or to a file that was taken back; one that passed
its inspection can only open a current file or an empty one it creates by opening,
on which every statement fails; a row is pending only on a current file. `BackupInv`
says that a draft belongs to one process, that a backup is nobody's target, and
that a copied or published backup has a subset of the target's rows, as many as the
signature counted. Equality of the count under the exclusive lock then gives
equality of the rows; this is why the comparison by a count is enough, and why the
theorem is about migrations without a withdrawn file: a count cannot tell two files
apart. `Grown` (files are only appended, catalogs stay, rows are only added) and
`OthersKeep` (a step changes what its own process holds) are the two frame lemmas
all of this rests on.

**Ranking_proofs**

| Theorem | States |
|---|---|
| `RankingTypes` | `RankingSpec => []RankingTypeInv` |
| `RotationIsAlwaysFair` | `RankingSpec => []RotationFair` |
| `AggregatesAlwaysAgree` | `RankingSpec => []AggregatesAgree` |
| `OrderIsSound` | `RankingSpec => OrderSound` |
| `FailureNeverPaysAlways` | `RankingSpec => FailureNeverPays` |

`RankingAssumption` has what the constructors check: no duplicate provider, sticky
IDs among the configured ones and no duplicate, weights that are not both zero, a
positive reference latency and number of pretended attempts.

- *Rotation.* `RotationFair` is not inductive, since it does not mention the
  counter. `RotationInv` does: the leaders since the eligible providers last changed
  are consecutive elements of the remainder, and the counter points behind the
  latest. Numbers less than n apart leave different remainders (`RemaindersDiffer`)
  and the remainder repeats no provider, so neighbours less than a round apart
  differ.
- *Aggregates.* By induction on the number of events read, the accumulator of
  `stats.py` holds the seven sums of the query over those events (`StatsAreSums`).
  The step compares two ways of counting one event: the chain of branches of
  `_Accumulator.add` (`AccumulateAdds`) and the conditions of seven `CASE`
  expressions (`SumsUpToAdds`), through the common form `Added`.
- *Order.* `Precedes`, a higher score or an equal one and an earlier turn, is a
  strict total order on the places of a list, because cross-multiplied fractions
  with positive denominators are ordered (`HigherTransitive`). So the number of
  predecessors is a different one for each element, and `BestFirst` puts exactly one
  at each place (`PlaceTaken`). `CallOrder` puts the sticky prefix before it, which
  shares no provider with the remainder and has the fixed order (`KeptOrder`).
- *Failures.* A failure adds weight to the attempts of its provider and to no figure
  of success (`FailureCounts`), for which the sums must be those of the same rows
  before and after one was appended (`SummedAppend`); more attempts with the same
  successes lower a score or leave it (`MoreAttempts`, `LowerWithMore`). That the
  query answers a row that `validate_score_aggregates` accepts, so that `Ranked`
  never falls back for an honest store, is `AggregateValid`.

**Lists_proofs** has the lemmas on `Kept`, `Summed`, rotations, concatenations and
lists without repetitions. Induction is not taken from the library's theorems,
whose operator parameters the provers do not instantiate, but from the least number
principle stated for sets (`NatLessThanWellFounded`, `WFMin`): `Induction` proves
that a set of numbers that has 0 and is closed under successors up to N has them
all, and `RecursionExists` that a recursion has a function satisfying it.

**A note on the prover.** The SMT encoding of tlapm 1.4.5 has the axiom that a
`DOMAIN s` equal to `1..n` gives `Len(s) = n` for any `s`, sequence or not, which is
more than TLA+ says. All proofs were also run with that axiom restricted to sequences,
and none depends on the difference; `FunctionIsList` and `AppendType` are where a
function has to be shown to be a sequence first.

**Only model-checked.** Liveness (`EveryInvokeReturns`, `EveryStreamEnds`), which
the prover does not reach, and the runs that end in a violation. Every other
property of a passing run is stated by a theorem.

## 6. Where code and documentation disagree

- **A late success hides an auth bench** (`late_success`). `health.py:146-148` says
  that a benched provider cannot reach `record_success`. A call in flight when
  another one benches the provider does: it clears `benched` and `warned` and logs
  that the provider recovered, while the filter goes on excluding it. The bench
  itself stays (`AuthBenchStays`).
- **`close()` can be undone** (`reopened`). `invoke()` checks the closed flag and
  orders the providers in two critical sections. If `close()` runs between them,
  the score-based policy queries the owned store and opens a connection nobody
  closes, against `router.py:226-228`.
- **A raising `on_restart` leaves the dead stream current** (`callback`). The
  callback runs before the new stream is stored. Iterating on judges the dead
  stream a second time and records the attempt again, against
  `router.py:1107-1108`; the connection of the new stream is lost too
  (`NoStreamLeaked` fails in the same instance).
- **A corrected key can be lost** (`rotated_key`). If the key changes while two
  threads rebuild the client, the client built with the old key can stay cached
  under the new one, against `adapters/openai_compatible.py:105-107`.
- **A refused attempt is recorded later, and a lock is kept** (`kept_lock`).
  `record_attempt` of the SQLite store executes and commits
  (`storage/sqlite.py:62-67`) and rolls nothing back when the commit raises
  "database is locked". The transaction stays open on the kept connection: its row
  is committed together with the next one, although the router counted it as
  dropped and later reports "recovered after %d unrecorded attempt(s)"
  (`router.py:666-667`). Until then the idle store keeps out every other process,
  which several processes sharing one SQLite database will notice. The same omission
  leaves a transaction open, without a row, when the INSERT itself raises.
- **One provider, several clients** (`duplicate_client`). `src/ProviderRouter/README.md`
  (lines 216-220) promises one SDK client per provider, rebuilt only when the key
  changes, and so does `adapters/openai_compatible.py:103`. `_client_for` checks,
  builds and stores without a lock, so threads that make their first calls together
  build one each under one key, and the one stored last replaces the others, with
  their connections. What does hold is `ClientsReused`: no more clients
  for a key than there are threads.
- **The schema is validated more than once per instance.** The same README says in
  lines 1010-1011 that the PostgreSQL store validates "once per instance, on its first
  connection". `close()` clears the flag (`storage/postgres.py:281`), so an instance
  that is used again validates again, over its new pool; and first uses that race
  each find the flag unset and validate once each. `RowsNeedCheckedSchema` states
  what the code does, a check since the last close, and the run `components` shows it.

Observations that contradict no statement of the repository, made while modelling:

- After a process was killed in the middle of a commit, the read-only inspection
  cannot roll the journal back, so every store refuses the database until some
  writable connection has used it.
- The backup of a SQLite file waits without limit for a source that an idle store
  keeps locked.
- A creator that fails after it published a database takes the name away, even if
  another store has opened that database by then; that store goes on writing into a
  file nobody can find. `RowsSurvive` and `BackupFaithful` name this exception
  (`withdrawn`).
- First uses of a PostgreSQL store that race build one pool each, and only the last
  is kept; the others are never closed by the store. `OnePoolAtATime` is therefore
  about serialized use.
- A `close` of that store in the middle of a call may take the pool from it, and the
  call fails. A `close` between a validation and its mark leaves the mark to the next
  pool, which then sends rows unvalidated. `RowsNeedCheckedSchema` therefore speaks
  of uses with which no close overlaps; under any use batches stay atomic and
  acknowledged ones are stored (`ImplementsMetricsLog`).
- Two idle SQLite stores can shut each other out for good. A failed commit leaves one
  of them with an uncommitted row, a failed INSERT leaves the other with an open
  transaction, in which its next query takes a read lock that stays. Neither can
  record again before the other is closed, and nothing in the code closes it.

## 7. What is not modelled

- `metrics_store=None`: `RouterInvoke` always has a store. What a metrics event
  holds beyond attempt, provider and outcome is left out there, because the router
  decides nothing by it; `Ranking` has what the scores read.
- A custom policy that returns providers which are not eligible or not
  configured.
- A failing `clock`, a store whose `close()` fails, and callbacks that call back
  into the router under its lock (the lock is not reentrant; they wait forever).
- Wording and content of logs, reports and exceptions; `health_report`, which
  changes no state.
- Migration steps: none is registered, so a route is empty and `AdminMigrates` only
  compares signatures. SQLite's WAL mode, which the stores do not ask for.
- Of the stores, the decoding of rows and the wording of SQL; of PostgreSQL, URLs,
  TLS options and the diagnostics of poolers. Of the schema, the parsing of index
  definitions: an index is its required definition or something else.
- Rounding: scores are exact fractions, weights powers of one half.
- Validation of configuration objects and of events, which has no state; what the
  models need of it are the assumptions on the constants. The command line
  interface (argument parsing and printing around the commands of `LocalStorage`
  and `PostgresStore`), workflow tests and benchmarks.
- In `Adapter`, the mapping of SDK exceptions to router errors: every class it can
  produce is a possible member of `Errors`. A key is never restored to an older
  value.

## 8. Plan

What is left, in the order of importance:

1. A composition of `RouterInvoke` with `LocalStorage`: `connected` and the fate of
   an event as abstractions of the store's connection and answer.
2. `_record_metrics` and `reset_health` with callbacks that reenter the router, as a
   deadlock run.
3. Migration steps as soon as one is registered: the transaction around them and
   the signature after it.
