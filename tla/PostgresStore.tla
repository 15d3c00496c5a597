---------------------------- MODULE PostgresStore ----------------------------
(***************************************************************************)
(* storage/postgres.py: one PostgresMetricsStore used by several threads,  *)
(* and create_postgres_database of storage/admin.py on the same server.    *)
(*                                                                         *)
(* The store holds no lock.  What its threads share is _pool_instance and  *)
(* _schema_validated; every read and every write of one of the two is a    *)
(* step of its own, so the calls and close interleave as they may.  A pool *)
(* is external: it lends connections until it is closed, and a connection  *)
(* that was lent before still works afterwards.  The server commits a      *)
(* transaction as a whole or not at all.                                   *)
(***************************************************************************)
EXTENDS StorageSchema, FiniteSets

CONSTANTS
    Threads,            \* threads that use the store
    Batches,            \* calls of record_attempts; record_attempt is one of a row
    Chunks,             \* the INSERT statements of each batch; 0 for an empty one
    Creators,           \* storage create --backend postgres commands
    MaxPools,           \* bound on the pools ever built: one more cannot be
    MaxServerFaults     \* bound on lost connections, timeouts and lost answers

Read == "read"              \* query_recent or query_score_aggregates
Inspection == "inspect"     \* inspect_schema
Close == "close"
NoPool == 0

ASSUME PostgresAssumption ==
    /\ Chunks \in [Batches -> Nat]
    /\ MaxPools \in Nat /\ MaxServerFaults \in Nat
    /\ Batches \cap {Read, Inspection, Close, "none"} = {}

Row(b, k) == <<b, k>>
RowsOf(b) == {Row(b, k) : k \in 1..Chunks[b]}
AllRows == UNION {RowsOf(b) : b \in Batches}

VARIABLES
    usage,          \* how far calls and close may overlap
    remote,         \* what the remote schema is
    table,          \* the rows committed in provider_attempts
    pool,           \* _pool_instance
    validated,      \* _schema_validated
    open,           \* the pools that have not been closed
    built,          \* how many pools have been built
    checked,        \* the pools over which the schema was found current since
                    \* the last close
    at,             \* where each thread is
    call,           \* the call it is in
    held,           \* the pool that call got
    txn,            \* the rows inserted in its transaction
    reply,          \* what the caller of each batch was told
    creator,        \* where each create command is
    serverFaults

callVars == <<at, call, held, txn, reply>>
poolVars == <<pool, validated, open, built, checked>>
serverVars == <<remote, table, creator, serverFaults>>
pgVars == <<usage, callVars, poolVars, serverVars>>

\* The store has no say in how it is used: one call or close at a time, as under
\* the lock of one router; calls of several threads or routers that overlap, and
\* a close when none of them is in a call; or close in the middle of calls, too.
Usages == {"serial", "orderly", "free"}
serial == usage = "serial"
orderly == usage \in {"serial", "orderly"}

\* What the remote schema may be, by name: none, ours, one of a later release,
\* which has renamed the table of the attempts, or a table of that name that
\* somebody else made.
NewerCatalog ==
    [CreatedCatalog("postgres") EXCEPT !.tables = {VersionsTable, "attempts"},
                                       !.versionRows[1].version = 3]
ForeignCatalog ==
    [CreatedCatalog("postgres") EXCEPT !.tables = {AttemptsTable}, !.versions = <<>>,
                                       !.versionRows = <<>>]
RemoteSchemas == {"none", "ours", "newer", "foreign"}
RemoteCatalog ==
    [schema \in RemoteSchemas |->
        CASE schema = "none" -> EmptyCatalog
          [] schema = "ours" -> CreatedCatalog("postgres")
          [] schema = "newer" -> NewerCatalog
          [] schema = "foreign" -> ForeignCatalog]
RemoteTables == RemoteCatalog[remote].tables

\* The schemas that inspection calls current.
Accepted == {schema \in RemoteSchemas : Current("postgres", RemoteCatalog[schema])}

PgPlaces == {"idle", "pool", "build", "fetch", "flag", "validate", "mark", "checkout",
             "work", "unset", "unflag", "shut"}

PgTypeOK ==
    /\ usage \in Usages
    /\ remote \in RemoteSchemas
    /\ table \subseteq AllRows
    /\ pool \in 0..built /\ built \in 0..MaxPools
    /\ validated \in BOOLEAN
    /\ open \subseteq 1..built /\ checked \subseteq 1..built
    /\ at \in [Threads -> PgPlaces]
    /\ call \in [Threads -> Batches \cup {Read, Inspection, Close, "none"}]
    /\ held \in [Threads -> 0..built]
    /\ txn \in [Threads -> SUBSET AllRows]
    /\ reply \in [Batches -> {"none", "open", "stored", "failed"}]
    /\ creator \in [Creators -> {"idle", "looked"}]
    /\ serverFaults \in 0..MaxServerFaults
    /\ \A t \in Threads :
           txn[t] # {} => at[t] = "work" /\ call[t] \in Batches /\ txn[t] \subseteq RowsOf(call[t])

PgInit ==
    /\ usage \in Usages
    /\ remote \in {"none", "ours", "foreign"}
    /\ table = {}
    /\ pool = NoPool /\ validated = FALSE
    /\ open = {} /\ built = 0 /\ checked = {}
    /\ at = [t \in Threads |-> "idle"]
    /\ call = [t \in Threads |-> "none"]
    /\ held = [t \in Threads |-> NoPool]
    /\ txn = [t \in Threads |-> {}]
    /\ reply = [b \in Batches |-> "none"]
    /\ creator = [c \in Creators |-> "idle"]
    /\ serverFaults = 0

Move(t, place) == at' = [at EXCEPT ![t] = place]

\* Mutated form: the connection goes back in the middle of its transaction.
EndInTransaction(t, what) ==
    /\ Move(t, "idle")
    /\ call' = [call EXCEPT ![t] = "none"]
    /\ held' = [held EXCEPT ![t] = NoPool]
    /\ UNCHANGED txn
    /\ reply' = IF call[t] \in Batches THEN [reply EXCEPT ![call[t]] = what] ELSE reply

\* The call of t ends; the connection it may have had goes back to its pool,
\* which rolls an unfinished transaction back.
End(t, what) ==
    /\ Move(t, "idle")
    /\ call' = [call EXCEPT ![t] = "none"]
    /\ held' = [held EXCEPT ![t] = NoPool]
    /\ txn' = [txn EXCEPT ![t] = {}]
    /\ reply' = IF call[t] \in Batches THEN [reply EXCEPT ![call[t]] = what] ELSE reply

ServerFault == serverFaults < MaxServerFaults /\ serverFaults' = serverFaults + 1

----------------------------------------------------------------------------
\* The calls.  A batch without rows returns before it needs a connection.

PgCalls(t) ==
    /\ at[t] = "idle"
    /\ serial => \A u \in Threads : at[u] = "idle"
    /\ orderly => \A u \in Threads : call[u] # Close
    /\ \E what \in {b \in Batches : reply[b] = "none"} \cup {Read, Inspection} :
           IF what \in Batches /\ RowsOf(what) = {}
           THEN /\ reply' = [reply EXCEPT ![what] = "stored"]
                /\ UNCHANGED <<at, call>>
           ELSE /\ call' = [call EXCEPT ![t] = what]
                /\ reply' = IF what \in Batches THEN [reply EXCEPT ![what] = "open"] ELSE reply
                /\ Move(t, "pool")
    /\ UNCHANGED <<usage, held, txn, poolVars, serverVars>>

\* Mutated form: every call builds a pool of its own.
PgAlwaysBuilds(t) ==
    /\ at[t] = "pool"
    /\ Move(t, "build")
    /\ UNCHANGED <<usage, call, held, txn, reply, poolVars, serverVars>>

\* _pool: is there one already?
PgLooksForPool(t) ==
    /\ at[t] = "pool"
    /\ Move(t, IF pool = NoPool THEN "build" ELSE "fetch")
    /\ UNCHANGED <<usage, call, held, txn, reply, poolVars, serverVars>>

\* ConnectionPool(open=True), assigned over whatever is there by now.
PgBuilds(t) ==
    /\ at[t] = "build" /\ built < MaxPools
    /\ built' = built + 1
    /\ pool' = built + 1
    /\ open' = open \cup {built + 1}
    /\ Move(t, "fetch")
    /\ UNCHANGED <<usage, call, held, txn, reply, validated, checked, serverVars>>

\* Building one raises.
PgCannotBuild(t) ==
    /\ at[t] = "build" /\ built = MaxPools
    /\ End(t, "failed")
    /\ UNCHANGED <<usage, poolVars, serverVars>>

\* _pool returns _pool_instance, read again: a close in between leaves None,
\* which fails as soon as it is used.
PgFetches(t) ==
    /\ at[t] = "fetch"
    /\ IF pool = NoPool
       THEN End(t, "failed")
       ELSE held' = [held EXCEPT ![t] = pool] /\ Move(t, "flag") /\ UNCHANGED <<call, txn, reply>>
    /\ UNCHANGED <<usage, poolVars, serverVars>>

\* Mutated form: the flag is set before the catalog has been read.
PgMarksTooEarly(t) ==
    /\ at[t] = "flag"
    /\ IF validated \/ call[t] = Inspection
       THEN Move(t, "checkout") /\ UNCHANGED validated
       ELSE Move(t, "validate") /\ validated' = TRUE
    /\ UNCHANGED <<usage, call, held, txn, reply, pool, open, built, checked, serverVars>>

\* _connection: validate unless that was done, or is not asked for.
PgReadsFlag(t) ==
    /\ at[t] = "flag"
    /\ Move(t, IF validated \/ call[t] = Inspection THEN "checkout" ELSE "validate")
    /\ UNCHANGED <<usage, call, held, txn, reply, poolVars, serverVars>>

\* _validate_schema: read the catalog over a connection of this pool.
PgValidates(t) ==
    /\ at[t] = "validate"
    /\ \/ /\ held[t] \in open /\ remote \in Accepted
          /\ checked' = checked \cup {held[t]}
          /\ Move(t, "mark")
          /\ UNCHANGED <<call, held, txn, reply, serverFaults>>
       \/ /\ held[t] \notin open \/ remote \notin Accepted
          /\ End(t, "failed")
          /\ UNCHANGED <<checked, serverFaults>>
       \/ /\ ServerFault
          /\ End(t, "failed")
          /\ UNCHANGED checked
    /\ UNCHANGED <<usage, pool, validated, open, built, remote, table, creator>>

\* _validate_schema: remember it for the calls to come.
PgMarks(t) ==
    /\ at[t] = "mark"
    /\ validated' = TRUE
    /\ Move(t, "checkout")
    /\ UNCHANGED <<usage, call, held, txn, reply, pool, open, built, checked, serverVars>>

\* pool.connection(): a closed pool lends none, an unreachable server times out.
PgChecksOut(t) ==
    /\ at[t] = "checkout"
    /\ \/ held[t] \in open /\ Move(t, "work") /\ UNCHANGED <<call, held, txn, reply, serverFaults>>
       \/ held[t] \notin open /\ End(t, "failed") /\ UNCHANGED serverFaults
       \/ ServerFault /\ End(t, "failed")
    /\ UNCHANGED <<usage, poolVars, remote, table, creator>>

\* The chunks of a batch are sent in order.
NextChunk(t, k) ==
    /\ \A j \in 1..(k - 1) : Row(call[t], j) \in txn[t]
    /\ Row(call[t], k) \notin txn[t]

\* Mutated form: every INSERT is committed by itself.
PgInsertsAutocommit(t) ==
    /\ at[t] = "work" /\ call[t] \in Batches
    /\ AttemptsTable \in RemoteTables
    /\ \E k \in 1..Chunks[call[t]] :
           /\ NextChunk(t, k)
           /\ txn' = [txn EXCEPT ![t] = @ \cup {Row(call[t], k)}]
           /\ table' = table \cup {Row(call[t], k)}
    /\ UNCHANGED <<usage, at, call, held, reply, poolVars, remote, creator, serverFaults>>

\* record_attempts: one INSERT per chunk, all in one transaction.
PgInserts(t) ==
    /\ at[t] = "work" /\ call[t] \in Batches
    /\ AttemptsTable \in RemoteTables
    /\ \E k \in 1..Chunks[call[t]] :
           NextChunk(t, k) /\ txn' = [txn EXCEPT ![t] = @ \cup {Row(call[t], k)}]
    /\ UNCHANGED <<usage, at, call, held, reply, poolVars, serverVars>>

\* A statement raises: no such table, a timeout or a lost connection.
PgStatementFails(t) ==
    /\ at[t] = "work"
    /\ \/ ServerFault
       \/ call[t] # Inspection /\ AttemptsTable \notin RemoteTables /\ UNCHANGED serverFaults
    /\ End(t, "failed")
    /\ UNCHANGED <<usage, poolVars, remote, table, creator>>

\* Leaving the block commits.
PgCommits(t) ==
    /\ at[t] = "work" /\ call[t] \in Batches /\ txn[t] = RowsOf(call[t])
    /\ table' = table \cup txn[t]
    /\ End(t, "stored")
    /\ UNCHANGED <<usage, poolVars, remote, creator, serverFaults>>

\* The connection is lost around the commit: the caller cannot tell.
PgCommitLost(t) ==
    /\ at[t] = "work" /\ call[t] \in Batches /\ txn[t] = RowsOf(call[t])
    /\ ServerFault
    /\ table' \in {table, table \cup txn[t]}
    /\ End(t, "failed")
    /\ UNCHANGED <<usage, poolVars, remote, creator>>

\* A query or an inspection returns what it read.
PgReads(t) ==
    /\ at[t] = "work" /\ call[t] \in {Read, Inspection}
    /\ call[t] = Read => AttemptsTable \in RemoteTables
    /\ End(t, "read")
    /\ UNCHANGED <<usage, poolVars, serverVars>>

----------------------------------------------------------------------------
\* close: idempotent, and a later call reconnects.

PgCloses(t) ==
    /\ at[t] = "idle" /\ pool # NoPool /\ built < MaxPools
    /\ orderly => \A u \in Threads : at[u] = "idle"
    /\ call' = [call EXCEPT ![t] = Close]
    /\ held' = [held EXCEPT ![t] = pool]
    /\ Move(t, "unset")
    /\ UNCHANGED <<usage, txn, reply, poolVars, serverVars>>

PgUnsetsPool(t) ==
    /\ at[t] = "unset"
    /\ pool' = NoPool
    /\ checked' = {}
    /\ Move(t, "unflag")
    /\ UNCHANGED <<usage, call, held, txn, reply, validated, open, built, serverVars>>

PgUnsetsFlag(t) ==
    /\ at[t] = "unflag"
    /\ validated' = FALSE
    /\ Move(t, "shut")
    /\ UNCHANGED <<usage, call, held, txn, reply, pool, open, built, checked, serverVars>>

PgShutsPool(t) ==
    /\ at[t] = "shut"
    /\ open' = open \ {held[t]}
    /\ End(t, "closed")
    /\ UNCHANGED <<usage, pool, validated, built, checked, serverVars>>

----------------------------------------------------------------------------
\* create_postgres_database: the tables are looked for, which refuses the target
\* when there are any, and created in one transaction, which the connection
\* commits when it is left.

CreatorLooks(c) ==
    /\ creator[c] = "idle"
    /\ RemoteTables \cap {AttemptsTable, VersionsTable} = {}
    /\ creator' = [creator EXCEPT ![c] = "looked"]
    /\ UNCHANGED <<usage, callVars, poolVars, remote, table, serverFaults>>

\* A second creator fails on the tables of the first; a lost answer to the
\* commit is reported as a failure either way.
CreatorCommits(c) ==
    /\ creator[c] = "looked"
    /\ creator' = [creator EXCEPT ![c] = "idle"]
    /\ \/ remote' = IF remote = "none" THEN "ours" ELSE remote
       \/ UNCHANGED remote
    /\ UNCHANGED <<usage, callVars, poolVars, table, serverFaults>>

\* The operators' own tooling installs the schema of a later release, when no
\* transaction has a lock on the table.
OperatorUpgrades ==
    /\ remote = "ours"
    /\ \A t \in Threads : txn[t] = {}
    /\ remote' = "newer"
    /\ UNCHANGED <<usage, callVars, poolVars, table, creator, serverFaults>>

PgStep(t) ==
    \/ PgCalls(t) \/ PgLooksForPool(t) \/ PgBuilds(t) \/ PgCannotBuild(t) \/ PgFetches(t)
    \/ PgReadsFlag(t) \/ PgValidates(t) \/ PgMarks(t) \/ PgChecksOut(t)
    \/ PgInserts(t) \/ PgStatementFails(t)
    \/ PgCommits(t) \/ PgCommitLost(t) \/ PgReads(t)
    \/ PgCloses(t) \/ PgUnsetsPool(t) \/ PgUnsetsFlag(t) \/ PgShutsPool(t)

PgNext ==
    \/ \E t \in Threads : PgStep(t)
    \/ \E c \in Creators : CreatorLooks(c) \/ CreatorCommits(c)
    \/ OperatorUpgrades

PgSpec == PgInit /\ [][PgNext]_pgVars

----------------------------------------------------------------------------
\* While calls and close come one at a time, the store has one pool: it never
\* holds more than max_pool_size connections of the server's budget, and a
\* closed store holds none.  (Unserialized first calls build one pool each.)
OnePoolAtATime ==
    serial => /\ Cardinality(open) <= 1
              /\ (\A t \in Threads : at[t] = "idle") => open = {pool} \ {NoPool}

\* What _schema_validated is for: while close comes between the calls, rows only
\* go out after the store found the schema current, since the last close and also
\* when the first uses after it race; with one call at a time, over the very pool
\* that lends the connection.  (A close in the middle of a first use can leave the
\* flag set for the next pool, which is then not validated.)
RowsNeedCheckedSchema ==
    \A t \in Threads :
        at[t] = "work" /\ call[t] \in Batches =>
            /\ orderly => checked # {}
            /\ serial => held[t] \in checked

\* The store is a metrics log, with threads, pools and a close that interleave
\* in any way: batches are atomic and what was acknowledged is there for good.
Log == INSTANCE MetricsLog WITH log <- table
ImplementsMetricsLog == Log!LogSpec
=============================================================================
