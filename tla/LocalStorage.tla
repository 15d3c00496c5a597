---------------------------- MODULE LocalStorage -----------------------------
(***************************************************************************)
(* storage/sqlite.py and storage/duckdb.py: the stores of several routers  *)
(* on one metrics file, and storage/admin.py: the commands that create,    *)
(* back up and migrate that file while the stores may be using it.         *)
(*                                                                         *)
(* A store is one actor: its own lock serializes the threads of a process. *)
(* Stores and commands share only the file system: the name of the target  *)
(* database, the name of the backup and the locks of the database engine.  *)
(* Files are numbered in the order in which they appear and are kept after *)
(* they lose their name, because a connection survives the removal of the  *)
(* name it was opened by.                                                  *)
(*                                                                         *)
(* SQLite (rollback journal): readers share a file, a writer reserves it,  *)
(* and a commit first waits for the readers to leave ("pending" keeps new  *)
(* ones out).  Python opens a transaction before an INSERT, and it stays   *)
(* open if the INSERT fails: it has no lock yet ("deferred"), but keeps    *)
(* the one of the next query.  DuckDB: a writable connection excludes      *)
(* every other one.  A wait for a lock may give up whenever it is not free.*)
(***************************************************************************)
EXTENDS StorageSchema, FiniteSets

CONSTANTS
    Stores,             \* SQLiteMetricsStore or DuckDBMetricsStore objects
    Admins,             \* administration commands, each run once
    Rows,               \* attempts to record, each by one store
    Backends,           \* the backends to consider: "sqlite", "duckdb"
    InitialStates,      \* what may be at the target's path at the start
    MaxFiles,           \* bound on the files that ever appear: then the disk is full
    MaxFaults           \* bound on kills, interrupts and failing unlinks

Query == "query"        \* a read: query_recent or query_score_aggregates
Absent == 0             \* a name that no file has

AdminOps == {"create", "migrate", "backup"}     \* "backup": migrate with a backup path

ASSUME LocalAssumption ==
    /\ Backends \subseteq {"sqlite", "duckdb"}
    /\ InitialStates \subseteq
           {"absent", "current", "empty", "implicit_v1", "older", "newer", "no_index"}
    /\ MaxFiles \in Nat \ {0} /\ MaxFaults \in Nat
    /\ Stores \cap Admins = {}
    /\ IsFiniteSet(Rows)
    /\ Rows \cap (AdminOps \cup {Query, "none"}) = {}

Procs == Stores \cup Admins

VARIABLES
    backend,        \* the engine of the metrics file
    files,          \* every file so far: its catalog, rows and hot journal
    target,         \* the file that has the target's path
    backup,         \* the file that has the backup's path
    pc,             \* where each process is
    op,             \* what it is doing: a row, Query or a command
    draft,          \* its private temporary database
    conn,           \* the file it has a connection to
    lock,           \* the lock it holds on that file, or may come to hold
    pending,        \* rows inserted in its open transaction
    sig,            \* the signature a migration took before it locked the source
    answer,         \* what record_attempt said of each row
    withdrawn,      \* published files that their creator removed again
    faults

localVars == <<backend, files, target, backup, pc, op, draft, conn, lock, pending,
               sig, answer, withdrawn, faults>>

fileVars == <<files, target, backup, withdrawn>>
lockVars == <<conn, lock, pending>>

NewFile(cat) == [catalog |-> cat, rows |-> {}, hot |-> FALSE]

\* What may be found at the target's path before any process has started.
InitialCatalog(engine, state) ==
    LET made == CreatedCatalog(engine) IN
    CASE state = "current" -> made
      [] state = "empty" -> EmptyCatalog
      [] state = "implicit_v1" ->
            [made EXCEPT !.tables = {AttemptsTable}, !.versions = <<>>, !.versionRows = <<>>]
      [] state = "older" -> [made EXCEPT !.versionRows[1].version = 1]
      [] state = "newer" -> [made EXCEPT !.versionRows[1].version = 3]
      [] state = "no_index" -> [made EXCEPT !.indexes = <<>>]

InitialCatalogs ==
    [engine \in Backends |->
        {InitialCatalog(engine, state) : state \in InitialStates \ {"absent"}}]
Catalogs == {EmptyCatalog, CreatedCatalog(backend)} \cup InitialCatalogs[backend]

FileRecord == [catalog : Catalogs, rows : SUBSET Rows, hot : BOOLEAN]

Places == {"idle", "over", "inspect", "open", "execute", "commit", "create", "build",
           "link", "linked", "assess", "sign", "copy", "copying", "verify", "published",
           "lock", "migrate", "final"}

Locks == {"none", "deferred", "shared", "reserved", "pending", "exclusive"}

\* Types, and how the lock of a process follows from what it is doing: a
\* process that holds a lock has a connection, and an open transaction holds
\* a lock that keeps every other writer out.
LocalTypeOK ==
    /\ backend \in Backends
    /\ files \in Seq(FileRecord) /\ Len(files) <= MaxFiles
    /\ {target, backup} \subseteq 0..Len(files)
    /\ pc \in [Procs -> Places]
    /\ op \in [Procs -> Rows \cup AdminOps \cup {Query, "none"}]
    /\ draft \in [Procs -> 0..Len(files)]
    /\ conn \in [Procs -> 0..Len(files)]
    /\ lock \in [Procs -> Locks]
    /\ pending \in [Procs -> SUBSET Rows]
    /\ answer \in [Rows -> {"unused", "open", "stored", "refused", "crashed"}]
    /\ withdrawn \subseteq 1..Len(files)
    /\ faults \in 0..MaxFaults
    /\ \A p \in Procs :
           /\ lock[p] # "none" => conn[p] # Absent
           /\ pending[p] # {} <=> lock[p] \in {"reserved", "pending"}
           /\ \A q \in Procs \ {p} :
                  pending[p] # {} /\ pending[q] # {} => conn[p] # conn[q]

LocalInit ==
    /\ backend \in Backends
    /\ \E state \in InitialStates :
           /\ files = IF state = "absent" THEN <<>> ELSE <<NewFile(InitialCatalog(backend, state))>>
           /\ target = Len(files)
    /\ backup = Absent
    /\ pc = [p \in Procs |-> "idle"]
    /\ op = [p \in Procs |-> "none"]
    /\ draft = [p \in Procs |-> Absent]
    /\ conn = [p \in Procs |-> Absent]
    /\ lock = [p \in Procs |-> "none"]
    /\ pending = [p \in Procs |-> {}]
    /\ sig = [p \in Procs |-> <<>>]
    /\ answer = [r \in Rows |-> "unused"]
    /\ withdrawn = {}
    /\ faults = 0

----------------------------------------------------------------------------
\* The locks of the engine, as seen by a process that wants to use file i.

Others(p, i) == {lock[q] : q \in {q \in Procs \ {p} : conn[q] = i}}

CanRead(p, i) == Others(p, i) \cap {"pending", "exclusive"} = {}
CanWrite(p, i) == Others(p, i) \cap {"reserved", "pending", "exclusive"} = {}
CanExclude(p, i) == Others(p, i) \subseteq {"none", "deferred"}

\* A read-only connection cannot roll back the journal of a killed writer.
CanInspect(p, i) == i # Absent /\ CanRead(p, i) /\ ~files[i].hot

HasAttempts(i) == AttemptsTable \in files[i].catalog.tables
IsCurrent(i) == Current(backend, files[i].catalog)

\* _connection_signature: the report and the number of attempts.
Signature(i) == <<Inspect(backend, files[i].catalog), Cardinality(files[i].rows)>>

Goto(p, at) == pc' = [pc EXCEPT ![p] = at]

Answer(p, what) ==
    answer' = IF op[p] \in Rows THEN [answer EXCEPT ![op[p]] = what] ELSE answer

Fault == faults < MaxFaults /\ faults' = faults + 1

\* The operation of p returns, or raises; a command is then over.
Return(p, what) ==
    /\ Goto(p, IF p \in Admins THEN "over" ELSE "idle")
    /\ op' = [op EXCEPT ![p] = "none"]
    /\ sig' = [sig EXCEPT ![p] = <<>>]
    /\ Answer(p, what)

Refuse(p) == Return(p, "refused")

Release(p) ==
    /\ conn' = [conn EXCEPT ![p] = Absent]
    /\ lock' = [lock EXCEPT ![p] = "none"]
    /\ pending' = [pending EXCEPT ![p] = {}]

\* The file that a connection which may write is opened on: both engines
\* create an empty database for a path that names none.
Opened == IF target = Absent THEN Len(files) + 1 ELSE target
WithOpened == IF target = Absent THEN Append(files, NewFile(EmptyCatalog)) ELSE files
MayOpen == target # Absent \/ Len(files) < MaxFiles

----------------------------------------------------------------------------
\* A store: record_attempt and the queries, serialized by its lock.

\* _connect, without a connection: self.path.exists() decides between inspecting
\* the target and creating it.
StoreCalls(p) ==
    /\ pc[p] = "idle"
    /\ \E what \in {Query} \cup {r \in Rows : answer[r] = "unused"} :
           /\ op' = [op EXCEPT ![p] = what]
           /\ answer' = IF what \in Rows THEN [answer EXCEPT ![what] = "open"] ELSE answer
    /\ Goto(p, CASE conn[p] # Absent -> "execute"
                 [] conn[p] = Absent /\ target # Absent -> "inspect"
                 [] conn[p] = Absent /\ target = Absent -> "create")
    /\ UNCHANGED <<backend, fileVars, draft, lockVars, sig, faults>>

\* Mutated form: the runtime accepts whatever it could read.
StoreInspectsOnly(p) ==
    /\ pc[p] = "inspect"
    /\ IF CanInspect(p, target)
       THEN Goto(p, "open") /\ UNCHANGED <<op, sig, answer>>
       ELSE Refuse(p)
    /\ UNCHANGED <<backend, fileVars, draft, lockVars, faults>>

\* A read-only inspection by path, then validate_runtime_schema.
StoreInspects(p) ==
    /\ pc[p] = "inspect"
    /\ IF CanInspect(p, target) /\ IsCurrent(target)
       THEN Goto(p, "open") /\ UNCHANGED <<op, sig, answer>>
       ELSE Refuse(p)
    /\ UNCHANGED <<backend, fileVars, draft, lockVars, faults>>

\* sqlite3.connect or duckdb.connect on the path that was inspected.
StoreOpens(p) ==
    /\ pc[p] = "open"
    /\ IF ~MayOpen \/ (backend = "duckdb" /\ ~CanExclude(p, target))
       THEN Refuse(p) /\ UNCHANGED <<fileVars, conn, lock>>
       ELSE /\ files' = WithOpened /\ target' = Opened
            /\ conn' = [conn EXCEPT ![p] = Opened]
            /\ lock' = [lock EXCEPT ![p] = IF backend = "duckdb" THEN "exclusive" ELSE "none"]
            /\ Goto(p, "execute")
            /\ UNCHANGED <<backup, withdrawn, op, sig, answer>>
    /\ UNCHANGED <<backend, draft, pending, faults>>

\* The first statement of a writable connection rolls a hot journal back.
RollBackJournal(i) == files' = [files EXCEPT ![i].hot = FALSE]

\* A reader that is in already is not stopped by a commit that waits.
MayRead(p) == lock[p] = "shared" \/ CanRead(p, conn[p])

\* Within the transaction that a failed INSERT left open, the query's lock stays.
StoreReads(p) ==
    /\ pc[p] = "execute" /\ op[p] = Query
    /\ MayRead(p) /\ HasAttempts(conn[p])
    /\ lock' = [lock EXCEPT ![p] = IF @ = "deferred" THEN "shared" ELSE @]
    /\ RollBackJournal(conn[p])
    /\ Return(p, "read")
    /\ UNCHANGED <<backend, target, backup, withdrawn, draft, conn, pending, faults>>

\* SQLite: the INSERT opens a transaction, or joins the one a failure left open.
StoreInserts(p) ==
    /\ pc[p] = "execute" /\ op[p] \in Rows /\ backend = "sqlite"
    /\ CanWrite(p, conn[p]) /\ HasAttempts(conn[p])
    /\ pending' = [pending EXCEPT ![p] = @ \cup {op[p]}]
    /\ lock' = [lock EXCEPT ![p] = IF @ = "pending" THEN @ ELSE "reserved"]
    /\ RollBackJournal(conn[p])
    /\ Goto(p, "commit")
    /\ UNCHANGED <<backend, target, backup, withdrawn, op, draft, conn, sig, answer, faults>>

\* DuckDB: the INSERT is its own transaction.
StoreInsertsAndCommits(p) ==
    /\ pc[p] = "execute" /\ op[p] \in Rows /\ backend = "duckdb"
    /\ HasAttempts(conn[p])
    /\ files' = [files EXCEPT ![conn[p]].rows = @ \cup {op[p]}]
    /\ Return(p, "stored")
    /\ UNCHANGED <<backend, target, backup, withdrawn, draft, lockVars, faults>>

\* A statement fails: no such table, or the wait for the lock timed out.  A
\* connection that has yet to read the schema may fail even before it opens
\* the transaction of an INSERT.
StoreStatementFails(p) ==
    /\ pc[p] = "execute"
    /\ \/ ~HasAttempts(conn[p])
       \/ ~MayRead(p)
    /\ Refuse(p)
    /\ UNCHANGED <<backend, fileVars, draft, lockVars, faults>>

\* An INSERT that waited too long: its transaction stays open, without a row.
StoreInsertTimesOut(p) ==
    /\ pc[p] = "execute" /\ op[p] \in Rows /\ backend = "sqlite"
    /\ HasAttempts(conn[p]) /\ ~CanWrite(p, conn[p])
    /\ lock' = [lock EXCEPT ![p] = IF @ = "none" THEN "deferred" ELSE @]
    /\ Refuse(p)
    /\ UNCHANGED <<backend, fileVars, draft, conn, pending, faults>>

\* Mutated form: the connection still holds its lock afterwards.
StoreCommitsHoldingLock(p) ==
    /\ pc[p] = "commit" /\ CanExclude(p, conn[p])
    /\ files' = [files EXCEPT ![conn[p]].rows = @ \cup pending[p]]
    /\ pending' = [pending EXCEPT ![p] = {}]
    /\ Return(p, "stored")
    /\ UNCHANGED <<backend, target, backup, withdrawn, draft, conn, lock, faults>>

\* The commit waits until nobody reads the file.
StoreCommits(p) ==
    /\ pc[p] = "commit" /\ CanExclude(p, conn[p])
    /\ files' = [files EXCEPT ![conn[p]].rows = @ \cup pending[p]]
    /\ pending' = [pending EXCEPT ![p] = {}]
    /\ lock' = [lock EXCEPT ![p] = "none"]
    /\ Return(p, "stored")
    /\ UNCHANGED <<backend, target, backup, withdrawn, draft, conn, faults>>

\* "database is locked": the transaction stays open on the kept connection, and
\* so does the lock that lets no new reader in.
StoreCommitFails(p) ==
    /\ pc[p] = "commit" /\ ~CanExclude(p, conn[p])
    /\ lock' = [lock EXCEPT ![p] = "pending"]
    /\ Refuse(p)
    /\ UNCHANGED <<backend, fileVars, draft, conn, pending, faults>>

\* close: an open transaction is rolled back.
StoreCloses(p) ==
    /\ pc[p] = "idle" /\ conn[p] # Absent
    /\ Release(p)
    /\ UNCHANGED <<backend, fileVars, pc, op, draft, sig, answer, faults>>

----------------------------------------------------------------------------
\* create_database, run by a store for an absent path or by a create command.

\* The first inspection: an existing target is refused, readable or not.
CreateLooks(p) ==
    /\ pc[p] = "create"
    /\ IF target # Absent
       THEN Refuse(p)
       ELSE Goto(p, "build") /\ UNCHANGED <<op, sig, answer>>
    /\ UNCHANGED <<backend, fileVars, draft, lockVars, faults>>

\* Mutated form: the file is published before its statements are committed.
CreateBuildsEmpty(p) ==
    /\ pc[p] = "build" /\ Len(files) < MaxFiles
    /\ files' = Append(files, NewFile(EmptyCatalog))
    /\ draft' = [draft EXCEPT ![p] = Len(files) + 1]
    /\ Goto(p, "link")
    /\ UNCHANGED <<backend, target, backup, withdrawn, op, lockVars, sig, answer, faults>>

\* _create_sqlite or _create_duckdb: one transaction in a private temporary
\* file, validated twice before the file can get the target's name.
CreateBuilds(p) ==
    /\ pc[p] = "build" /\ Len(files) < MaxFiles
    /\ Current(backend, CreatedCatalog(backend))
    /\ files' = Append(files, NewFile(CreatedCatalog(backend)))
    /\ draft' = [draft EXCEPT ![p] = Len(files) + 1]
    /\ Goto(p, "link")
    /\ UNCHANGED <<backend, target, backup, withdrawn, op, lockVars, sig, answer, faults>>

CreateAborts(p) ==
    /\ pc[p] = "build" /\ Len(files) = MaxFiles
    /\ Refuse(p)
    /\ UNCHANGED <<backend, fileVars, draft, lockVars, faults>>

\* Mutated form: the finished file is moved over whatever has the name.
CreateReplaces(p) ==
    /\ pc[p] = "link"
    /\ target' = draft[p]
    /\ Goto(p, "linked")
    /\ UNCHANGED <<backend, files, backup, withdrawn, op, draft, lockVars, sig, answer, faults>>

\* os.link puts the name on the finished file if nothing has it.
CreateLinks(p) ==
    /\ pc[p] = "link" /\ target = Absent
    /\ target' = draft[p]
    /\ Goto(p, "linked")
    /\ UNCHANGED <<backend, files, backup, withdrawn, op, draft, lockVars, sig, answer, faults>>

\* FileExistsError: the target appeared concurrently and is left untouched.
CreateBeaten(p) ==
    /\ pc[p] = "link" /\ target # Absent
    /\ draft' = [draft EXCEPT ![p] = Absent]
    /\ Refuse(p)
    /\ UNCHANGED <<backend, fileVars, lockVars, faults>>

\* The published target is inspected once more; a store then connects to it.
CreateValidates(p) ==
    /\ pc[p] = "linked"
    /\ CanInspect(p, target) /\ IsCurrent(target)
    /\ draft' = [draft EXCEPT ![p] = Absent]
    /\ IF p \in Stores
       THEN Goto(p, "open") /\ UNCHANGED <<op, sig, answer>>
       ELSE Return(p, "done")
    /\ UNCHANGED <<backend, fileVars, lockVars, faults>>

\* Anything that goes wrong after publication takes the target's name away:
\* an interrupt or a failing unlink, or somebody else holding the new file.
CreateWithdraws(p) ==
    /\ pc[p] = "linked"
    /\ \/ Fault
       \/ ~(CanInspect(p, target) /\ IsCurrent(target)) /\ UNCHANGED faults
    /\ target' = Absent
    /\ withdrawn' = withdrawn \cup ({target} \ {Absent})
    /\ draft' = [draft EXCEPT ![p] = Absent]
    /\ Refuse(p)
    /\ UNCHANGED <<backend, files, backup, lockVars>>

----------------------------------------------------------------------------
\* The commands: create, and migrate with or without a backup.

AdminCalls(p) ==
    /\ pc[p] = "idle"
    /\ \E command \in AdminOps :
           /\ op' = [op EXCEPT ![p] = command]
           /\ Goto(p, IF command = "create" THEN "create" ELSE "assess")
    /\ UNCHANGED <<backend, fileVars, draft, lockVars, sig, answer, faults>>

\* inspect_database, _build_route and _resolve_backup_path: no step is
\* registered, so only a current database has a route, and that one is empty.
AdminAssesses(p) ==
    /\ pc[p] = "assess"
    /\ IF /\ CanInspect(p, target) /\ IsCurrent(target)
          /\ op[p] = "backup" => backup = Absent
       THEN Goto(p, "sign") /\ UNCHANGED <<op, sig, answer>>
       ELSE Refuse(p)
    /\ UNCHANGED <<backend, fileVars, draft, lockVars, faults>>

\* _database_signature, on a connection of its own.
AdminSigns(p) ==
    /\ pc[p] = "sign"
    /\ IF CanInspect(p, target) /\ HasAttempts(target)
       THEN /\ sig' = [sig EXCEPT ![p] = Signature(target)]
            /\ Goto(p, IF op[p] = "backup" THEN "copy" ELSE "lock")
            /\ UNCHANGED <<op, answer>>
       ELSE Refuse(p)
    /\ UNCHANGED <<backend, fileVars, draft, lockVars, faults>>

\* _backup_sqlite and _backup_duckdb read the source for as long as they copy.
AdminCopies(p) ==
    /\ pc[p] = "copy" /\ CanInspect(p, target)
    /\ conn' = [conn EXCEPT ![p] = target]
    /\ lock' = [lock EXCEPT ![p] = "shared"]
    /\ Goto(p, "copying")
    /\ UNCHANGED <<backend, fileVars, op, draft, pending, sig, answer, faults>>

\* The source is gone, needs a writer to recover it, or is taken: DuckDB then
\* fails at once, while SQLite's backup waits for as long as it takes.
AdminCannotCopy(p) ==
    /\ pc[p] = "copy"
    /\ \/ target = Absent
       \/ target # Absent /\ files[target].hot
       \/ backend = "duckdb" /\ ~CanRead(p, target)
    /\ Refuse(p)
    /\ UNCHANGED <<backend, fileVars, draft, lockVars, faults>>

AdminCopied(p) ==
    /\ pc[p] = "copying"
    /\ Release(p)
    /\ IF Len(files) < MaxFiles
       THEN /\ files' = Append(files, files[conn[p]])
            /\ draft' = [draft EXCEPT ![p] = Len(files) + 1]
            /\ Goto(p, "verify") /\ UNCHANGED <<op, sig, answer>>
       ELSE Refuse(p) /\ UNCHANGED <<files, draft>>
    /\ UNCHANGED <<backend, target, backup, withdrawn, faults>>

\* The copy must have the signature of the source, and is linked under the
\* backup's name if nothing has it.
AdminPublishes(p) ==
    /\ pc[p] = "verify"
    /\ Signature(draft[p]) = sig[p] /\ backup = Absent
    /\ backup' = draft[p]
    /\ Goto(p, "published")
    /\ UNCHANGED <<backend, files, target, withdrawn, op, draft, lockVars, sig, answer, faults>>

AdminRejectsCopy(p) ==
    /\ pc[p] = "verify"
    /\ Signature(draft[p]) # sig[p] \/ backup # Absent
    /\ draft' = [draft EXCEPT ![p] = Absent]
    /\ Refuse(p)
    /\ UNCHANGED <<backend, fileVars, lockVars, faults>>

\* The temporary name is removed; failing that, so is the backup's.
AdminUnlinks(p) ==
    /\ pc[p] = "published"
    /\ draft' = [draft EXCEPT ![p] = Absent]
    /\ \/ Goto(p, "lock") /\ UNCHANGED <<backup, op, sig, answer, faults>>
       \/ /\ Fault
          /\ backup' = Absent
          /\ Refuse(p)
    /\ UNCHANGED <<backend, files, target, withdrawn, lockVars>>

\* BEGIN EXCLUSIVE without waiting, or DuckDB's writable connection.
AdminLocks(p) ==
    /\ pc[p] = "lock" /\ MayOpen /\ CanExclude(p, target)
    /\ files' = [WithOpened EXCEPT ![Opened].hot = FALSE]
    /\ target' = Opened
    /\ conn' = [conn EXCEPT ![p] = Opened]
    /\ lock' = [lock EXCEPT ![p] = "exclusive"]
    /\ Goto(p, "migrate")
    /\ UNCHANGED <<backend, backup, withdrawn, op, draft, pending, sig, answer, faults>>

\* StorageBusyError: somebody uses the source.
AdminCannotLock(p) ==
    /\ pc[p] = "lock" /\ ~(MayOpen /\ CanExclude(p, target))
    /\ Refuse(p)
    /\ UNCHANGED <<backend, fileVars, draft, lockVars, faults>>

\* Mutated form: the signature is not compared again under the lock.
AdminMigratesUnchecked(p) ==
    /\ pc[p] = "migrate"
    /\ Release(p)
    /\ Goto(p, "final") /\ UNCHANGED <<op, sig, answer>>
    /\ UNCHANGED <<backend, fileVars, draft, faults>>

\* The signature is compared again under the lock; the route has no step.
AdminMigrates(p) ==
    /\ pc[p] = "migrate"
    /\ Release(p)
    /\ IF HasAttempts(conn[p]) /\ Signature(conn[p]) = sig[p]
       THEN Goto(p, "final") /\ UNCHANGED <<op, sig, answer>>
       ELSE Refuse(p)
    /\ UNCHANGED <<backend, fileVars, draft, faults>>

\* The final inspection decides what the command reports.
AdminFinishes(p) ==
    /\ pc[p] = "final"
    /\ Return(p, "done")
    /\ UNCHANGED <<backend, fileVars, draft, lockVars, faults>>

----------------------------------------------------------------------------
\* A process is killed.  Its locks and names in memory go; a commit under way
\* is durable, undone, or left half written with a journal that undoes it.
Crash(p) ==
    /\ pc[p] \notin {"idle", "over"} \/ conn[p] # Absent
    /\ Fault
    /\ \/ UNCHANGED files
       \/ /\ pc[p] = "commit" /\ CanExclude(p, conn[p])
          /\ \/ files' = [files EXCEPT ![conn[p]].rows = @ \cup pending[p]]
             \/ files' = [files EXCEPT ![conn[p]].hot = TRUE]
    /\ Release(p)
    /\ Return(p, "crashed")
    /\ draft' = [draft EXCEPT ![p] = Absent]
    /\ UNCHANGED <<backend, target, backup, withdrawn>>

CreateStep(p) ==
    \/ CreateLooks(p) \/ CreateBuilds(p) \/ CreateAborts(p) \/ CreateLinks(p)
    \/ CreateBeaten(p) \/ CreateValidates(p) \/ CreateWithdraws(p)

StoreStep(p) ==
    \/ StoreCalls(p) \/ StoreInspects(p) \/ StoreOpens(p)
    \/ StoreReads(p) \/ StoreInserts(p) \/ StoreInsertsAndCommits(p)
    \/ StoreStatementFails(p) \/ StoreInsertTimesOut(p)
    \/ StoreCommits(p) \/ StoreCommitFails(p) \/ StoreCloses(p)

AdminStep(p) ==
    \/ AdminCalls(p) \/ AdminAssesses(p) \/ AdminSigns(p) \/ AdminCopies(p)
    \/ AdminCannotCopy(p) \/ AdminCopied(p) \/ AdminPublishes(p) \/ AdminRejectsCopy(p)
    \/ AdminUnlinks(p) \/ AdminLocks(p) \/ AdminCannotLock(p) \/ AdminMigrates(p)
    \/ AdminFinishes(p)

LocalNext ==
    \/ \E p \in Stores : StoreStep(p)
    \/ \E p \in Admins : AdminStep(p)
    \/ \E p \in Procs : CreateStep(p) \/ Crash(p)

LocalSpec == LocalInit /\ [][LocalNext]_localVars

----------------------------------------------------------------------------
\* An attempt whose record_attempt returned is in the database that has the
\* target's path, or in one that its creator took back: no later creation,
\* migration, crash or half-written commit of anybody removes it.
RowsSurvive ==
    \A r \in Rows :
        answer[r] = "stored" =>
            \E i \in ({target} \cup withdrawn) \ {Absent} : r \in files[i].rows

\* What a database must contain for the stores' statements to be right.
Usable(cat) ==
    /\ {AttemptsTable, VersionsTable} \subseteq cat.tables
    /\ [i \in DOMAIN cat.provider |-> cat.provider[i].name] =
       [i \in DOMAIN ExpectedProviderSchema |-> ExpectedProviderSchema[i].name]
    /\ {cat.versionRows[i] : i \in DOMAIN cat.versionRows} =
       {[component |-> MetricsComponent, version |-> MetricsSchemaVersion]}
    /\ RequiredIndexes(backend) = {cat.indexes[i] : i \in DOMAIN cat.indexes}

\* No attempt is ever written into a database of another version, without the
\* indexes or half made, although the file that is inspected and the one that
\* is then opened are found by name, one after the other.
RowsOnlyInCurrent ==
    \A i \in DOMAIN files : files[i].rows # {} => Usable(files[i].catalog)

\* The path never shows a database that is still being made: what can be found
\* there is current, was there before, or follows a withdrawn creation.
TargetWhole ==
    target # Absent => IsCurrent(target) \/ target = 1 \/ withdrawn # {}

\* A migration that asked for a backup only goes ahead under the exclusive lock
\* if the backup has every attempt of the source, whatever other processes
\* recorded since the copy was made.
BackupFaithful ==
    [][\A p \in Admins :
           pc[p] = "migrate" /\ pc'[p] = "final" /\ op[p] = "backup" /\ withdrawn = {} =>
               backup # Absent /\ files[backup].rows = files[conn[p]].rows]_localVars

\* An attempt whose record_attempt raised, which the router counts as dropped
\* and reports as unrecorded, is not in the database.
RefusedRowsAbsent ==
    \A r \in Rows :
        answer[r] = "refused" => \A i \in DOMAIN files : r \notin files[i].rows
=============================================================================
