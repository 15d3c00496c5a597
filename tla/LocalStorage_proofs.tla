------------------------- MODULE LocalStorage_proofs -------------------------
(***************************************************************************)
(* Proofs about LocalStorage, for any number of store processes and admin  *)
(* commands, any rows, any initial catalogs and any bound on files and     *)
(* faults: its types with the mutual exclusion of writers, that stored     *)
(* attempts survive, that attempts are only ever written into a database   *)
(* the runtime accepts, that no half-made database can be found at the     *)
(* target's path, and that a migration goes ahead only with a faithful     *)
(* backup.                                                                 *)
(***************************************************************************)
EXTENDS LocalStorage, FiniteSetTheorems, TLAPS

-----------------------------------------------------------------------------
(* Types.                                                                   *)

StorePlaces == {"idle", "inspect", "open", "execute", "commit", "create", "build",
                "link", "linked"}
AdminPlaces == {"idle", "over", "create", "build", "link", "linked", "assess", "sign",
                "copy", "copying", "verify", "published", "lock", "migrate", "final"}
Backing == {"copy", "copying", "verify", "published"}

\* The names of the path, the control of each process, and what it holds.
NamesOK ==
    /\ backend \in Backends
    /\ target \in 0..Len(files) /\ backup \in 0..Len(files)
    /\ withdrawn \subseteq 1..Len(files)
    /\ faults \in 0..MaxFaults

CtrlOK ==
    /\ pc \in [Procs -> Places]
    /\ op \in [Procs -> Rows \cup AdminOps \cup {Query, "none"}]
    /\ sig = [p \in Procs |-> sig[p]]
    /\ answer \in [Rows -> {"unused", "open", "stored", "refused", "crashed"}]

HoldsOK ==
    /\ draft \in [Procs -> 0..Len(files)]
    /\ conn \in [Procs -> 0..Len(files)]
    /\ lock \in [Procs -> Locks]
    /\ pending \in [Procs -> SUBSET Rows]

PlainTypeOK == NamesOK /\ CtrlOK /\ HoldsOK

FilesTypeOK == files \in Seq(FileRecord) /\ Len(files) <= MaxFiles

\* What each place of a process says of its names, connection and lock.
PlaceOK(p) ==
    /\ p \in Stores =>
           /\ pc[p] \in StorePlaces
           /\ lock[p] \in IF backend = "duckdb"
                          THEN {"none", "exclusive"}
                          ELSE {"none", "deferred", "shared", "reserved", "pending"}
           /\ op[p] \in Rows \cup {Query, "none"}
           /\ conn[p] # Absent => pc[p] \in {"idle", "execute", "commit"}
    /\ p \in Admins =>
           /\ pc[p] \in AdminPlaces
           /\ lock[p] \in {"none", "shared", "exclusive"}
           /\ op[p] \in AdminOps \cup {"none"}
           /\ conn[p] # Absent => pc[p] \in {"copying", "migrate"}
    /\ pc[p] \in {"execute", "commit", "copying", "migrate"} => conn[p] # Absent
    /\ pc[p] = "commit" => op[p] \in pending[p]
    /\ pc[p] \in {"link", "linked", "verify", "published"} <=> draft[p] # Absent
    /\ pc[p] \in Backing => op[p] = "backup"
    /\ lock[p] # "none" => conn[p] # Absent
    /\ pending[p] # {} <=> lock[p] \in {"reserved", "pending"}

WritersApart ==
    \A p, q \in Procs :
        p # q /\ pending[p] # {} /\ pending[q] # {} => conn[p] # conn[q]

LocalInv ==
    /\ PlainTypeOK /\ FilesTypeOK /\ WritersApart
    /\ \A p \in Procs : PlaceOK(p)

\* What a file may become in a step: its catalog stays, rows are only added.
Grown ==
    /\ files' \in Seq(FileRecord) /\ Len(files') <= MaxFiles /\ Len(files) <= Len(files')
    /\ \A i \in 1..Len(files) :
           files'[i].catalog = files[i].catalog /\ files[i].rows \subseteq files'[i].rows

LEMMA AppendGrows ==
    ASSUME FilesTypeOK, NEW rec \in FileRecord, Len(files) < MaxFiles,
           files' = Append(files, rec)
    PROVE  /\ Grown /\ Len(files') = Len(files) + 1 /\ files'[Len(files) + 1] = rec
           /\ \A i \in 1..Len(files) : files'[i] = files[i]
  <1>1. /\ files' \in Seq(FileRecord) /\ Len(files') = Len(files) + 1
        /\ files'[Len(files) + 1] = rec
        /\ \A i \in 1..Len(files) : files'[i] = files[i]
    BY DEF FilesTypeOK
  <1>2. Len(files) \in Nat /\ MaxFiles \in Nat
    BY LocalAssumption DEF FilesTypeOK
  <1>3. QED
    BY <1>1, <1>2 DEF Grown

LEMMA RowsGrow ==
    ASSUME FilesTypeOK, NEW i \in 1..Len(files), NEW R \in SUBSET Rows,
           files' = [files EXCEPT ![i].rows = @ \cup R]
    PROVE  /\ Grown /\ Len(files') = Len(files)
           /\ files'[i].rows = files[i].rows \cup R
           /\ \A j \in 1..Len(files) : j # i => files'[j] = files[j]
  <1>1. /\ files[i] \in FileRecord /\ DOMAIN files = 1..Len(files) /\ Len(files) \in Nat
        /\ Len(files) <= MaxFiles /\ MaxFiles \in Nat
    BY LocalAssumption DEF FilesTypeOK
  <1>2. [files[i] EXCEPT !.rows = @ \cup R] \in FileRecord
    BY <1>1 DEF FileRecord
  <1>3. files' = [files EXCEPT ![i] = [files[i] EXCEPT !.rows = @ \cup R]]
    OBVIOUS
  <1>4. files' \in Seq(FileRecord) /\ Len(files') = Len(files)
    BY <1>1, <1>2, <1>3 DEF FilesTypeOK
  <1>5. /\ files'[i] = [files[i] EXCEPT !.rows = @ \cup R]
        /\ \A j \in 1..Len(files) : j # i => files'[j] = files[j]
    BY <1>1, <1>3
  <1>6. files'[i].rows = files[i].rows \cup R /\ files'[i].catalog = files[i].catalog
    BY <1>1, <1>5 DEF FileRecord
  <1>7. QED
    BY <1>1, <1>4, <1>5, <1>6 DEF Grown

LEMMA JournalOnly ==
    ASSUME FilesTypeOK, NEW i \in 1..Len(files), NEW b \in BOOLEAN,
           files' = [files EXCEPT ![i].hot = b]
    PROVE  /\ Grown /\ Len(files') = Len(files)
           /\ \A j \in 1..Len(files) :
                  files'[j].catalog = files[j].catalog /\ files'[j].rows = files[j].rows
  <1>1. /\ files[i] \in FileRecord /\ DOMAIN files = 1..Len(files) /\ Len(files) \in Nat
        /\ Len(files) <= MaxFiles /\ MaxFiles \in Nat
    BY LocalAssumption DEF FilesTypeOK
  <1>2. [files[i] EXCEPT !.hot = b] \in FileRecord
    BY <1>1 DEF FileRecord
  <1>3. files' = [files EXCEPT ![i] = [files[i] EXCEPT !.hot = b]]
    OBVIOUS
  <1>4. files' \in Seq(FileRecord) /\ Len(files') = Len(files)
    BY <1>1, <1>2, <1>3 DEF FilesTypeOK
  <1>5. /\ files'[i] = [files[i] EXCEPT !.hot = b]
        /\ \A j \in 1..Len(files) : j # i => files'[j] = files[j]
    BY <1>1, <1>3
  <1>6. files'[i].rows = files[i].rows /\ files'[i].catalog = files[i].catalog
    BY <1>1, <1>5 DEF FileRecord
  <1>7. QED
    BY <1>1, <1>4, <1>5, <1>6 DEF Grown

LEMMA Unwritten ==
    ASSUME FilesTypeOK, files' = files
    PROVE  /\ Grown /\ Len(files') = Len(files)
           /\ \A j \in 1..Len(files) : files'[j] = files[j]
  BY LocalAssumption DEF FilesTypeOK, Grown

\* The databases that are made new are of the kinds that may be found at first.
LEMMA NewFiles ==
    /\ NewFile(EmptyCatalog) \in FileRecord /\ NewFile(EmptyCatalog).rows = {}
    /\ NewFile(EmptyCatalog).catalog = EmptyCatalog
    /\ NewFile(CreatedCatalog(backend)) \in FileRecord
    /\ NewFile(CreatedCatalog(backend)).rows = {}
    /\ NewFile(CreatedCatalog(backend)).catalog = CreatedCatalog(backend)
  <1>1. EmptyCatalog \in Catalogs /\ CreatedCatalog(backend) \in Catalogs
    BY DEF Catalogs
  <1>2. QED
    BY <1>1 DEF NewFile, FileRecord

\* What the file of a path that is opened for writing becomes.
LEMMA OpenedFile ==
    ASSUME FilesTypeOK, target \in 0..Len(files), MayOpen, files' = WithOpened
    PROVE  /\ Grown /\ Opened \in 1..Len(files') /\ Opened # Absent
           /\ Opened = target \/ (target = Absent /\ files'[Opened] = NewFile(EmptyCatalog))
           /\ target # Absent => Len(files') = Len(files)
           /\ Opened # target => Opened = Len(files) + 1
           /\ \A j \in 1..Len(files) : files'[j] = files[j]
           /\ Len(files') = Len(files) \/ (Len(files') = Len(files) + 1 /\ Opened = Len(files'))
  <1>1. Len(files) \in Nat
    BY DEF FilesTypeOK
  <1>2. CASE target # Absent
    <2>1. files' = files
      BY <1>2 DEF WithOpened
    <2>2. Opened = target /\ target \in 1..Len(files)
      BY <1>1, <1>2 DEF Opened, Absent
    <2>3. QED
      BY <1>2, <2>1, <2>2, Unwritten DEF Absent
  <1>3. CASE target = Absent
    <2>1. files' = Append(files, NewFile(EmptyCatalog)) /\ Len(files) < MaxFiles
      BY <1>3 DEF WithOpened, MayOpen
    <2>2. Opened = Len(files) + 1
      BY <1>3 DEF Opened
    <2>3. QED
      BY <1>1, <1>3, <2>1, <2>2, AppendGrows, NewFiles DEF Absent
  <1>4. QED
    BY <1>2, <1>3

LEMMA LockedFile ==
    ASSUME FilesTypeOK, target \in 0..Len(files), MayOpen,
           files' = [WithOpened EXCEPT ![Opened].hot = FALSE]
    PROVE  /\ Grown /\ Opened \in 1..Len(files') /\ Opened # Absent
           /\ Opened = target \/ ( /\ target = Absent
                                   /\ files'[Opened].catalog = EmptyCatalog
                                   /\ files'[Opened].rows = {} )
           /\ target # Absent => Len(files') = Len(files)
           /\ Opened # target => Opened = Len(files) + 1
           /\ \A j \in 1..Len(files) :
                  files'[j].catalog = files[j].catalog /\ files'[j].rows = files[j].rows
           /\ Len(files') = Len(files) \/ (Len(files') = Len(files) + 1 /\ Opened = Len(files'))
  <1>1. Len(files) \in Nat
    BY DEF FilesTypeOK
  <1>2. CASE target # Absent
    <2>1. Opened = target /\ target \in 1..Len(files)
      BY <1>1, <1>2 DEF Opened, Absent
    <2>2. files' = [files EXCEPT ![target].hot = FALSE]
      BY <1>2, <2>1 DEF WithOpened
    <2>3. QED
      BY <1>2, <2>1, <2>2, JournalOnly DEF Absent
  <1>3. CASE target = Absent
    <2> DEFINE rec == NewFile(EmptyCatalog)
    <2>1. Opened = Len(files) + 1 /\ Len(files) < MaxFiles
      BY <1>3 DEF Opened, MayOpen
    <2>2. /\ Append(files, rec) \in Seq(FileRecord)
          /\ Append(files, rec)[Opened] = rec
          /\ Len(Append(files, rec)) = Len(files) + 1
      BY <2>1, NewFiles DEF FilesTypeOK
    <2>3. [rec EXCEPT !.hot = FALSE] = rec
      <3>1. /\ rec \in [catalog : Catalogs, rows : SUBSET Rows, hot : BOOLEAN]
            /\ rec.hot = FALSE
        BY NewFiles DEF FileRecord, NewFile
      <3>2. ASSUME NEW r \in [catalog : Catalogs, rows : SUBSET Rows, hot : BOOLEAN],
                   r.hot = FALSE
            PROVE  [r EXCEPT !.hot = FALSE] = r
        BY <3>2
      <3> HIDE DEF rec
      <3>3. QED
        BY <3>1, <3>2
    <2>4. ASSUME NEW g \in Seq(FileRecord), NEW n \in 1..Len(g)
          PROVE  [g EXCEPT ![n] = g[n]] = g
      OBVIOUS
    <2>5. [Append(files, rec) EXCEPT ![Opened].hot = FALSE] = Append(files, rec)
      <3> DEFINE g == Append(files, rec)
      <3>1. g \in Seq(FileRecord) /\ Opened \in 1..Len(g) /\ g[Opened] = rec
        BY <1>1, <2>1, <2>2
      <3> HIDE DEF g
      <3>2. [g EXCEPT ![Opened].hot = FALSE]
              = [g EXCEPT ![Opened] = [g[Opened] EXCEPT !.hot = FALSE]]
        OBVIOUS
      <3>3. [g EXCEPT ![Opened].hot = FALSE] = g
        BY <2>3, <2>4, <3>1, <3>2
      <3>4. QED
        BY <3>3 DEF g
    <2>6. files' = Append(files, rec)
      BY <1>3, <2>5 DEF WithOpened
    <2>7. /\ Grown /\ Len(files') = Len(files) + 1 /\ files'[Opened] = rec
          /\ \A i \in 1..Len(files) : files'[i] = files[i]
      BY <2>1, <2>6, AppendGrows, NewFiles
    <2>8. files'[Opened].catalog = EmptyCatalog /\ files'[Opened].rows = {}
      BY <2>7, NewFiles
    <2> HIDE DEF rec
    <2>9. QED
      BY <1>1, <1>3, <2>1, <2>7, <2>8 DEF Absent
  <1>4. QED
    BY <1>2, <1>3

\* A step of a process leaves what every other process has alone.
OthersKeep(p) ==
    \A q \in Procs : q # p =>
        /\ pc'[q] = pc[q] /\ op'[q] = op[q] /\ draft'[q] = draft[q]
        /\ conn'[q] = conn[q] /\ lock'[q] = lock[q] /\ pending'[q] = pending[q]
        /\ sig'[q] = sig[q]

LEMMA StoreKeeps ==
    ASSUME LocalInv, NEW p \in Procs, StoreStep(p)
    PROVE  OthersKeep(p) /\ backend' = backend
  <1> USE DEF LocalInv, PlainTypeOK, NamesOK, CtrlOK, HoldsOK, OthersKeep, Goto, Return,
              Refuse, Release, fileVars, lockVars
  <1>1. CASE StoreCalls(p)
    BY <1>1 DEF StoreCalls
  <1>2. CASE StoreInspects(p)
    BY <1>2 DEF StoreInspects
  <1>3. CASE StoreOpens(p)
    BY <1>3 DEF StoreOpens
  <1>4. CASE StoreReads(p)
    BY <1>4 DEF StoreReads
  <1>5. CASE StoreInserts(p)
    BY <1>5 DEF StoreInserts
  <1>6. CASE StoreInsertsAndCommits(p)
    BY <1>6 DEF StoreInsertsAndCommits
  <1>7. CASE StoreStatementFails(p)
    BY <1>7 DEF StoreStatementFails
  <1>8. CASE StoreCommits(p)
    BY <1>8 DEF StoreCommits
  <1>9. CASE StoreCommitFails(p)
    BY <1>9 DEF StoreCommitFails
  <1>10. CASE StoreCloses(p)
    BY <1>10 DEF StoreCloses
  <1>11. CASE StoreInsertTimesOut(p)
    BY <1>11 DEF StoreInsertTimesOut
  <1>12. QED
    BY <1>1, <1>2, <1>3, <1>4, <1>5, <1>6, <1>7, <1>8, <1>9, <1>10, <1>11
       DEF StoreStep

LEMMA CreateKeeps ==
    ASSUME LocalInv, NEW p \in Procs, CreateStep(p)
    PROVE  OthersKeep(p) /\ backend' = backend
  <1> USE DEF LocalInv, PlainTypeOK, NamesOK, CtrlOK, HoldsOK, OthersKeep, Goto, Return,
              Refuse, Release, fileVars, lockVars
  <1>1. CASE CreateLooks(p)
    BY <1>1 DEF CreateLooks
  <1>2. CASE CreateBuilds(p)
    BY <1>2 DEF CreateBuilds
  <1>3. CASE CreateAborts(p)
    BY <1>3 DEF CreateAborts
  <1>4. CASE CreateLinks(p)
    BY <1>4 DEF CreateLinks
  <1>5. CASE CreateBeaten(p)
    BY <1>5 DEF CreateBeaten
  <1>6. CASE CreateValidates(p)
    BY <1>6 DEF CreateValidates
  <1>7. CASE CreateWithdraws(p)
    BY <1>7 DEF CreateWithdraws
  <1>8. QED
    BY <1>1, <1>2, <1>3, <1>4, <1>5, <1>6, <1>7 DEF CreateStep

LEMMA AdminKeeps ==
    ASSUME LocalInv, NEW p \in Procs, AdminStep(p)
    PROVE  OthersKeep(p) /\ backend' = backend
  <1> USE DEF LocalInv, PlainTypeOK, NamesOK, CtrlOK, HoldsOK, OthersKeep, Goto, Return,
              Refuse, Release, fileVars, lockVars
  <1>1. CASE AdminCalls(p)
    BY <1>1 DEF AdminCalls
  <1>2. CASE AdminAssesses(p)
    BY <1>2 DEF AdminAssesses
  <1>3. CASE AdminSigns(p)
    BY <1>3 DEF AdminSigns
  <1>4. CASE AdminCopies(p)
    BY <1>4 DEF AdminCopies
  <1>5. CASE AdminCannotCopy(p)
    BY <1>5 DEF AdminCannotCopy
  <1>6. CASE AdminCopied(p)
    BY <1>6 DEF AdminCopied
  <1>7. CASE AdminPublishes(p)
    BY <1>7 DEF AdminPublishes
  <1>8. CASE AdminRejectsCopy(p)
    BY <1>8 DEF AdminRejectsCopy
  <1>9. CASE AdminUnlinks(p)
    BY <1>9 DEF AdminUnlinks
  <1>10. CASE AdminLocks(p)
    BY <1>10 DEF AdminLocks
  <1>11. CASE AdminCannotLock(p)
    BY <1>11 DEF AdminCannotLock
  <1>12. CASE AdminMigrates(p)
    BY <1>12 DEF AdminMigrates
  <1>13. CASE AdminFinishes(p)
    BY <1>13 DEF AdminFinishes
  <1>14. QED
    BY <1>1, <1>2, <1>3, <1>4, <1>5, <1>6, <1>7, <1>8, <1>9, <1>10, <1>11, <1>12,
       <1>13
       DEF AdminStep

LEMMA CrashKeeps ==
    ASSUME LocalInv, NEW p \in Procs, Crash(p)
    PROVE  OthersKeep(p) /\ backend' = backend
  BY DEF Crash, Release, Return, Goto, LocalInv, PlainTypeOK, NamesOK, CtrlOK, HoldsOK, OthersKeep

ProcStep(p) == StoreStep(p) \/ CreateStep(p) \/ AdminStep(p) \/ Crash(p)

LEMMA OthersStay ==
    ASSUME LocalInv, NEW p \in Procs, ProcStep(p)
    PROVE  OthersKeep(p) /\ backend' = backend
  BY StoreKeeps, CreateKeeps, AdminKeeps, CrashKeeps DEF ProcStep

-----------------------------------------------------------------------------
(* Files.                                                                   *)

\* The connection of a process that uses one.
LEMMA Connected ==
    ASSUME LocalInv, NEW p \in Procs,
           pc[p] \in {"execute", "commit", "copying", "migrate"}
    PROVE  conn[p] \in 1..Len(files) /\ conn[p] # Absent
  BY DEF LocalInv, PlainTypeOK, NamesOK, CtrlOK, HoldsOK, FilesTypeOK, PlaceOK, Absent

LEMMA StoreGrows ==
    ASSUME LocalInv, NEW p \in Procs, StoreStep(p)
    PROVE  Grown
  <1>1. FilesTypeOK /\ PlainTypeOK
    BY DEF LocalInv
  <1>2. CASE files' = files
    BY <1>1, <1>2, Unwritten
  <1>3. CASE StoreOpens(p)
    BY <1>1, <1>2, <1>3, OpenedFile DEF StoreOpens, PlainTypeOK, NamesOK, CtrlOK, HoldsOK, fileVars
  <1>4. CASE StoreReads(p) \/ StoreInserts(p)
    BY <1>1, <1>4, Connected, JournalOnly DEF StoreReads, StoreInserts, RollBackJournal
  <1>5. CASE StoreInsertsAndCommits(p)
    <2>1. {op[p]} \in SUBSET Rows
      BY <1>5 DEF StoreInsertsAndCommits
    <2>2. QED
      BY <1>1, <1>5, <2>1, Connected, RowsGrow DEF StoreInsertsAndCommits
  <1>6. CASE StoreCommits(p)
    <2>1. pending[p] \in SUBSET Rows
      BY <1>1 DEF PlainTypeOK, NamesOK, CtrlOK, HoldsOK
    <2>2. QED
      BY <1>1, <1>6, <2>1, Connected, RowsGrow DEF StoreCommits
  <1>7. QED
    BY <1>2, <1>3, <1>4, <1>5, <1>6
       DEF StoreStep, StoreCalls, StoreInspects, StoreStatementFails,
           StoreInsertTimesOut, StoreCommitFails, StoreCloses, fileVars

LEMMA CreateGrows ==
    ASSUME LocalInv, NEW p \in Procs, CreateStep(p)
    PROVE  Grown
  <1>1. FilesTypeOK
    BY DEF LocalInv
  <1>2. CASE files' = files
    BY <1>1, <1>2, Unwritten
  <1>3. CASE CreateBuilds(p)
    BY <1>1, <1>3, AppendGrows, NewFiles DEF CreateBuilds
  <1>4. QED
    BY <1>2, <1>3
       DEF CreateStep, CreateLooks, CreateAborts, CreateLinks, CreateBeaten,
           CreateValidates, CreateWithdraws, fileVars

LEMMA AdminGrows ==
    ASSUME LocalInv, NEW p \in Procs, AdminStep(p)
    PROVE  Grown
  <1>1. FilesTypeOK /\ PlainTypeOK
    BY DEF LocalInv
  <1>2. CASE files' = files
    BY <1>1, <1>2, Unwritten
  <1>3. CASE AdminCopied(p)
    <2>1. conn[p] \in 1..Len(files)
      BY <1>3, Connected DEF AdminCopied
    <2>2. files[conn[p]] \in FileRecord
      BY <1>1, <2>1 DEF FilesTypeOK
    <2>3. QED
      BY <1>1, <1>2, <1>3, <2>2, AppendGrows DEF AdminCopied
  <1>4. CASE AdminLocks(p)
    BY <1>1, <1>4, LockedFile DEF AdminLocks, PlainTypeOK, NamesOK, CtrlOK, HoldsOK
  <1>5. QED
    BY <1>2, <1>3, <1>4
       DEF AdminStep, AdminCalls, AdminAssesses, AdminSigns, AdminCopies,
           AdminCannotCopy, AdminPublishes, AdminRejectsCopy, AdminUnlinks,
           AdminCannotLock, AdminMigrates, AdminFinishes, fileVars

LEMMA CrashGrows ==
    ASSUME LocalInv, NEW p \in Procs, Crash(p)
    PROVE  Grown
  <1>1. FilesTypeOK /\ pending[p] \in SUBSET Rows
    BY DEF LocalInv, PlainTypeOK, NamesOK, CtrlOK, HoldsOK
  <1>2. CASE files' = files
    BY <1>1, <1>2, Unwritten
  <1>3. CASE pc[p] = "commit" /\ files' = [files EXCEPT ![conn[p]].rows = @ \cup pending[p]]
    BY <1>1, <1>3, Connected, RowsGrow
  <1>4. CASE pc[p] = "commit" /\ files' = [files EXCEPT ![conn[p]].hot = TRUE]
    BY <1>1, <1>4, Connected, JournalOnly
  <1>5. QED
    BY <1>2, <1>3, <1>4 DEF Crash

LEMMA FilesGrow ==
    ASSUME LocalInv, NEW p \in Procs, ProcStep(p)
    PROVE  Grown
  BY StoreGrows, CreateGrows, AdminGrows, CrashGrows DEF ProcStep

-----------------------------------------------------------------------------
(* Types: control.                                                          *)

LEMMA ReturnCtrl ==
    ASSUME CtrlOK, NEW p \in Procs,
           NEW what \in {"read", "stored", "refused", "crashed", "done"}, Return(p, what),
           what \in {"read", "done"} => op[p] \notin Rows
    PROVE  CtrlOK'
  <1>1. pc' \in [Procs -> Places] /\ op' \in [Procs -> Rows \cup AdminOps \cup {Query, "none"}]
    BY DEF CtrlOK, Return, Goto, Places
  <1>2. sig' = [q \in Procs |-> sig'[q]]
    BY DEF CtrlOK, Return
  <1>3. answer' \in [Rows -> {"unused", "open", "stored", "refused", "crashed"}]
    BY DEF CtrlOK, Return, Answer
  <1>4. QED
    BY <1>1, <1>2, <1>3 DEF CtrlOK

LEMMA RefuseCtrl ==
    ASSUME CtrlOK, NEW p \in Procs, Refuse(p)
    PROVE  CtrlOK'
  BY ReturnCtrl DEF Refuse

LEMMA GotoCtrl ==
    ASSUME CtrlOK, NEW p \in Procs, NEW at \in Places, Goto(p, at),
           UNCHANGED <<op, sig, answer>>
    PROVE  CtrlOK'
  BY DEF CtrlOK, Goto

LEMMA OpKinds ==
    ASSUME LocalInv, NEW p \in Procs
    PROVE  /\ Query \notin Rows /\ "none" \notin Rows
           /\ p \in Admins => op[p] \notin Rows
           /\ p \in Admins <=> p \notin Stores
  BY LocalAssumption DEF LocalInv, PlaceOK, Procs

LEMMA StoreCtrl ==
    ASSUME LocalInv, NEW p \in Procs, StoreStep(p)
    PROVE  CtrlOK'
  <1>0. CtrlOK /\ Query \notin Rows /\ (p \in Admins => op[p] \notin Rows)
        /\ (p \in Admins <=> p \notin Stores)
    BY OpKinds DEF LocalInv, PlainTypeOK
  <1> USE DEF Places
  <1>1. CASE StoreCalls(p)
    <2>1. /\ pc' \in [Procs -> Places]
          /\ op' \in [Procs -> Rows \cup AdminOps \cup {Query, "none"}]
          /\ sig' = sig
      BY <1>0, <1>1 DEF StoreCalls, CtrlOK, Goto, Places
    <2>2. answer' \in [Rows -> {"unused", "open", "stored", "refused", "crashed"}]
      BY <1>0, <1>1 DEF StoreCalls, CtrlOK
    <2>3. QED
      BY <1>0, <2>1, <2>2 DEF CtrlOK
  <1>2. CASE StoreInspects(p)
    BY <1>0, <1>2, ReturnCtrl, RefuseCtrl, GotoCtrl DEF StoreInspects
  <1>3. CASE StoreOpens(p)
    BY <1>0, <1>3, ReturnCtrl, RefuseCtrl, GotoCtrl DEF StoreOpens
  <1>4. CASE StoreReads(p)
    BY <1>0, <1>4, ReturnCtrl, RefuseCtrl, GotoCtrl DEF StoreReads
  <1>5. CASE StoreInserts(p)
    BY <1>0, <1>5, ReturnCtrl, RefuseCtrl, GotoCtrl DEF StoreInserts
  <1>6. CASE StoreInsertsAndCommits(p)
    BY <1>0, <1>6, ReturnCtrl, RefuseCtrl, GotoCtrl DEF StoreInsertsAndCommits
  <1>7. CASE StoreStatementFails(p)
    BY <1>0, <1>7, ReturnCtrl, RefuseCtrl, GotoCtrl DEF StoreStatementFails
  <1>8. CASE StoreCommits(p)
    BY <1>0, <1>8, ReturnCtrl, RefuseCtrl, GotoCtrl DEF StoreCommits
  <1>9. CASE StoreCommitFails(p)
    BY <1>0, <1>9, ReturnCtrl, RefuseCtrl, GotoCtrl DEF StoreCommitFails
  <1>10. CASE StoreCloses(p)
    BY <1>0, <1>10 DEF StoreCloses, CtrlOK
  <1>11. CASE StoreInsertTimesOut(p)
    BY <1>0, <1>11, ReturnCtrl, RefuseCtrl, GotoCtrl DEF StoreInsertTimesOut
  <1>12. QED
    BY <1>1, <1>2, <1>3, <1>4, <1>5, <1>6, <1>7, <1>8, <1>9, <1>10, <1>11
       DEF StoreStep

LEMMA CreateCtrl ==
    ASSUME LocalInv, NEW p \in Procs, CreateStep(p)
    PROVE  CtrlOK'
  <1>0. CtrlOK /\ Query \notin Rows /\ (p \in Admins => op[p] \notin Rows)
        /\ (p \in Admins <=> p \notin Stores)
    BY OpKinds DEF LocalInv, PlainTypeOK
  <1> USE DEF Places
  <1>1. CASE CreateLooks(p)
    BY <1>0, <1>1, ReturnCtrl, RefuseCtrl, GotoCtrl DEF CreateLooks
  <1>2. CASE CreateBuilds(p)
    BY <1>0, <1>2, ReturnCtrl, RefuseCtrl, GotoCtrl DEF CreateBuilds
  <1>3. CASE CreateAborts(p)
    BY <1>0, <1>3, ReturnCtrl, RefuseCtrl, GotoCtrl DEF CreateAborts
  <1>4. CASE CreateLinks(p)
    BY <1>0, <1>4, ReturnCtrl, RefuseCtrl, GotoCtrl DEF CreateLinks
  <1>5. CASE CreateBeaten(p)
    BY <1>0, <1>5, ReturnCtrl, RefuseCtrl, GotoCtrl DEF CreateBeaten
  <1>6. CASE CreateValidates(p)
    BY <1>0, <1>6, ReturnCtrl, RefuseCtrl, GotoCtrl DEF CreateValidates
  <1>7. CASE CreateWithdraws(p)
    BY <1>0, <1>7, ReturnCtrl, RefuseCtrl, GotoCtrl DEF CreateWithdraws
  <1>8. QED
    BY <1>1, <1>2, <1>3, <1>4, <1>5, <1>6, <1>7 DEF CreateStep


LEMMA AdminCtrl ==
    ASSUME LocalInv, NEW p \in Procs, p \in Admins, AdminStep(p)
    PROVE  CtrlOK'
  <1>0. CtrlOK /\ Query \notin Rows /\ (p \in Admins => op[p] \notin Rows)
        /\ (p \in Admins <=> p \notin Stores)
    BY OpKinds DEF LocalInv, PlainTypeOK
  <1> USE DEF Places
  <1>1. CASE AdminCalls(p)
    BY <1>0, <1>1 DEF AdminCalls, CtrlOK, Goto, Places
  <1>2. CASE AdminAssesses(p)
    BY <1>0, <1>2, ReturnCtrl, RefuseCtrl, GotoCtrl DEF AdminAssesses
  <1>3. CASE AdminSigns(p)
    <2>1. CASE sig' = [sig EXCEPT ![p] = Signature(target)]
      BY <1>0, <1>3, <2>1, RefuseCtrl DEF AdminSigns, CtrlOK, Goto, Places
    <2>2. CASE Refuse(p)
      BY <1>0, <2>2, RefuseCtrl
    <2>3. QED
      BY <1>3, <2>1, <2>2 DEF AdminSigns
  <1>4. CASE AdminCopies(p)
    BY <1>0, <1>4, ReturnCtrl, RefuseCtrl, GotoCtrl DEF AdminCopies
  <1>5. CASE AdminCannotCopy(p)
    BY <1>0, <1>5, ReturnCtrl, RefuseCtrl, GotoCtrl DEF AdminCannotCopy
  <1>6. CASE AdminCopied(p)
    BY <1>0, <1>6, ReturnCtrl, RefuseCtrl, GotoCtrl DEF AdminCopied
  <1>7. CASE AdminPublishes(p)
    BY <1>0, <1>7, ReturnCtrl, RefuseCtrl, GotoCtrl DEF AdminPublishes
  <1>8. CASE AdminRejectsCopy(p)
    BY <1>0, <1>8, ReturnCtrl, RefuseCtrl, GotoCtrl DEF AdminRejectsCopy
  <1>9. CASE AdminUnlinks(p)
    BY <1>0, <1>9, ReturnCtrl, RefuseCtrl, GotoCtrl DEF AdminUnlinks
  <1>10. CASE AdminLocks(p)
    BY <1>0, <1>10, ReturnCtrl, RefuseCtrl, GotoCtrl DEF AdminLocks
  <1>11. CASE AdminCannotLock(p)
    BY <1>0, <1>11, ReturnCtrl, RefuseCtrl, GotoCtrl DEF AdminCannotLock
  <1>12. CASE AdminMigrates(p)
    BY <1>0, <1>12, ReturnCtrl, RefuseCtrl, GotoCtrl DEF AdminMigrates
  <1>13. CASE AdminFinishes(p)
    BY <1>0, <1>13, ReturnCtrl, RefuseCtrl, GotoCtrl DEF AdminFinishes
  <1>14. QED
    BY <1>1, <1>2, <1>3, <1>4, <1>5, <1>6, <1>7, <1>8, <1>9, <1>10, <1>11, <1>12,
       <1>13 DEF AdminStep

LEMMA CrashCtrl ==
    ASSUME LocalInv, NEW p \in Procs, Crash(p)
    PROVE  CtrlOK'
  BY ReturnCtrl DEF Crash, LocalInv, PlainTypeOK

-----------------------------------------------------------------------------
(* Types: what a process holds, and the names of files.                     *)

LEMMA StoreHolds ==
    ASSUME LocalInv, NEW p \in Procs, StoreStep(p)
    PROVE  HoldsOK'
  <1>0. /\ HoldsOK /\ NamesOK
        /\ Len(files) \in Nat /\ Len(files') \in Nat /\ Len(files) <= Len(files')
        /\ 0..Len(files) \subseteq 0..Len(files') /\ 1..Len(files) \subseteq 1..Len(files')
        /\ Absent \in 0..Len(files') /\ {target} \ {Absent} \subseteq 1..Len(files)
    BY FilesGrow DEF ProcStep, LocalInv, PlainTypeOK, NamesOK, FilesTypeOK, Grown, Absent
  <1> USE LocalAssumption DEF HoldsOK, Locks, NamesOK, Release, fileVars, lockVars
  <1>1. CASE StoreCalls(p)
    BY <1>0, <1>1 DEF StoreCalls
  <1>2. CASE StoreInspects(p)
    BY <1>0, <1>2 DEF StoreInspects
  <1>3. CASE StoreOpens(p)
    <2>1. CASE MayOpen /\ files' = WithOpened
      <3>1. Opened \in 0..Len(files')
        BY <1>0, <2>1, OpenedFile DEF LocalInv
      <3>2. /\ draft' \in [Procs -> 0..Len(files')]
            /\ pending' \in [Procs -> SUBSET Rows]
        BY <1>0, <1>3 DEF StoreOpens
      <3>3. conn' \in [Procs -> 0..Len(files')]
        <4>1. conn' = conn \/ conn' = [conn EXCEPT ![p] = Opened]
          BY <1>3 DEF StoreOpens
        <4>2. QED
          BY <1>0, <3>1, <4>1
      <3>4. lock' \in [Procs -> Locks]
        BY <1>0, <1>3 DEF StoreOpens
      <3>5. QED
        BY <3>2, <3>3, <3>4
    <2>2. CASE UNCHANGED <<fileVars, conn, lock>>
      BY <1>0, <1>3, <2>2 DEF StoreOpens
    <2>3. QED
      BY <1>3, <2>1, <2>2 DEF StoreOpens
  <1>4. CASE StoreReads(p)
    BY <1>0, <1>4 DEF StoreReads
  <1>5. CASE StoreInserts(p)
    BY <1>0, <1>5 DEF StoreInserts
  <1>6. CASE StoreInsertsAndCommits(p)
    BY <1>0, <1>6 DEF StoreInsertsAndCommits
  <1>7. CASE StoreStatementFails(p)
    BY <1>0, <1>7 DEF StoreStatementFails
  <1>8. CASE StoreCommits(p)
    BY <1>0, <1>8 DEF StoreCommits
  <1>9. CASE StoreCommitFails(p)
    BY <1>0, <1>9 DEF StoreCommitFails
  <1>10. CASE StoreCloses(p)
    BY <1>0, <1>10 DEF StoreCloses
  <1>11. CASE StoreInsertTimesOut(p)
    BY <1>0, <1>11 DEF StoreInsertTimesOut
  <1>12. QED
    BY <1>1, <1>2, <1>3, <1>4, <1>5, <1>6, <1>7, <1>8, <1>9, <1>10, <1>11
       DEF StoreStep

LEMMA CreateHolds ==
    ASSUME LocalInv, NEW p \in Procs, CreateStep(p)
    PROVE  HoldsOK'
  <1>0. /\ HoldsOK /\ NamesOK
        /\ Len(files) \in Nat /\ Len(files') \in Nat /\ Len(files) <= Len(files')
        /\ 0..Len(files) \subseteq 0..Len(files') /\ 1..Len(files) \subseteq 1..Len(files')
        /\ Absent \in 0..Len(files') /\ {target} \ {Absent} \subseteq 1..Len(files)
    BY FilesGrow DEF ProcStep, LocalInv, PlainTypeOK, NamesOK, FilesTypeOK, Grown, Absent
  <1> USE LocalAssumption DEF HoldsOK, Locks, NamesOK, Release, fileVars, lockVars
  <1>1. CASE CreateLooks(p)
    BY <1>0, <1>1 DEF CreateLooks
  <1>2. CASE CreateBuilds(p)
    <2>1. Len(files') = Len(files) + 1
      BY <1>2, AppendGrows, NewFiles DEF CreateBuilds, LocalInv
    <2>2. QED
      BY <1>0, <1>2, <2>1 DEF CreateBuilds
  <1>3. CASE CreateAborts(p)
    BY <1>0, <1>3 DEF CreateAborts
  <1>4. CASE CreateLinks(p)
    BY <1>0, <1>4 DEF CreateLinks
  <1>5. CASE CreateBeaten(p)
    BY <1>0, <1>5 DEF CreateBeaten
  <1>6. CASE CreateValidates(p)
    BY <1>0, <1>6 DEF CreateValidates
  <1>7. CASE CreateWithdraws(p)
    BY <1>0, <1>7 DEF CreateWithdraws
  <1>8. QED
    BY <1>1, <1>2, <1>3, <1>4, <1>5, <1>6, <1>7 DEF CreateStep

LEMMA AdminHolds ==
    ASSUME LocalInv, NEW p \in Procs, AdminStep(p)
    PROVE  HoldsOK'
  <1>0. /\ HoldsOK /\ NamesOK
        /\ Len(files) \in Nat /\ Len(files') \in Nat /\ Len(files) <= Len(files')
        /\ 0..Len(files) \subseteq 0..Len(files') /\ 1..Len(files) \subseteq 1..Len(files')
        /\ Absent \in 0..Len(files') /\ {target} \ {Absent} \subseteq 1..Len(files)
    BY FilesGrow DEF ProcStep, LocalInv, PlainTypeOK, NamesOK, FilesTypeOK, Grown, Absent
  <1> USE LocalAssumption DEF HoldsOK, Locks, NamesOK, Release, fileVars, lockVars
  <1>1. CASE AdminCalls(p)
    BY <1>0, <1>1 DEF AdminCalls
  <1>2. CASE AdminAssesses(p)
    BY <1>0, <1>2 DEF AdminAssesses
  <1>3. CASE AdminSigns(p)
    BY <1>0, <1>3 DEF AdminSigns
  <1>4. CASE AdminCopies(p)
    BY <1>0, <1>4 DEF AdminCopies
  <1>5. CASE AdminCannotCopy(p)
    BY <1>0, <1>5 DEF AdminCannotCopy
  <1>6. CASE AdminCopied(p)
    <2>1. files[conn[p]] \in FileRecord
      BY <1>6, Connected DEF AdminCopied, FilesTypeOK, LocalInv
    <2>2. Len(files) < MaxFiles => Len(files') = Len(files) + 1
      BY <1>6, <2>1, AppendGrows DEF AdminCopied, LocalInv
    <2>3. /\ conn' = [conn EXCEPT ![p] = Absent] /\ lock' = [lock EXCEPT ![p] = "none"]
          /\ pending' = [pending EXCEPT ![p] = {}]
          /\ target' = target /\ backup' = backup /\ backend' = backend
          /\ withdrawn' = withdrawn /\ faults' = faults
      BY <1>6 DEF AdminCopied, Release
    <2>4. /\ conn' \in [Procs -> 0..Len(files')]
          /\ lock' \in [Procs -> Locks]
          /\ pending' \in [Procs -> SUBSET Rows]
      BY <1>0, <2>3 DEF Locks
    <2>5. draft' \in [Procs -> 0..Len(files')]
      <3>1. CASE Len(files) < MaxFiles
        <4>1. draft' = [draft EXCEPT ![p] = Len(files) + 1] /\ Len(files) + 1 \in 0..Len(files')
          BY <1>0, <1>6, <2>2, <3>1 DEF AdminCopied
        <4>2. QED
          BY <1>0, <4>1
      <3>2. CASE ~(Len(files) < MaxFiles)
        BY <1>0, <1>6, <3>2 DEF AdminCopied
      <3>3. QED
        BY <3>1, <3>2
    <2>6. QED
      BY <1>0, <2>3, <2>4, <2>5
  <1>7. CASE AdminPublishes(p)
    BY <1>0, <1>7 DEF AdminPublishes
  <1>8. CASE AdminRejectsCopy(p)
    BY <1>0, <1>8 DEF AdminRejectsCopy
  <1>9. CASE AdminUnlinks(p)
    BY <1>0, <1>9 DEF AdminUnlinks
  <1>10. CASE AdminLocks(p)
    <2>1. Opened \in 0..Len(files')
      BY <1>0, <1>10, LockedFile DEF AdminLocks, LocalInv
    <2>2. QED
      BY <1>0, <1>10, <2>1 DEF AdminLocks
  <1>11. CASE AdminCannotLock(p)
    BY <1>0, <1>11 DEF AdminCannotLock
  <1>12. CASE AdminMigrates(p)
    BY <1>0, <1>12 DEF AdminMigrates
  <1>13. CASE AdminFinishes(p)
    BY <1>0, <1>13 DEF AdminFinishes
  <1>14. QED
    BY <1>1, <1>2, <1>3, <1>4, <1>5, <1>6, <1>7, <1>8, <1>9, <1>10, <1>11, <1>12,
       <1>13 DEF AdminStep

LEMMA StoreNames ==
    ASSUME LocalInv, NEW p \in Procs, StoreStep(p)
    PROVE  NamesOK'
  <1>0. /\ HoldsOK /\ NamesOK
        /\ Len(files) \in Nat /\ Len(files') \in Nat /\ Len(files) <= Len(files')
        /\ 0..Len(files) \subseteq 0..Len(files') /\ 1..Len(files) \subseteq 1..Len(files')
        /\ Absent \in 0..Len(files') /\ {target} \ {Absent} \subseteq 1..Len(files)
    BY FilesGrow DEF ProcStep, LocalInv, PlainTypeOK, NamesOK, FilesTypeOK, Grown, Absent
  <1> USE LocalAssumption DEF HoldsOK, NamesOK, Locks, Fault, fileVars
  <1>1. CASE StoreCalls(p)
    BY <1>0, <1>1 DEF StoreCalls
  <1>2. CASE StoreInspects(p)
    BY <1>0, <1>2 DEF StoreInspects
  <1>3. CASE StoreOpens(p)
    <2>1. CASE MayOpen /\ files' = WithOpened
      <3>1. Opened \in 0..Len(files')
        BY <1>0, <2>1, OpenedFile DEF LocalInv
      <3>2. QED
        BY <1>0, <1>3, <2>1, <3>1 DEF StoreOpens
    <2>2. CASE UNCHANGED <<fileVars, conn, lock>>
      BY <1>0, <1>3, <2>2 DEF StoreOpens
    <2>3. QED
      BY <1>3, <2>1, <2>2 DEF StoreOpens
  <1>4. CASE StoreReads(p)
    BY <1>0, <1>4 DEF StoreReads
  <1>5. CASE StoreInserts(p)
    BY <1>0, <1>5 DEF StoreInserts
  <1>6. CASE StoreInsertsAndCommits(p)
    BY <1>0, <1>6 DEF StoreInsertsAndCommits
  <1>7. CASE StoreStatementFails(p)
    BY <1>0, <1>7 DEF StoreStatementFails
  <1>8. CASE StoreCommits(p)
    BY <1>0, <1>8 DEF StoreCommits
  <1>9. CASE StoreCommitFails(p)
    BY <1>0, <1>9 DEF StoreCommitFails
  <1>10. CASE StoreCloses(p)
    BY <1>0, <1>10 DEF StoreCloses
  <1>11. CASE StoreInsertTimesOut(p)
    BY <1>0, <1>11 DEF StoreInsertTimesOut
  <1>12. QED
    BY <1>1, <1>2, <1>3, <1>4, <1>5, <1>6, <1>7, <1>8, <1>9, <1>10, <1>11
       DEF StoreStep

LEMMA CreateNames ==
    ASSUME LocalInv, NEW p \in Procs, CreateStep(p)
    PROVE  NamesOK'
  <1>0. /\ HoldsOK /\ NamesOK
        /\ Len(files) \in Nat /\ Len(files') \in Nat /\ Len(files) <= Len(files')
        /\ 0..Len(files) \subseteq 0..Len(files') /\ 1..Len(files) \subseteq 1..Len(files')
        /\ Absent \in 0..Len(files') /\ {target} \ {Absent} \subseteq 1..Len(files)
    BY FilesGrow DEF ProcStep, LocalInv, PlainTypeOK, NamesOK, FilesTypeOK, Grown, Absent
  <1> USE LocalAssumption DEF HoldsOK, NamesOK, Locks, Fault, fileVars
  <1>1. CASE CreateLooks(p)
    BY <1>0, <1>1 DEF CreateLooks
  <1>2. CASE CreateBuilds(p)
    <2>1. Len(files') = Len(files) + 1
      BY <1>2, AppendGrows, NewFiles DEF CreateBuilds, LocalInv
    <2>2. QED
      BY <1>0, <1>2, <2>1 DEF CreateBuilds
  <1>3. CASE CreateAborts(p)
    BY <1>0, <1>3 DEF CreateAborts
  <1>4. CASE CreateLinks(p)
    BY <1>0, <1>4 DEF CreateLinks
  <1>5. CASE CreateBeaten(p)
    BY <1>0, <1>5 DEF CreateBeaten
  <1>6. CASE CreateValidates(p)
    BY <1>0, <1>6 DEF CreateValidates
  <1>7. CASE CreateWithdraws(p)
    BY <1>0, <1>7 DEF CreateWithdraws
  <1>8. QED
    BY <1>1, <1>2, <1>3, <1>4, <1>5, <1>6, <1>7 DEF CreateStep

LEMMA AdminNames ==
    ASSUME LocalInv, NEW p \in Procs, AdminStep(p)
    PROVE  NamesOK'
  <1>0. /\ HoldsOK /\ NamesOK
        /\ Len(files) \in Nat /\ Len(files') \in Nat /\ Len(files) <= Len(files')
        /\ 0..Len(files) \subseteq 0..Len(files') /\ 1..Len(files) \subseteq 1..Len(files')
        /\ Absent \in 0..Len(files') /\ {target} \ {Absent} \subseteq 1..Len(files)
    BY FilesGrow DEF ProcStep, LocalInv, PlainTypeOK, NamesOK, FilesTypeOK, Grown, Absent
  <1> USE LocalAssumption DEF HoldsOK, NamesOK, Locks, Fault, fileVars
  <1>1. CASE AdminCalls(p)
    BY <1>0, <1>1 DEF AdminCalls
  <1>2. CASE AdminAssesses(p)
    BY <1>0, <1>2 DEF AdminAssesses
  <1>3. CASE AdminSigns(p)
    BY <1>0, <1>3 DEF AdminSigns
  <1>4. CASE AdminCopies(p)
    BY <1>0, <1>4 DEF AdminCopies
  <1>5. CASE AdminCannotCopy(p)
    BY <1>0, <1>5 DEF AdminCannotCopy
  <1>6. CASE AdminCopied(p)
    <2>1. files[conn[p]] \in FileRecord
      BY <1>6, Connected DEF AdminCopied, FilesTypeOK, LocalInv
    <2>2. Len(files) < MaxFiles => Len(files') = Len(files) + 1
      BY <1>6, <2>1, AppendGrows DEF AdminCopied, LocalInv
    <2>3. /\ conn' = [conn EXCEPT ![p] = Absent] /\ lock' = [lock EXCEPT ![p] = "none"]
          /\ pending' = [pending EXCEPT ![p] = {}]
          /\ target' = target /\ backup' = backup /\ backend' = backend
          /\ withdrawn' = withdrawn /\ faults' = faults
      BY <1>6 DEF AdminCopied, Release
    <2>4. /\ conn' \in [Procs -> 0..Len(files')]
          /\ lock' \in [Procs -> Locks]
          /\ pending' \in [Procs -> SUBSET Rows]
      BY <1>0, <2>3 DEF Locks
    <2>5. draft' \in [Procs -> 0..Len(files')]
      <3>1. CASE Len(files) < MaxFiles
        <4>1. draft' = [draft EXCEPT ![p] = Len(files) + 1] /\ Len(files) + 1 \in 0..Len(files')
          BY <1>0, <1>6, <2>2, <3>1 DEF AdminCopied
        <4>2. QED
          BY <1>0, <4>1
      <3>2. CASE ~(Len(files) < MaxFiles)
        BY <1>0, <1>6, <3>2 DEF AdminCopied
      <3>3. QED
        BY <3>1, <3>2
    <2>6. QED
      BY <1>0, <2>3, <2>4, <2>5
  <1>7. CASE AdminPublishes(p)
    BY <1>0, <1>7 DEF AdminPublishes
  <1>8. CASE AdminRejectsCopy(p)
    BY <1>0, <1>8 DEF AdminRejectsCopy
  <1>9. CASE AdminUnlinks(p)
    BY <1>0, <1>9 DEF AdminUnlinks
  <1>10. CASE AdminLocks(p)
    <2>1. Opened \in 0..Len(files')
      BY <1>0, <1>10, LockedFile DEF AdminLocks, LocalInv
    <2>2. QED
      BY <1>0, <1>10, <2>1 DEF AdminLocks
  <1>11. CASE AdminCannotLock(p)
    BY <1>0, <1>11 DEF AdminCannotLock
  <1>12. CASE AdminMigrates(p)
    BY <1>0, <1>12 DEF AdminMigrates
  <1>13. CASE AdminFinishes(p)
    BY <1>0, <1>13 DEF AdminFinishes
  <1>14. QED
    BY <1>1, <1>2, <1>3, <1>4, <1>5, <1>6, <1>7, <1>8, <1>9, <1>10, <1>11, <1>12,
       <1>13 DEF AdminStep

LEMMA CrashHolds ==
    ASSUME LocalInv, NEW p \in Procs, Crash(p)
    PROVE  HoldsOK' /\ NamesOK'
  <1>0. /\ HoldsOK /\ NamesOK
        /\ Len(files) \in Nat /\ Len(files') \in Nat /\ Len(files) <= Len(files')
        /\ 0..Len(files) \subseteq 0..Len(files') /\ 1..Len(files) \subseteq 1..Len(files')
        /\ Absent \in 0..Len(files') /\ {target} \ {Absent} \subseteq 1..Len(files)
    BY FilesGrow DEF ProcStep, LocalInv, PlainTypeOK, NamesOK, FilesTypeOK, Grown, Absent
  <1>1. HoldsOK'
    BY <1>0 DEF Crash, HoldsOK, Locks, Release
  <1>2. NamesOK'
    BY <1>0, LocalAssumption DEF Crash, NamesOK, Fault
  <1>3. QED
    BY <1>1, <1>2

LEMMA PlainTypeStep ==
    ASSUME LocalInv, NEW p \in Procs,
           StoreStep(p) \/ CreateStep(p) \/ (p \in Admins /\ AdminStep(p)) \/ Crash(p)
    PROVE  PlainTypeOK' /\ FilesTypeOK'
  <1>1. CtrlOK'
    BY StoreCtrl, CreateCtrl, AdminCtrl, CrashCtrl
  <1>2. HoldsOK'
    BY StoreHolds, CreateHolds, AdminHolds, CrashHolds
  <1>3. NamesOK'
    BY StoreNames, CreateNames, AdminNames, CrashHolds
  <1>4. backend' = backend /\ Grown
    BY OthersStay, FilesGrow DEF ProcStep
  <1>5. FilesTypeOK'
    <2>1. Catalogs' = Catalogs
      BY <1>4 DEF Catalogs
    <2>2. FileRecord' = FileRecord
      BY <2>1 DEF FileRecord
    <2>3. QED
      BY <1>4, <2>2 DEF Grown, FilesTypeOK
  <1>6. QED
    BY <1>1, <1>2, <1>3, <1>5 DEF PlainTypeOK

-----------------------------------------------------------------------------
(* What a place of a process says.                                          *)

LEMMA PlaceFrame ==
    ASSUME NEW p \in Procs, OthersKeep(p), backend' = backend, NEW q \in Procs, q # p,
           PlaceOK(q)
    PROVE  PlaceOK(q)'
  BY DEF PlaceOK, OthersKeep

Home(p) == IF p \in Admins THEN "over" ELSE "idle"

LEMMA OpenedNamed ==
    ASSUME FilesTypeOK, target \in 0..Len(files)
    PROVE  Opened # Absent
  BY DEF FilesTypeOK, Opened, Absent

LEMMA StorePlace ==
    ASSUME LocalInv, NEW p \in Procs, p \in Stores, StoreStep(p)
    PROVE  PlaceOK(p)'
  <1>0. /\ CtrlOK /\ HoldsOK /\ PlaceOK(p) /\ backend' = backend
        /\ Len(files) \in Nat
        /\ (p \in Admins <=> p \notin Stores)
        /\ Rows \cap (AdminOps \cup {Query, "none"}) = {}
        /\ target \in 0..Len(files)
    BY OthersStay, OpKinds, LocalAssumption
       DEF ProcStep, LocalInv, PlainTypeOK, FilesTypeOK, NamesOK
  <1>1. CASE StoreCalls(p)
    <2>1. /\ pc[p] = "idle"
          /\ op'[p] \in Rows \cup {Query}
          /\ pc'[p] = IF conn[p] # Absent THEN "execute"
                      ELSE IF target # Absent THEN "inspect" ELSE "create"
          /\ draft'[p] = draft[p] /\ conn'[p] = conn[p] /\ lock'[p] = lock[p]
          /\ pending'[p] = pending[p]
      BY <1>0, <1>1 DEF StoreCalls, Goto, Return, Refuse, Release, Home,
             HoldsOK, CtrlOK, fileVars, lockVars, CanInspect
    <2>2. QED
      BY <1>0, <2>1 DEF PlaceOK, StorePlaces, AdminPlaces, Backing, AdminOps, Home, Absent
  <1>2. CASE StoreInspects(p)
    <2>1. /\ pc[p] = "inspect"
          /\ \/ /\ pc'[p] = "open" /\ op'[p] = op[p] /\ draft'[p] = draft[p]
                /\ conn'[p] = conn[p] /\ lock'[p] = lock[p] /\ pending'[p] = pending[p]
             \/ /\ pc'[p] = Home(p) /\ op'[p] = "none" /\ draft'[p] = draft[p]
                /\ conn'[p] = conn[p] /\ lock'[p] = lock[p] /\ pending'[p] = pending[p]
      BY <1>0, <1>2 DEF StoreInspects, Goto, Return, Refuse, Release, Home,
             HoldsOK, CtrlOK, fileVars, lockVars, CanInspect
    <2>2. QED
      BY <1>0, <2>1 DEF PlaceOK, StorePlaces, AdminPlaces, Backing, AdminOps, Home, Absent
  <1>3. CASE StoreOpens(p)
    <2>1. /\ pc[p] = "open"
          /\ \/ /\ pc'[p] = Home(p) /\ op'[p] = "none" /\ draft'[p] = draft[p]
                /\ conn'[p] = conn[p] /\ lock'[p] = lock[p] /\ pending'[p] = pending[p]
             \/ /\ conn'[p] # Absent
                /\ pc'[p] = "execute" /\ op'[p] = op[p] /\ draft'[p] = draft[p]
                /\ lock'[p] = IF backend = "duckdb" THEN "exclusive" ELSE "none"
                /\ pending'[p] = pending[p]
      <3>1. Opened # Absent
        BY OpenedNamed DEF LocalInv, PlainTypeOK, NamesOK
      <3>2. QED
        BY <1>0, <1>3, <3>1 DEF StoreOpens, Goto, Return, Refuse, Release, Home,
               HoldsOK, CtrlOK, fileVars, lockVars
    <2>2. QED
      BY <1>0, <2>1 DEF PlaceOK, StorePlaces, AdminPlaces, Backing, AdminOps, Home, Absent
  <1>4. CASE StoreReads(p)
    <2>1. /\ pc[p] = "execute"
          /\ pc'[p] = Home(p) /\ op'[p] = "none" /\ draft'[p] = draft[p]
          /\ conn'[p] = conn[p] /\ pending'[p] = pending[p]
          /\ lock'[p] = IF lock[p] = "deferred" THEN "shared" ELSE lock[p]
      BY <1>0, <1>4 DEF StoreReads, Goto, Return, Refuse, Release, Home,
             HoldsOK, CtrlOK, fileVars, lockVars, CanInspect
    <2>2. QED
      BY <1>0, <2>1 DEF PlaceOK, StorePlaces, AdminPlaces, Backing, AdminOps, Home, Absent
  <1>5. CASE StoreInserts(p)
    <2>1. /\ pc[p] = "execute" /\ backend # "duckdb"
          /\ pc'[p] = "commit" /\ op'[p] = op[p] /\ draft'[p] = draft[p]
          /\ conn'[p] = conn[p]
          /\ lock'[p] = IF lock[p] = "pending" THEN "pending" ELSE "reserved"
          /\ pending'[p] = pending[p] \cup {op[p]}
      BY <1>0, <1>5 DEF StoreInserts, Goto, Return, Refuse, Release, Home,
             HoldsOK, CtrlOK, fileVars, lockVars, CanInspect
    <2>2. QED
      BY <1>0, <2>1 DEF PlaceOK, StorePlaces, AdminPlaces, Backing, AdminOps, Home, Absent
  <1>6. CASE StoreInsertsAndCommits(p)
    <2>1. /\ pc[p] = "execute"
          /\ pc'[p] = Home(p) /\ op'[p] = "none" /\ draft'[p] = draft[p]
          /\ conn'[p] = conn[p] /\ lock'[p] = lock[p] /\ pending'[p] = pending[p]
      BY <1>0, <1>6 DEF StoreInsertsAndCommits, Goto, Return, Refuse, Release, Home,
             HoldsOK, CtrlOK, fileVars, lockVars, CanInspect
    <2>2. QED
      BY <1>0, <2>1 DEF PlaceOK, StorePlaces, AdminPlaces, Backing, AdminOps, Home, Absent
  <1>7. CASE StoreStatementFails(p)
    <2>1. /\ pc[p] = "execute"
          /\ pc'[p] = Home(p) /\ op'[p] = "none" /\ draft'[p] = draft[p]
          /\ conn'[p] = conn[p] /\ lock'[p] = lock[p] /\ pending'[p] = pending[p]
      BY <1>0, <1>7 DEF StoreStatementFails, Goto, Return, Refuse, Release, Home,
             HoldsOK, CtrlOK, fileVars, lockVars, CanInspect
    <2>2. QED
      BY <1>0, <2>1 DEF PlaceOK, StorePlaces, AdminPlaces, Backing, AdminOps, Home, Absent
  <1>8. CASE StoreCommits(p)
    <2>1. /\ pc[p] = "commit"
          /\ pc'[p] = Home(p) /\ op'[p] = "none" /\ draft'[p] = draft[p]
          /\ conn'[p] = conn[p] /\ lock'[p] = "none" /\ pending'[p] = {}
      BY <1>0, <1>8 DEF StoreCommits, Goto, Return, Refuse, Release, Home,
             HoldsOK, CtrlOK, fileVars, lockVars, CanInspect
    <2>2. QED
      BY <1>0, <2>1 DEF PlaceOK, StorePlaces, AdminPlaces, Backing, AdminOps, Home, Absent
  <1>9. CASE StoreCommitFails(p)
    <2>1. /\ pc[p] = "commit"
          /\ pc'[p] = Home(p) /\ op'[p] = "none" /\ draft'[p] = draft[p]
          /\ conn'[p] = conn[p] /\ lock'[p] = "pending"
          /\ pending'[p] = pending[p]
      BY <1>0, <1>9 DEF StoreCommitFails, Goto, Return, Refuse, Release, Home,
             HoldsOK, CtrlOK, fileVars, lockVars, CanInspect
    <2>2. QED
      BY <1>0, <2>1 DEF PlaceOK, StorePlaces, AdminPlaces, Backing, AdminOps, Home, Absent
  <1>10. CASE StoreCloses(p)
    <2>1. /\ pc[p] = "idle"
          /\ pc'[p] = pc[p] /\ op'[p] = op[p] /\ draft'[p] = draft[p]
          /\ conn'[p] = Absent /\ lock'[p] = "none" /\ pending'[p] = {}
      BY <1>0, <1>10 DEF StoreCloses, Goto, Return, Refuse, Release, Home,
             HoldsOK, CtrlOK, fileVars, lockVars, CanInspect
    <2>2. QED
      BY <1>0, <2>1 DEF PlaceOK, StorePlaces, AdminPlaces, Backing, AdminOps, Home, Absent
  <1>11. CASE StoreInsertTimesOut(p)
    <2>1. /\ pc[p] = "execute" /\ backend # "duckdb"
          /\ pc'[p] = Home(p) /\ op'[p] = "none" /\ draft'[p] = draft[p]
          /\ conn'[p] = conn[p] /\ pending'[p] = pending[p]
          /\ lock'[p] = IF lock[p] = "none" THEN "deferred" ELSE lock[p]
      BY <1>0, <1>11 DEF StoreInsertTimesOut, Goto, Return, Refuse, Release, Home,
             HoldsOK, CtrlOK, fileVars, lockVars, CanInspect
    <2>2. QED
      BY <1>0, <2>1 DEF PlaceOK, StorePlaces, AdminPlaces, Backing, AdminOps, Home, Absent
  <1>12. QED
    BY <1>1, <1>2, <1>3, <1>4, <1>5, <1>6, <1>7, <1>8, <1>9, <1>10, <1>11
       DEF StoreStep

LEMMA CreatePlace ==
    ASSUME LocalInv, NEW p \in Procs, CreateStep(p)
    PROVE  PlaceOK(p)'
  <1>0. /\ CtrlOK /\ HoldsOK /\ PlaceOK(p) /\ backend' = backend
        /\ Len(files) \in Nat
        /\ (p \in Admins <=> p \notin Stores)
        /\ Rows \cap (AdminOps \cup {Query, "none"}) = {}
        /\ target \in 0..Len(files)
    BY OthersStay, OpKinds, LocalAssumption
       DEF ProcStep, LocalInv, PlainTypeOK, FilesTypeOK, NamesOK
  <1>1. CASE CreateLooks(p)
    <2>1. /\ pc[p] = "create"
          /\ \/ /\ pc'[p] = Home(p) /\ op'[p] = "none" /\ draft'[p] = draft[p]
                /\ conn'[p] = conn[p] /\ lock'[p] = lock[p] /\ pending'[p] = pending[p]
             \/ /\ pc'[p] = "build" /\ op'[p] = op[p] /\ draft'[p] = draft[p]
                /\ conn'[p] = conn[p] /\ lock'[p] = lock[p] /\ pending'[p] = pending[p]
      BY <1>0, <1>1 DEF CreateLooks, Goto, Return, Refuse, Release, Home,
             HoldsOK, CtrlOK, fileVars, lockVars, CanInspect
    <2>2. QED
      BY <1>0, <2>1 DEF PlaceOK, StorePlaces, AdminPlaces, Backing, AdminOps, Home, Absent
  <1>2. CASE CreateBuilds(p)
    <2>1. /\ pc[p] = "build"
          /\ pc'[p] = "link" /\ op'[p] = op[p] /\ draft'[p] = Len(files) + 1
          /\ conn'[p] = conn[p] /\ lock'[p] = lock[p] /\ pending'[p] = pending[p]
      BY <1>0, <1>2 DEF CreateBuilds, Goto, Return, Refuse, Release, Home,
             HoldsOK, CtrlOK, fileVars, lockVars, CanInspect
    <2>2. QED
      BY <1>0, <2>1 DEF PlaceOK, StorePlaces, AdminPlaces, Backing, AdminOps, Home, Absent
  <1>3. CASE CreateAborts(p)
    <2>1. /\ pc[p] = "build"
          /\ pc'[p] = Home(p) /\ op'[p] = "none" /\ draft'[p] = draft[p]
          /\ conn'[p] = conn[p] /\ lock'[p] = lock[p] /\ pending'[p] = pending[p]
      BY <1>0, <1>3 DEF CreateAborts, Goto, Return, Refuse, Release, Home,
             HoldsOK, CtrlOK, fileVars, lockVars, CanInspect
    <2>2. QED
      BY <1>0, <2>1 DEF PlaceOK, StorePlaces, AdminPlaces, Backing, AdminOps, Home, Absent
  <1>4. CASE CreateLinks(p)
    <2>1. /\ pc[p] = "link"
          /\ pc'[p] = "linked" /\ op'[p] = op[p] /\ draft'[p] = draft[p]
          /\ conn'[p] = conn[p] /\ lock'[p] = lock[p] /\ pending'[p] = pending[p]
      BY <1>0, <1>4 DEF CreateLinks, Goto, Return, Refuse, Release, Home,
             HoldsOK, CtrlOK, fileVars, lockVars, CanInspect
    <2>2. QED
      BY <1>0, <2>1 DEF PlaceOK, StorePlaces, AdminPlaces, Backing, AdminOps, Home, Absent
  <1>5. CASE CreateBeaten(p)
    <2>1. /\ pc[p] = "link"
          /\ pc'[p] = Home(p) /\ op'[p] = "none" /\ draft'[p] = Absent
          /\ conn'[p] = conn[p] /\ lock'[p] = lock[p] /\ pending'[p] = pending[p]
      BY <1>0, <1>5 DEF CreateBeaten, Goto, Return, Refuse, Release, Home,
             HoldsOK, CtrlOK, fileVars, lockVars, CanInspect
    <2>2. QED
      BY <1>0, <2>1 DEF PlaceOK, StorePlaces, AdminPlaces, Backing, AdminOps, Home, Absent
  <1>6. CASE CreateValidates(p)
    <2>1. /\ pc[p] = "linked"
          /\ \/ /\ p \in Stores
                /\ pc'[p] = "open" /\ op'[p] = op[p] /\ draft'[p] = Absent
                /\ conn'[p] = conn[p] /\ lock'[p] = lock[p] /\ pending'[p] = pending[p]
             \/ /\ pc'[p] = Home(p) /\ op'[p] = "none" /\ draft'[p] = Absent
                /\ conn'[p] = conn[p] /\ lock'[p] = lock[p] /\ pending'[p] = pending[p]
      BY <1>0, <1>6 DEF CreateValidates, Goto, Return, Refuse, Release, Home,
             HoldsOK, CtrlOK, fileVars, lockVars, CanInspect
    <2>2. QED
      BY <1>0, <2>1 DEF PlaceOK, StorePlaces, AdminPlaces, Backing, AdminOps, Home, Absent
  <1>7. CASE CreateWithdraws(p)
    <2>1. /\ pc[p] = "linked"
          /\ pc'[p] = Home(p) /\ op'[p] = "none" /\ draft'[p] = Absent
          /\ conn'[p] = conn[p] /\ lock'[p] = lock[p] /\ pending'[p] = pending[p]
      BY <1>0, <1>7 DEF CreateWithdraws, Goto, Return, Refuse, Release, Home,
             HoldsOK, CtrlOK, fileVars, lockVars, CanInspect
    <2>2. QED
      BY <1>0, <2>1 DEF PlaceOK, StorePlaces, AdminPlaces, Backing, AdminOps, Home, Absent
  <1>8. QED
    BY <1>1, <1>2, <1>3, <1>4, <1>5, <1>6, <1>7 DEF CreateStep

LEMMA AdminPlace ==
    ASSUME LocalInv, NEW p \in Procs, p \in Admins, AdminStep(p)
    PROVE  PlaceOK(p)'
  <1>0. /\ CtrlOK /\ HoldsOK /\ PlaceOK(p) /\ backend' = backend
        /\ Len(files) \in Nat
        /\ (p \in Admins <=> p \notin Stores)
        /\ Rows \cap (AdminOps \cup {Query, "none"}) = {}
        /\ target \in 0..Len(files)
    BY OthersStay, OpKinds, LocalAssumption
       DEF ProcStep, LocalInv, PlainTypeOK, FilesTypeOK, NamesOK
  <1>1. CASE AdminCalls(p)
    <2>1. /\ pc[p] = "idle"
          /\ op'[p] \in AdminOps
          /\ pc'[p] \in {"create", "assess"}
          /\ draft'[p] = draft[p] /\ conn'[p] = conn[p] /\ lock'[p] = lock[p]
          /\ pending'[p] = pending[p]
      BY <1>0, <1>1 DEF AdminCalls, Goto, Return, Refuse, Release, Home,
             HoldsOK, CtrlOK, fileVars, lockVars, CanInspect
    <2>2. QED
      BY <1>0, <2>1 DEF PlaceOK, StorePlaces, AdminPlaces, Backing, AdminOps, Home, Absent
  <1>2. CASE AdminAssesses(p)
    <2>1. /\ pc[p] = "assess"
          /\ \/ /\ pc'[p] = Home(p) /\ op'[p] = "none" /\ draft'[p] = draft[p]
                /\ conn'[p] = conn[p] /\ lock'[p] = lock[p] /\ pending'[p] = pending[p]
             \/ /\ pc'[p] = "sign" /\ op'[p] = op[p] /\ draft'[p] = draft[p]
                /\ conn'[p] = conn[p] /\ lock'[p] = lock[p] /\ pending'[p] = pending[p]
      BY <1>0, <1>2 DEF AdminAssesses, Goto, Return, Refuse, Release, Home,
             HoldsOK, CtrlOK, fileVars, lockVars, CanInspect
    <2>2. QED
      BY <1>0, <2>1 DEF PlaceOK, StorePlaces, AdminPlaces, Backing, AdminOps, Home, Absent
  <1>3. CASE AdminSigns(p)
    <2>1. /\ pc[p] = "sign"
          /\ \/ /\ pc'[p] = Home(p) /\ op'[p] = "none" /\ draft'[p] = draft[p]
                /\ conn'[p] = conn[p] /\ lock'[p] = lock[p] /\ pending'[p] = pending[p]
             \/ /\ pc'[p] = IF op[p] = "backup" THEN "copy" ELSE "lock"
                /\ op'[p] = op[p] /\ draft'[p] = draft[p] /\ conn'[p] = conn[p]
                /\ lock'[p] = lock[p] /\ pending'[p] = pending[p]
      BY <1>0, <1>3 DEF AdminSigns, Goto, Return, Refuse, Release, Home,
             HoldsOK, CtrlOK, fileVars, lockVars, CanInspect
    <2>2. QED
      BY <1>0, <2>1 DEF PlaceOK, StorePlaces, AdminPlaces, Backing, AdminOps, Home, Absent
  <1>4. CASE AdminCopies(p)
    <2>1. /\ pc[p] = "copy" /\ target # Absent
          /\ pc'[p] = "copying" /\ op'[p] = op[p] /\ draft'[p] = draft[p]
          /\ conn'[p] = target /\ lock'[p] = "shared" /\ pending'[p] = pending[p]
      BY <1>0, <1>4 DEF AdminCopies, Goto, Return, Refuse, Release, Home,
             HoldsOK, CtrlOK, fileVars, lockVars, CanInspect
    <2>2. QED
      BY <1>0, <2>1 DEF PlaceOK, StorePlaces, AdminPlaces, Backing, AdminOps, Home, Absent
  <1>5. CASE AdminCannotCopy(p)
    <2>1. /\ pc[p] = "copy"
          /\ pc'[p] = Home(p) /\ op'[p] = "none" /\ draft'[p] = draft[p]
          /\ conn'[p] = conn[p] /\ lock'[p] = lock[p] /\ pending'[p] = pending[p]
      BY <1>0, <1>5 DEF AdminCannotCopy, Goto, Return, Refuse, Release, Home,
             HoldsOK, CtrlOK, fileVars, lockVars, CanInspect
    <2>2. QED
      BY <1>0, <2>1 DEF PlaceOK, StorePlaces, AdminPlaces, Backing, AdminOps, Home, Absent
  <1>6. CASE AdminCopied(p)
    <2>1. /\ pc[p] = "copying"
          /\ \/ /\ pc'[p] = Home(p) /\ op'[p] = "none" /\ draft'[p] = draft[p]
                /\ conn'[p] = Absent /\ lock'[p] = "none" /\ pending'[p] = {}
             \/ /\ pc'[p] = "verify" /\ op'[p] = op[p] /\ draft'[p] = Len(files) + 1
                /\ conn'[p] = Absent /\ lock'[p] = "none" /\ pending'[p] = {}
      BY <1>0, <1>6 DEF AdminCopied, Goto, Return, Refuse, Release, Home,
             HoldsOK, CtrlOK, fileVars, lockVars, CanInspect
    <2>2. QED
      BY <1>0, <2>1 DEF PlaceOK, StorePlaces, AdminPlaces, Backing, AdminOps, Home, Absent
  <1>7. CASE AdminPublishes(p)
    <2>1. /\ pc[p] = "verify"
          /\ pc'[p] = "published" /\ op'[p] = op[p] /\ draft'[p] = draft[p]
          /\ conn'[p] = conn[p] /\ lock'[p] = lock[p] /\ pending'[p] = pending[p]
      BY <1>0, <1>7 DEF AdminPublishes, Goto, Return, Refuse, Release, Home,
             HoldsOK, CtrlOK, fileVars, lockVars, CanInspect
    <2>2. QED
      BY <1>0, <2>1 DEF PlaceOK, StorePlaces, AdminPlaces, Backing, AdminOps, Home, Absent
  <1>8. CASE AdminRejectsCopy(p)
    <2>1. /\ pc[p] = "verify"
          /\ pc'[p] = Home(p) /\ op'[p] = "none" /\ draft'[p] = Absent
          /\ conn'[p] = conn[p] /\ lock'[p] = lock[p] /\ pending'[p] = pending[p]
      BY <1>0, <1>8 DEF AdminRejectsCopy, Goto, Return, Refuse, Release, Home,
             HoldsOK, CtrlOK, fileVars, lockVars, CanInspect
    <2>2. QED
      BY <1>0, <2>1 DEF PlaceOK, StorePlaces, AdminPlaces, Backing, AdminOps, Home, Absent
  <1>9. CASE AdminUnlinks(p)
    <2>1. /\ pc[p] = "published"
          /\ \/ /\ pc'[p] = Home(p) /\ op'[p] = "none" /\ draft'[p] = Absent
                /\ conn'[p] = conn[p] /\ lock'[p] = lock[p] /\ pending'[p] = pending[p]
             \/ /\ pc'[p] = "lock" /\ op'[p] = op[p] /\ draft'[p] = Absent
                /\ conn'[p] = conn[p] /\ lock'[p] = lock[p] /\ pending'[p] = pending[p]
      BY <1>0, <1>9 DEF AdminUnlinks, Goto, Return, Refuse, Release, Home,
             HoldsOK, CtrlOK, fileVars, lockVars, CanInspect
    <2>2. QED
      BY <1>0, <2>1 DEF PlaceOK, StorePlaces, AdminPlaces, Backing, AdminOps, Home, Absent
  <1>10. CASE AdminLocks(p)
    <2>1. /\ pc[p] = "lock"
          /\ conn'[p] # Absent
          /\ pc'[p] = "migrate" /\ op'[p] = op[p] /\ draft'[p] = draft[p]
          /\ lock'[p] = "exclusive" /\ pending'[p] = pending[p]
      <3>1. Opened # Absent
        BY OpenedNamed DEF LocalInv, PlainTypeOK, NamesOK
      <3>2. QED
        BY <1>0, <1>10, <3>1 DEF AdminLocks, Goto, Return, Refuse, Release, Home,
               HoldsOK, CtrlOK, fileVars, lockVars
    <2>2. QED
      BY <1>0, <2>1 DEF PlaceOK, StorePlaces, AdminPlaces, Backing, AdminOps, Home, Absent
  <1>11. CASE AdminCannotLock(p)
    <2>1. /\ pc[p] = "lock"
          /\ pc'[p] = Home(p) /\ op'[p] = "none" /\ draft'[p] = draft[p]
          /\ conn'[p] = conn[p] /\ lock'[p] = lock[p] /\ pending'[p] = pending[p]
      BY <1>0, <1>11 DEF AdminCannotLock, Goto, Return, Refuse, Release, Home,
             HoldsOK, CtrlOK, fileVars, lockVars, CanInspect
    <2>2. QED
      BY <1>0, <2>1 DEF PlaceOK, StorePlaces, AdminPlaces, Backing, AdminOps, Home, Absent
  <1>12. CASE AdminMigrates(p)
    <2>1. /\ pc[p] = "migrate"
          /\ \/ /\ pc'[p] = Home(p) /\ op'[p] = "none" /\ draft'[p] = draft[p]
                /\ conn'[p] = Absent /\ lock'[p] = "none" /\ pending'[p] = {}
             \/ /\ pc'[p] = "final" /\ op'[p] = op[p] /\ draft'[p] = draft[p]
                /\ conn'[p] = Absent /\ lock'[p] = "none" /\ pending'[p] = {}
      BY <1>0, <1>12 DEF AdminMigrates, Goto, Return, Refuse, Release, Home,
             HoldsOK, CtrlOK, fileVars, lockVars, CanInspect
    <2>2. QED
      BY <1>0, <2>1 DEF PlaceOK, StorePlaces, AdminPlaces, Backing, AdminOps, Home, Absent
  <1>13. CASE AdminFinishes(p)
    <2>1. /\ pc[p] = "final"
          /\ pc'[p] = Home(p) /\ op'[p] = "none" /\ draft'[p] = draft[p]
          /\ conn'[p] = conn[p] /\ lock'[p] = lock[p] /\ pending'[p] = pending[p]
      BY <1>0, <1>13 DEF AdminFinishes, Goto, Return, Refuse, Release, Home,
             HoldsOK, CtrlOK, fileVars, lockVars, CanInspect
    <2>2. QED
      BY <1>0, <2>1 DEF PlaceOK, StorePlaces, AdminPlaces, Backing, AdminOps, Home, Absent
  <1>14. QED
    BY <1>1, <1>2, <1>3, <1>4, <1>5, <1>6, <1>7, <1>8, <1>9, <1>10, <1>11, <1>12,
       <1>13 DEF AdminStep

LEMMA CrashPlace ==
    ASSUME LocalInv, NEW p \in Procs, Crash(p)
    PROVE  PlaceOK(p)'
  <1>0. /\ CtrlOK /\ HoldsOK /\ PlaceOK(p) /\ backend' = backend
        /\ Len(files) \in Nat
        /\ (p \in Admins <=> p \notin Stores)
        /\ Rows \cap (AdminOps \cup {Query, "none"}) = {}
        /\ target \in 0..Len(files)
    BY OthersStay, OpKinds, LocalAssumption
       DEF ProcStep, LocalInv, PlainTypeOK, FilesTypeOK, NamesOK
  <1>1. /\ pc'[p] = Home(p) /\ op'[p] = "none" /\ draft'[p] = Absent
        /\ conn'[p] = Absent /\ lock'[p] = "none" /\ pending'[p] = {}
    BY <1>0 DEF Crash, Goto, Return, Release, Home, HoldsOK, CtrlOK
  <1>2. QED
    BY <1>0, <1>1 DEF PlaceOK, StorePlaces, AdminPlaces, Backing, Home

-----------------------------------------------------------------------------
(* One writer per file.                                                     *)

\* A connection with an open transaction is only left by ending the transaction.
LEMMA PendingMoves ==
    ASSUME LocalInv, NEW p \in Procs,
           StoreStep(p) \/ CreateStep(p) \/ (p \in Admins /\ AdminStep(p)) \/ Crash(p)
    PROVE  \/ pending'[p] = {}
           \/ pending'[p] = pending[p] /\ conn'[p] = conn[p]
           \/ StoreInserts(p)
  <1>0. /\ pending \in [Procs -> SUBSET Rows] /\ PlaceOK(p)
        /\ p \in Admins => p \notin Stores
    BY LocalAssumption DEF LocalInv, PlainTypeOK, HoldsOK
  <1>1. CASE StoreStep(p)
    <2>1. CASE UNCHANGED lockVars
      BY <2>1 DEF lockVars
    <2>2. CASE StoreOpens(p)
      BY <1>0, <2>2 DEF StoreOpens, PlaceOK, AdminPlaces, Procs
    <2>3. CASE StoreCommits(p) \/ StoreCommitFails(p) \/ StoreCloses(p)
      BY <1>0, <2>3 DEF StoreCommits, StoreCommitFails, StoreCloses, Release
    <2>4. CASE StoreReads(p) \/ StoreInsertTimesOut(p)
      BY <2>4 DEF StoreReads, StoreInsertTimesOut
    <2>5. QED
      BY <1>1, <2>1, <2>2, <2>3, <2>4
         DEF StoreStep, StoreCalls, StoreInspects, StoreInsertsAndCommits,
             StoreStatementFails
  <1>2. CASE CreateStep(p)
    <2>1. UNCHANGED lockVars
      BY <1>2 DEF CreateStep, CreateLooks, CreateBuilds, CreateAborts, CreateLinks,
                  CreateBeaten, CreateValidates, CreateWithdraws
    <2>2. QED
      BY <2>1 DEF lockVars
  <1>3. CASE p \in Admins /\ AdminStep(p)
    <2>1. pending[p] = {}
      BY <1>0, <1>3 DEF PlaceOK
    <2>2. CASE UNCHANGED lockVars
      BY <2>2 DEF lockVars
    <2>3. CASE AdminCopies(p) \/ AdminCopied(p) \/ AdminLocks(p) \/ AdminMigrates(p)
      BY <1>0, <2>1, <2>3 DEF AdminCopies, AdminCopied, AdminLocks, AdminMigrates, Release
    <2>4. QED
      BY <1>3, <2>2, <2>3
         DEF AdminStep, AdminCalls, AdminAssesses, AdminSigns, AdminCannotCopy,
             AdminPublishes, AdminRejectsCopy, AdminUnlinks, AdminCannotLock, AdminFinishes
  <1>4. CASE Crash(p)
    BY <1>0, <1>4 DEF Crash, Release
  <1>5. QED
    BY <1>1, <1>2, <1>3, <1>4

LEMMA WritersStayApart ==
    ASSUME LocalInv, NEW p \in Procs,
           StoreStep(p) \/ CreateStep(p) \/ (p \in Admins /\ AdminStep(p)) \/ Crash(p)
    PROVE  WritersApart'
  <1>1. OthersKeep(p)
    BY OthersStay DEF ProcStep
  <1>2. ASSUME NEW q \in Procs, q # p, pending'[p] # {}, pending[q] # {}
        PROVE  conn'[p] # conn[q]
    <2>1. CASE StoreInserts(p)
      <3>1. lock[q] \in {"reserved", "pending"}
        BY <1>2 DEF LocalInv, PlaceOK
      <3>2. conn[q] # conn[p]
        BY <1>2, <2>1, <3>1 DEF StoreInserts, CanWrite, Others
      <3>3. conn'[p] = conn[p]
        BY <2>1 DEF StoreInserts
      <3>4. QED
        BY <3>2, <3>3
    <2>2. CASE pending'[p] = pending[p] /\ conn'[p] = conn[p]
      BY <1>2, <2>2 DEF LocalInv, WritersApart
    <2>3. QED
      BY <1>2, <2>1, <2>2, PendingMoves
  <1>3. QED
    BY <1>1, <1>2 DEF OthersKeep, WritersApart, LocalInv

LEMMA LocalInvStep ==
    ASSUME LocalInv, NEW p \in Procs,
           (p \in Stores /\ StoreStep(p)) \/ CreateStep(p)
               \/ (p \in Admins /\ AdminStep(p)) \/ Crash(p)
    PROVE  LocalInv'
  <1>1. OthersKeep(p) /\ backend' = backend
    BY OthersStay DEF ProcStep
  <1>2. PlainTypeOK' /\ FilesTypeOK'
    BY PlainTypeStep
  <1>3. WritersApart'
    BY WritersStayApart
  <1>4. PlaceOK(p)'
    BY StorePlace, CreatePlace, AdminPlace, CrashPlace
  <1>5. ASSUME NEW q \in Procs, q # p PROVE PlaceOK(q)'
    BY <1>1, <1>5, PlaceFrame DEF LocalInv
  <1>6. QED
    BY <1>2, <1>3, <1>4, <1>5 DEF LocalInv

LEMMA LocalInvInit == LocalInit => LocalInv
  <1> SUFFICES ASSUME LocalInit PROVE LocalInv
    OBVIOUS
  <1>1. /\ FilesTypeOK /\ target \in 0..Len(files) /\ Len(files) \in Nat
        /\ target = Len(files)
    <2>1. PICK state \in InitialStates :
            /\ files = IF state = "absent" THEN <<>>
                                           ELSE <<NewFile(InitialCatalog(backend, state))>>
            /\ target = Len(files)
      BY DEF LocalInit
    <2>2. CASE state = "absent"
      BY <2>1, <2>2, LocalAssumption DEF FilesTypeOK
    <2>3. CASE state # "absent"
      <3>1. InitialCatalog(backend, state) \in Catalogs
        BY <2>3 DEF Catalogs, InitialCatalogs, LocalInit
      <3>2. NewFile(InitialCatalog(backend, state)) \in FileRecord
        BY <3>1 DEF NewFile, FileRecord
      <3>3. QED
        BY <2>1, <2>3, <3>2, LocalAssumption DEF FilesTypeOK
    <2>4. QED
      BY <2>2, <2>3
  <1>2. PlainTypeOK
    BY <1>1, LocalAssumption
       DEF LocalInit, PlainTypeOK, NamesOK, CtrlOK, HoldsOK, Places, Locks, Absent
  <1>3. \A p \in Procs : PlaceOK(p)
    BY <1>1 DEF LocalInit, PlaceOK, StorePlaces, AdminPlaces, Backing, Absent
  <1>4. WritersApart
    BY DEF LocalInit, WritersApart
  <1>5. QED
    BY <1>1, <1>2, <1>3, <1>4 DEF LocalInv

LEMMA LocalInvFrame ==
    ASSUME LocalInv, UNCHANGED localVars
    PROVE  LocalInv'
  <1>1. /\ UNCHANGED <<backend, files, target, backup, pc, op, draft, conn, lock, pending>>
        /\ UNCHANGED <<sig, answer, withdrawn, faults>>
    BY DEF localVars
  <1>2. PlainTypeOK' /\ WritersApart'
    BY <1>1 DEF LocalInv, PlainTypeOK, NamesOK, CtrlOK, HoldsOK, WritersApart
  <1>3. FilesTypeOK'
    BY <1>1 DEF LocalInv, FilesTypeOK, FileRecord, Catalogs
  <1>4. ASSUME NEW p \in Procs PROVE PlaceOK(p)'
    BY <1>1 DEF LocalInv, PlaceOK
  <1>5. QED
    BY <1>2, <1>3, <1>4 DEF LocalInv

\* Every step is a step of one process.
LEMMA WhoseStep ==
    ASSUME LocalNext
    PROVE  \E p \in Procs :
               (p \in Stores /\ StoreStep(p)) \/ CreateStep(p)
                   \/ (p \in Admins /\ AdminStep(p)) \/ Crash(p)
  BY DEF LocalNext, Procs

\* The inductive invariant about control holds in every reachable state: at
\* each place in record_attempt, create, migrate and backup it says which file
\* the process has open, which it has read, and which transactions may be open
\* on the same file.
THEOREM LocalInvariant == LocalSpec => []LocalInv
  <1>1. LocalInv /\ [LocalNext]_localVars => LocalInv'
    <2> SUFFICES ASSUME LocalInv, [LocalNext]_localVars PROVE LocalInv'
      OBVIOUS
    <2>1. CASE LocalNext
      BY <2>1, WhoseStep, LocalInvStep
    <2>2. CASE UNCHANGED localVars
      BY <2>2, LocalInvFrame
    <2>3. QED
      BY <2>1, <2>2
  <1>2. QED
    BY <1>1, LocalInvInit, PTL DEF LocalSpec

\* Every reachable state of the stores and commands on a metrics file is well
\* typed; a lock is only held through a connection, and two processes never
\* have open transactions on the same file, however many there are.
THEOREM LocalTypeCorrect == LocalSpec => []LocalTypeOK
  <1>1. LocalInv => LocalTypeOK
    BY DEF LocalInv, PlainTypeOK, NamesOK, CtrlOK, HoldsOK, FilesTypeOK, PlaceOK,
           WritersApart, LocalTypeOK
  <1>2. QED
    BY <1>1, LocalInvariant, PTL

-----------------------------------------------------------------------------
(* Names.  A file that has the target's path keeps it, or is withdrawn.     *)

\* A process of either kind takes a step of its own.
OwnStep(p) ==
    \/ p \in Stores /\ StoreStep(p)
    \/ CreateStep(p)
    \/ p \in Admins /\ AdminStep(p)
    \/ Crash(p)

NamesMove(p) ==
    \/ target' = target /\ withdrawn' = withdrawn
    \/ /\ target = Absent /\ withdrawn' = withdrawn
       /\ \/ pc[p] = "link" /\ target' = draft[p] /\ files' = files
          \/ /\ pc[p] \in {"open", "lock"}
             /\ target' = Len(files) + 1 /\ Len(files') = Len(files) + 1
             /\ files'[target'].catalog = EmptyCatalog
    \/ /\ pc[p] = "linked" /\ files' = files
       /\ target' = Absent /\ withdrawn' = withdrawn \cup ({target} \ {Absent})

LEMMA NamesMoving ==
    ASSUME LocalInv, NEW p \in Procs, OwnStep(p)
    PROVE  NamesMove(p)
  <1>0. FilesTypeOK /\ target \in 0..Len(files)
    BY DEF LocalInv, PlainTypeOK, NamesOK
  <1>1. CASE target' = target /\ withdrawn' = withdrawn
    BY <1>1 DEF NamesMove
  <1>2. CASE CreateLinks(p)
    BY <1>2 DEF CreateLinks, NamesMove
  <1>3. CASE CreateWithdraws(p)
    BY <1>3 DEF CreateWithdraws, NamesMove
  <1>4. CASE StoreOpens(p)
    <2>1. CASE MayOpen /\ files' = WithOpened /\ target' = Opened
      <3>1. \/ Opened = target
            \/ /\ target = Absent /\ Opened = Len(files) + 1
               /\ files'[Opened] = NewFile(EmptyCatalog) /\ Len(files') = Len(files) + 1
        BY <1>0, <2>1, OpenedFile
      <3>2. QED
        BY <1>4, <2>1, <3>1, NewFiles DEF StoreOpens, NamesMove, fileVars
    <2>2. QED
      BY <1>1, <1>4, <2>1 DEF StoreOpens, fileVars
  <1>5. CASE AdminLocks(p)
    <2>1. \/ Opened = target
          \/ /\ target = Absent /\ Opened = Len(files) + 1
             /\ files'[Opened].catalog = EmptyCatalog /\ Len(files') = Len(files) + 1
      BY <1>0, <1>5, LockedFile DEF AdminLocks
    <2>2. QED
      BY <1>5, <2>1 DEF AdminLocks, NamesMove
  <1>6. CASE StoreStep(p)
    BY <1>1, <1>4, <1>6
       DEF StoreStep, StoreCalls, StoreInspects, StoreReads, StoreInserts,
           StoreInsertsAndCommits, StoreStatementFails, StoreInsertTimesOut,
           StoreCommits, StoreCommitFails, StoreCloses, fileVars
  <1>7. CASE CreateStep(p)
    BY <1>1, <1>2, <1>3, <1>7
       DEF CreateStep, CreateLooks, CreateBuilds, CreateAborts, CreateBeaten,
           CreateValidates, fileVars
  <1>8. CASE AdminStep(p)
    BY <1>1, <1>5, <1>8
       DEF AdminStep, AdminCalls, AdminAssesses, AdminSigns, AdminCopies,
           AdminCannotCopy, AdminCopied, AdminPublishes, AdminRejectsCopy, AdminUnlinks,
           AdminCannotLock, AdminMigrates, AdminFinishes, fileVars
  <1>9. CASE Crash(p)
    BY <1>1, <1>9 DEF Crash
  <1>10. QED
    BY <1>6, <1>7, <1>8, <1>9 DEF OwnStep

\* What a step of one process does to the files, the names and the others.
LEMMA OwnFrame ==
    ASSUME LocalInv, NEW p \in Procs, OwnStep(p)
    PROVE  Grown /\ backend' = backend /\ OthersKeep(p) /\ NamesMove(p)
  <1>1. ProcStep(p)
    BY DEF OwnStep, ProcStep
  <1>2. Grown
    BY <1>1, FilesGrow
  <1>3. OthersKeep(p) /\ backend' = backend
    BY <1>1, OthersStay
  <1>4. QED
    BY <1>2, <1>3, NamesMoving

\* Every name is that of a file.
LEMMA NamesInRange ==
    ASSUME LocalInv
    PROVE  /\ Len(files) \in Nat /\ target \in 0..Len(files) /\ backup \in 0..Len(files)
           /\ withdrawn \subseteq 1..Len(files)
           /\ \A q \in Procs : conn[q] \in 0..Len(files) /\ draft[q] \in 0..Len(files)
  <1>1. Len(files) \in Nat
    BY DEF LocalInv, FilesTypeOK
  <1>2. target \in 0..Len(files) /\ backup \in 0..Len(files) /\ withdrawn \subseteq 1..Len(files)
    BY DEF LocalInv, PlainTypeOK, NamesOK
  <1>3. \A q \in Procs : conn[q] \in 0..Len(files) /\ draft[q] \in 0..Len(files)
    BY DEF LocalInv, PlainTypeOK, HoldsOK
  <1>4. QED
    BY <1>1, <1>2, <1>3

\* What has or had the target's path stays known.
LEMMA NamesKept ==
    ASSUME NEW p, NamesMove(p), NEW i, i # Absent, i \in {target} \cup withdrawn
    PROVE  i \in {target'} \cup withdrawn'
  BY DEF NamesMove

\* Where a process that arrives in a place, or connects, has looked.
Sighted == {"open", "copy", "copying", "verify", "published", "lock"}

LEMMA Arrivals ==
    ASSUME LocalInv, NEW p \in Procs, OwnStep(p)
    PROVE  /\ pc'[p] \in Sighted => pc[p] \in Sighted \/ target' # Absent
           /\ pc'[p] = "open" => target' = target /\ target # Absent /\ IsCurrent(target)
           /\ conn'[p] # conn[p] /\ conn'[p] # Absent =>
                  /\ pc[p] \in {"open", "copy", "lock"} /\ conn'[p] = target'
                  /\ p \in Stores => pc[p] = "open"
  <1>0. /\ CtrlOK /\ HoldsOK /\ PlaceOK(p)
        /\ p \in Admins <=> p \notin Stores
    BY OpKinds DEF LocalInv, PlainTypeOK
  <1> USE DEF CtrlOK, HoldsOK, Sighted, Goto, Return, Refuse, Release, lockVars, fileVars
  <1>1. CASE p \in Stores /\ StoreStep(p)
    <2>1. CASE StoreCalls(p)
      BY <1>0, <1>1, <2>1 DEF StoreCalls
    <2>2. CASE StoreInspects(p)
      BY <1>0, <1>1, <2>2 DEF StoreInspects, CanInspect
    <2>3. CASE StoreOpens(p)
      BY <1>0, <1>1, <2>3 DEF StoreOpens
    <2>4. CASE StoreReads(p)
      BY <1>0, <1>1, <2>4 DEF StoreReads
    <2>5. CASE StoreInserts(p)
      BY <1>0, <1>1, <2>5 DEF StoreInserts
    <2>6. CASE StoreInsertsAndCommits(p)
      BY <1>0, <1>1, <2>6 DEF StoreInsertsAndCommits
    <2>7. CASE StoreStatementFails(p)
      BY <1>0, <1>1, <2>7 DEF StoreStatementFails
    <2>8. CASE StoreCommits(p)
      BY <1>0, <1>1, <2>8 DEF StoreCommits
    <2>9. CASE StoreCommitFails(p)
      BY <1>0, <1>1, <2>9 DEF StoreCommitFails
    <2>10. CASE StoreCloses(p)
      BY <1>0, <1>1, <2>10 DEF StoreCloses
    <2>11. CASE StoreInsertTimesOut(p)
      BY <1>0, <1>1, <2>11 DEF StoreInsertTimesOut
    <2>12. QED
      BY <1>1, <2>1, <2>2, <2>3, <2>4, <2>5, <2>6, <2>7, <2>8, <2>9, <2>10, <2>11
         DEF StoreStep
  <1>2. CASE CreateStep(p)
    <2>1. CASE CreateLooks(p)
      BY <1>0, <1>2, <2>1 DEF CreateLooks, PlaceOK, StorePlaces, AdminPlaces
    <2>2. CASE CreateBuilds(p)
      BY <1>0, <1>2, <2>2 DEF CreateBuilds
    <2>3. CASE CreateAborts(p)
      BY <1>0, <1>2, <2>3 DEF CreateAborts
    <2>4. CASE CreateLinks(p)
      BY <1>0, <1>2, <2>4 DEF CreateLinks
    <2>5. CASE CreateBeaten(p)
      BY <1>0, <1>2, <2>5 DEF CreateBeaten
    <2>6. CASE CreateValidates(p)
      BY <1>0, <1>2, <2>6 DEF CreateValidates, CanInspect
    <2>7. CASE CreateWithdraws(p)
      BY <1>0, <1>2, <2>7 DEF CreateWithdraws
    <2>8. QED
      BY <1>2, <2>1, <2>2, <2>3, <2>4, <2>5, <2>6, <2>7
         DEF CreateStep
  <1>3. CASE p \in Admins /\ AdminStep(p)
    <2>1. CASE AdminCalls(p)
      BY <1>0, <1>3, <2>1 DEF AdminCalls
    <2>2. CASE AdminAssesses(p)
      BY <1>0, <1>3, <2>2 DEF AdminAssesses
    <2>3. CASE AdminSigns(p)
      BY <1>0, <1>3, <2>3 DEF AdminSigns, CanInspect
    <2>4. CASE AdminCopies(p)
      BY <1>0, <1>3, <2>4 DEF AdminCopies, CanInspect
    <2>5. CASE AdminCannotCopy(p)
      BY <1>0, <1>3, <2>5 DEF AdminCannotCopy
    <2>6. CASE AdminCopied(p)
      BY <1>0, <1>3, <2>6 DEF AdminCopied
    <2>7. CASE AdminPublishes(p)
      BY <1>0, <1>3, <2>7 DEF AdminPublishes
    <2>8. CASE AdminRejectsCopy(p)
      BY <1>0, <1>3, <2>8 DEF AdminRejectsCopy
    <2>9. CASE AdminUnlinks(p)
      BY <1>0, <1>3, <2>9 DEF AdminUnlinks
    <2>10. CASE AdminLocks(p)
      BY <1>0, <1>3, <2>10 DEF AdminLocks
    <2>11. CASE AdminCannotLock(p)
      BY <1>0, <1>3, <2>11 DEF AdminCannotLock
    <2>12. CASE AdminMigrates(p)
      BY <1>0, <1>3, <2>12 DEF AdminMigrates
    <2>13. CASE AdminFinishes(p)
      BY <1>0, <1>3, <2>13 DEF AdminFinishes
    <2>14. QED
      BY <1>3, <2>1, <2>2, <2>3, <2>4, <2>5, <2>6, <2>7, <2>8, <2>9, <2>10, <2>11,
         <2>12, <2>13
         DEF AdminStep
  <1>4. CASE Crash(p)
    BY <1>0, <1>4 DEF Crash
  <1>5. QED
    BY <1>1, <1>2, <1>3, <1>4 DEF OwnStep

-----------------------------------------------------------------------------
(* Rows.  A file gains rows only through the connection of a store; a new   *)
(* file is empty, or the copy of one.                                       *)

Writes(p) ==
    \/ StoreInsertsAndCommits(p)
    \/ p \in Stores /\ pc[p] = "commit"

LEMMA NoneAdded ==
    ASSUME FilesTypeOK, files' = files
    PROVE  \A i \in (Len(files) + 1)..Len(files') : FALSE
  BY DEF FilesTypeOK

LEMMA WritesAndCopies ==
    ASSUME LocalInv, NEW p \in Procs, OwnStep(p)
    PROVE  /\ \A i \in 1..Len(files) :
                  files'[i].rows # files[i].rows => i = conn[p] /\ Writes(p)
           /\ \A i \in (Len(files) + 1)..Len(files') :
                  \/ files'[i].rows = {}
                  \/ pc[p] = "copying" /\ files'[i] = files[conn[p]]
  <1>0. FilesTypeOK /\ target \in 0..Len(files) /\ Len(files) \in Nat
        /\ pending[p] \in SUBSET Rows
    BY DEF LocalInv, PlainTypeOK, NamesOK, HoldsOK, FilesTypeOK
  <1>1. CASE files' = files
    BY <1>0, <1>1, NoneAdded
  <1>2. CASE StoreOpens(p)
    <2>1. CASE MayOpen /\ files' = WithOpened
      BY <1>0, <2>1, OpenedFile, NewFiles
    <2>2. QED
      BY <1>1, <1>2, <2>1 DEF StoreOpens, fileVars
  <1>3. CASE StoreReads(p) \/ StoreInserts(p)
    <2>1. conn[p] \in 1..Len(files)
      BY <1>3, Connected DEF StoreReads, StoreInserts
    <2>2. files' = [files EXCEPT ![conn[p]].hot = FALSE]
      BY <1>3 DEF StoreReads, StoreInserts, RollBackJournal
    <2>3. /\ Len(files') = Len(files)
          /\ \A i \in 1..Len(files) : files'[i].rows = files[i].rows
      BY <1>0, <2>1, <2>2, JournalOnly
    <2>4. QED
      BY <1>0, <2>3
  <1>4. CASE StoreInsertsAndCommits(p)
    <2>1. conn[p] \in 1..Len(files) /\ {op[p]} \in SUBSET Rows
      BY <1>4, Connected DEF StoreInsertsAndCommits
    <2>2. QED
      BY <1>0, <1>4, <2>1, RowsGrow DEF StoreInsertsAndCommits, Writes
  <1>5. CASE /\ p \in Stores /\ pc[p] = "commit"
             /\ \/ files' = [files EXCEPT ![conn[p]].rows = @ \cup pending[p]]
                \/ files' = [files EXCEPT ![conn[p]].hot = TRUE]
    <2>1. conn[p] \in 1..Len(files)
      BY <1>5, Connected
    <2>2. CASE files' = [files EXCEPT ![conn[p]].rows = @ \cup pending[p]]
      BY <1>0, <1>5, <2>1, <2>2, RowsGrow DEF Writes
    <2>3. CASE files' = [files EXCEPT ![conn[p]].hot = TRUE]
      BY <1>0, <2>1, <2>3, JournalOnly
    <2>4. QED
      BY <1>5, <2>2, <2>3
  <1>6. CASE CreateBuilds(p)
    BY <1>0, <1>6, AppendGrows, NewFiles DEF CreateBuilds
  <1>7. CASE AdminCopied(p)
    <2>1. files[conn[p]] \in FileRecord /\ pc[p] = "copying"
      BY <1>0, <1>7, Connected DEF AdminCopied, FilesTypeOK
    <2>2. QED
      BY <1>0, <1>1, <1>7, <2>1, AppendGrows DEF AdminCopied
  <1>8. CASE AdminLocks(p)
    BY <1>0, <1>8, LockedFile DEF AdminLocks
  <1>9. CASE p \in Stores /\ StoreStep(p)
    BY <1>1, <1>2, <1>3, <1>4, <1>5, <1>9
       DEF StoreStep, StoreCalls, StoreInspects, StoreStatementFails,
           StoreInsertTimesOut, StoreCommits, StoreCommitFails, StoreCloses, fileVars
  <1>10. CASE CreateStep(p)
    BY <1>1, <1>6, <1>10
       DEF CreateStep, CreateLooks, CreateAborts, CreateLinks, CreateBeaten,
           CreateValidates, CreateWithdraws, fileVars
  <1>11. CASE AdminStep(p)
    BY <1>1, <1>7, <1>8, <1>11
       DEF AdminStep, AdminCalls, AdminAssesses, AdminSigns, AdminCopies,
           AdminCannotCopy, AdminPublishes, AdminRejectsCopy, AdminUnlinks,
           AdminCannotLock, AdminMigrates, AdminFinishes, fileVars
  <1>12. CASE Crash(p)
    <2>1. pc[p] = "commit" => p \in Stores
      BY DEF LocalInv, PlaceOK, AdminPlaces, Procs
    <2>2. QED
      BY <1>1, <1>5, <1>12, <2>1 DEF Crash
  <1>13. QED
    BY <1>9, <1>10, <1>11, <1>12 DEF OwnStep

\* A row is said to be stored by the step that puts it there.
LEMMA SaidStored ==
    ASSUME LocalInv, NEW p \in Procs, OwnStep(p), NEW r \in Rows, answer'[r] = "stored"
    PROVE  \/ answer[r] = "stored"
           \/ /\ conn[p] # Absent /\ conn[p] \in 1..Len(files)
              /\ r \in files'[conn[p]].rows
  <1>0. answer \in [Rows -> {"unused", "open", "stored", "refused", "crashed"}]
        /\ FilesTypeOK /\ pending[p] \in SUBSET Rows /\ PlaceOK(p)
    BY DEF LocalInv, PlainTypeOK, CtrlOK, HoldsOK
  <1>1. CASE \E what \in {"read", "done", "refused", "crashed"} : Return(p, what)
    BY <1>0, <1>1 DEF Return, Answer
  <1>2. CASE answer' = answer
    BY <1>2
  <1>3. CASE StoreCalls(p)
    BY <1>0, <1>3 DEF StoreCalls
  <1>4. CASE StoreInsertsAndCommits(p)
    <2>1. conn[p] \in 1..Len(files) /\ conn[p] # Absent /\ {op[p]} \in SUBSET Rows
      BY <1>4, Connected DEF StoreInsertsAndCommits
    <2>2. files'[conn[p]].rows = files[conn[p]].rows \cup {op[p]}
      BY <1>0, <1>4, <2>1, RowsGrow DEF StoreInsertsAndCommits
    <2>3. answer[r] = "stored" \/ r = op[p]
      BY <1>0, <1>4 DEF StoreInsertsAndCommits, Return, Answer
    <2>4. QED
      BY <2>1, <2>2, <2>3
  <1>5. CASE StoreCommits(p)
    <2>1. conn[p] \in 1..Len(files) /\ conn[p] # Absent /\ op[p] \in pending[p]
      BY <1>0, <1>5, Connected DEF StoreCommits, PlaceOK
    <2>2. files'[conn[p]].rows = files[conn[p]].rows \cup pending[p]
      BY <1>0, <1>5, <2>1, RowsGrow DEF StoreCommits
    <2>3. answer[r] = "stored" \/ r = op[p]
      BY <1>0, <1>5 DEF StoreCommits, Return, Answer
    <2>4. QED
      BY <2>1, <2>2, <2>3
  <1>6. CASE StoreStep(p)
    BY <1>1, <1>2, <1>3, <1>4, <1>5, <1>6
       DEF StoreStep, StoreInspects, StoreOpens, StoreReads, StoreInserts,
           StoreStatementFails, StoreInsertTimesOut, StoreCommitFails, StoreCloses, Refuse
  <1>7. CASE CreateStep(p)
    BY <1>1, <1>2, <1>7
       DEF CreateStep, CreateLooks, CreateBuilds, CreateAborts, CreateLinks,
           CreateBeaten, CreateValidates, CreateWithdraws, Refuse
  <1>8. CASE AdminStep(p)
    BY <1>1, <1>2, <1>8
       DEF AdminStep, AdminCalls, AdminAssesses, AdminSigns, AdminCopies,
           AdminCannotCopy, AdminCopied, AdminPublishes, AdminRejectsCopy, AdminUnlinks,
           AdminLocks, AdminCannotLock, AdminMigrates, AdminFinishes, Refuse
  <1>9. CASE Crash(p)
    BY <1>1, <1>9 DEF Crash
  <1>10. QED
    BY <1>6, <1>7, <1>8, <1>9 DEF OwnStep

-----------------------------------------------------------------------------
(* The files.  A store looks at a file, then opens whatever has the path:   *)
(* what it may find there is a database it would accept, or an empty one.   *)

Sound(i) == IsCurrent(i) \/ files[i].catalog = EmptyCatalog

\* Where a process is, and the files it has met.
MetOK(p) ==
    /\ conn[p] # Absent => conn[p] \in {target} \cup withdrawn
    /\ pc[p] \in Sighted => target # Absent \/ withdrawn # {}
    /\ pc[p] = "open" /\ target # Absent => Sound(target)
    /\ p \in Stores /\ conn[p] # Absent => Sound(conn[p])
    /\ pc[p] = "link" => IsCurrent(draft[p])
    /\ pending[p] # {} => IsCurrent(conn[p])

RowsInCurrent == \A i \in 1..Len(files) : files[i].rows # {} => IsCurrent(i)

FileInv ==
    /\ \A p \in Procs : MetOK(p)
    /\ RowsInCurrent /\ TargetWhole /\ RowsSurvive

LEMMA CatalogsStay ==
    ASSUME Grown, backend' = backend, NEW i \in 1..Len(files)
    PROVE  IsCurrent(i)' = IsCurrent(i) /\ Sound(i)' = Sound(i)
  BY DEF Grown, IsCurrent, Sound

\* The statements of a store fail on a file that has no table.
LEMMA SoundWithAttempts ==
    ASSUME NEW i, Sound(i), HasAttempts(i)
    PROVE  IsCurrent(i)
  BY DEF Sound, HasAttempts, EmptyCatalog

\* What has the path after a step that put it there.
LEMMA NewTarget ==
    ASSUME LocalInv, FileInv, NEW p \in Procs, OwnStep(p),
           target' # Absent, target' # target
    PROVE  Sound(target)' /\ (IsCurrent(target)' \/ withdrawn' # {})
  <1>1. /\ Grown /\ backend' = backend /\ Len(files) \in Nat /\ LocalInv'
        /\ MetOK(p) /\ PlaceOK(p)
    BY OwnFrame, NamesInRange, LocalInvStep DEF OwnStep, LocalInv, FileInv
  <1>2. CASE pc[p] = "link" /\ target' = draft[p]
    <2>1. draft[p] \in 1..Len(files)
      BY <1>1, <1>2 DEF LocalInv, PlainTypeOK, HoldsOK, PlaceOK, Absent
    <2>2. QED
      BY <1>1, <1>2, <2>1 DEF MetOK, Sound, IsCurrent, Grown
  <1>3. CASE /\ pc[p] \in {"open", "lock"} /\ target = Absent /\ withdrawn' = withdrawn
             /\ files'[target'].catalog = EmptyCatalog
    <2>1. withdrawn # {}
      BY <1>1, <1>3 DEF MetOK, Sighted
    <2>2. QED
      BY <1>3, <2>1 DEF Sound
  <1>4. QED
    BY <1>2, <1>3, NamesMoving DEF NamesMove

LEMMA TargetStaysWhole ==
    ASSUME LocalInv, FileInv, NEW p \in Procs, OwnStep(p)
    PROVE  TargetWhole'
  <1>1. Grown /\ backend' = backend /\ target \in 0..Len(files)
    BY OwnFrame, NamesInRange
  <1>2. CASE target' = target /\ target # Absent
    <2>1. target \in 1..Len(files)
      BY <1>1, <1>2 DEF Absent
    <2>2. IsCurrent(target) => IsCurrent(target)'
      BY <1>1, <1>2, <2>1 DEF IsCurrent, Grown
    <2>3. withdrawn \subseteq withdrawn'
      BY NamesMoving DEF NamesMove
    <2>4. QED
      BY <1>2, <2>2, <2>3 DEF TargetWhole, FileInv
  <1>3. CASE target' = Absent
    BY <1>3 DEF TargetWhole
  <1>4. CASE target' # Absent /\ target' # target
    BY <1>4, NewTarget DEF TargetWhole
  <1>5. QED
    BY <1>2, <1>3, <1>4

LEMMA RowsStayCurrent ==
    ASSUME LocalInv, FileInv, NEW p \in Procs, OwnStep(p)
    PROVE  RowsInCurrent'
  <1>1. /\ Grown /\ backend' = backend /\ Len(files) \in Nat /\ Len(files') \in Nat
        /\ MetOK(p) /\ PlaceOK(p)
    BY OwnFrame, NamesInRange DEF LocalInv, FileInv, Grown
  <1>2. ASSUME NEW i \in 1..Len(files), files'[i].rows # {} PROVE IsCurrent(i)'
    <2>1. IsCurrent(i)' = IsCurrent(i)
      BY <1>1, CatalogsStay
    <2>2. CASE files'[i].rows = files[i].rows
      BY <1>2, <2>1, <2>2 DEF FileInv, RowsInCurrent
    <2>3. CASE i = conn[p] /\ StoreInsertsAndCommits(p) /\ p \in Stores
      <3>1. Sound(i) /\ HasAttempts(i)
        BY <1>1, <2>3, Connected DEF StoreInsertsAndCommits, MetOK
      <3>2. QED
        BY <2>1, <3>1, SoundWithAttempts
    <2>4. CASE i = conn[p] /\ p \in Stores /\ pc[p] = "commit"
      BY <1>1, <2>1, <2>4 DEF MetOK, PlaceOK
    <2>5. StoreInsertsAndCommits(p) => p \in Stores
      BY <1>1 DEF StoreInsertsAndCommits, PlaceOK, AdminPlaces, Procs
    <2>6. QED
      BY <2>2, <2>3, <2>4, <2>5, WritesAndCopies DEF Writes
  <1>3. ASSUME NEW i \in (Len(files) + 1)..Len(files'), files'[i].rows # {}
        PROVE  IsCurrent(i)'
    <2>1. pc[p] = "copying" /\ files'[i] = files[conn[p]]
      BY <1>3, WritesAndCopies
    <2>2. conn[p] \in 1..Len(files)
      BY <2>1, Connected
    <2>3. IsCurrent(conn[p])
      BY <1>3, <2>1, <2>2 DEF FileInv, RowsInCurrent
    <2>4. QED
      BY <1>1, <2>1, <2>3 DEF IsCurrent
  <1>4. QED
    BY <1>1, <1>2, <1>3 DEF RowsInCurrent

LEMMA RowsKeepSurviving ==
    ASSUME LocalInv, FileInv, NEW p \in Procs, OwnStep(p)
    PROVE  RowsSurvive'
  <1>1. /\ Grown /\ NamesMove(p) /\ target \in 0..Len(files)
        /\ withdrawn \subseteq 1..Len(files) /\ MetOK(p) /\ Len(files) \in Nat
    BY OwnFrame, NamesInRange DEF FileInv
  <1>2. ASSUME NEW r \in Rows, answer'[r] = "stored"
        PROVE  \E i \in ({target'} \cup withdrawn') \ {Absent} : r \in files'[i].rows
    <2>1. CASE answer[r] = "stored"
      <3>1. PICK i \in ({target} \cup withdrawn) \ {Absent} : r \in files[i].rows
        BY <2>1 DEF FileInv, RowsSurvive
      <3>2. i \in 1..Len(files)
        BY <1>1, <3>1 DEF Absent
      <3>3. r \in files'[i].rows
        BY <1>1, <3>1, <3>2 DEF Grown
      <3>4. i \in {target'} \cup withdrawn'
        BY <1>1, <3>1, NamesKept
      <3>5. QED
        BY <3>1, <3>3, <3>4
    <2>2. CASE /\ conn[p] # Absent /\ conn[p] \in 1..Len(files)
               /\ r \in files'[conn[p]].rows
      <3>1. conn[p] \in {target'} \cup withdrawn'
        BY <1>1, <2>2, NamesKept DEF MetOK
      <3>2. QED
        BY <2>2, <3>1
    <2>3. QED
      BY <1>2, <2>1, <2>2, SaidStored
  <1>3. QED
    BY <1>2 DEF RowsSurvive

\* What a process has met stays so in the steps of another.
LEMMA MetFrame ==
    ASSUME LocalInv, FileInv, NEW p \in Procs, OwnStep(p), NEW q \in Procs, q # p
    PROVE  MetOK(q)'
  <1>1. /\ Grown /\ backend' = backend /\ OthersKeep(p) /\ NamesMove(p)
        /\ MetOK(q) /\ PlaceOK(q)
        /\ target \in 0..Len(files) /\ Len(files) \in Nat
        /\ conn[q] \in 0..Len(files) /\ draft[q] \in 0..Len(files)
    BY OwnFrame, NamesInRange DEF LocalInv, FileInv
  <1>2. /\ conn'[q] = conn[q] /\ pc'[q] = pc[q] /\ draft'[q] = draft[q]
        /\ pending'[q] = pending[q]
    BY <1>1 DEF OthersKeep
  <1>3. ASSUME NEW i \in 1..Len(files)
        PROVE  IsCurrent(i)' = IsCurrent(i) /\ Sound(i)' = Sound(i)
    BY <1>1, CatalogsStay
  <1>4. conn'[q] # Absent => conn'[q] \in {target'} \cup withdrawn'
    BY <1>1, <1>2, NamesKept DEF MetOK
  <1>5. pc'[q] \in Sighted => target' # Absent \/ withdrawn' # {}
    BY <1>1, <1>2 DEF MetOK, NamesMove
  <1>6. pc'[q] = "open" /\ target' # Absent => Sound(target)'
    <2>1. CASE target' = target
      <3> SUFFICES ASSUME pc'[q] = "open", target' # Absent PROVE Sound(target)'
        OBVIOUS
      <3>1. target \in 1..Len(files)
        BY <1>1, <2>1 DEF Absent
      <3>2. Sound(target)
        BY <1>1, <1>2, <2>1 DEF MetOK
      <3>3. QED
        BY <1>1, <2>1, <3>1, <3>2 DEF Sound, IsCurrent, Grown
    <2>2. CASE target' # target
      BY <2>2, NewTarget
    <2>3. QED
      BY <2>1, <2>2
  <1>7. q \in Stores /\ conn'[q] # Absent => Sound(conn[q])'
    <2> SUFFICES ASSUME q \in Stores, conn'[q] # Absent PROVE Sound(conn[q])'
      OBVIOUS
    <2>1. conn[q] \in 1..Len(files) /\ Sound(conn[q])
      BY <1>1, <1>2 DEF MetOK, Absent
    <2>2. QED
      BY <1>1, <1>2, <2>1 DEF Sound, IsCurrent, Grown
  <1>8. pc'[q] = "link" => IsCurrent(draft[q])'
    <2> SUFFICES ASSUME pc'[q] = "link" PROVE IsCurrent(draft[q])'
      OBVIOUS
    <2>1. draft[q] \in 1..Len(files) /\ IsCurrent(draft[q])
      BY <1>1, <1>2 DEF MetOK, PlaceOK, Absent
    <2>2. QED
      BY <1>1, <1>2, <2>1 DEF IsCurrent, Grown
  <1>9. pending'[q] # {} => IsCurrent(conn[q])'
    <2> SUFFICES ASSUME pending'[q] # {} PROVE IsCurrent(conn[q])'
      OBVIOUS
    <2>1. conn[q] \in 1..Len(files) /\ IsCurrent(conn[q])
      BY <1>1, <1>2 DEF MetOK, PlaceOK, Absent
    <2>2. QED
      BY <1>1, <1>2, <2>1 DEF IsCurrent, Grown
  <1>10. QED
    BY <1>4, <1>5, <1>6, <1>7, <1>8, <1>9 DEF MetOK

\* A private database is finished before it may get a name.
LEMMA DraftsCurrent ==
    ASSUME LocalInv, NEW p \in Procs, OwnStep(p), pc'[p] = "link"
    PROVE  IsCurrent(draft[p])'
  <1>1. CtrlOK /\ HoldsOK /\ FilesTypeOK /\ backend' = backend
    BY OwnFrame DEF LocalInv, PlainTypeOK
  <1>2. CreateBuilds(p)
    <2> USE <1>1 DEF CtrlOK, Goto, Return, Refuse
    <2>1. CASE StoreStep(p)
      BY <2>1
         DEF StoreStep, StoreCalls, StoreInspects, StoreOpens, StoreReads, StoreInserts,
             StoreInsertsAndCommits, StoreStatementFails, StoreInsertTimesOut,
             StoreCommits, StoreCommitFails, StoreCloses
    <2>2. CASE CreateStep(p)
      BY <2>2
         DEF CreateStep, CreateLooks, CreateAborts, CreateLinks, CreateBeaten,
             CreateValidates, CreateWithdraws
    <2>3. CASE AdminStep(p)
      BY <2>3
         DEF AdminStep, AdminCalls, AdminAssesses, AdminSigns, AdminCopies,
             AdminCannotCopy, AdminCopied, AdminPublishes, AdminRejectsCopy,
             AdminUnlinks, AdminLocks, AdminCannotLock, AdminMigrates, AdminFinishes
    <2>4. CASE Crash(p)
      BY <2>4 DEF Crash
    <2>5. QED
      BY <2>1, <2>2, <2>3, <2>4 DEF OwnStep
  <1>3. /\ draft'[p] = Len(files) + 1 /\ Current(backend, CreatedCatalog(backend))
        /\ files'[Len(files) + 1] = NewFile(CreatedCatalog(backend))
    BY <1>1, <1>2, AppendGrows, NewFiles DEF CreateBuilds, HoldsOK
  <1>4. QED
    BY <1>1, <1>3, NewFiles DEF IsCurrent

LEMMA MetStep ==
    ASSUME LocalInv, FileInv, NEW p \in Procs, OwnStep(p)
    PROVE  MetOK(p)'
  <1>1. /\ Grown /\ backend' = backend /\ NamesMove(p)
        /\ MetOK(p) /\ PlaceOK(p)
        /\ target \in 0..Len(files) /\ Len(files) \in Nat /\ conn[p] \in 0..Len(files)
    BY OwnFrame, NamesInRange DEF LocalInv, FileInv
  <1>2. conn'[p] # Absent => conn'[p] \in {target'} \cup withdrawn'
    <2>1. CASE conn'[p] = conn[p]
      BY <1>1, <2>1, NamesKept DEF MetOK
    <2>2. CASE conn'[p] # conn[p]
      BY <2>2, Arrivals
    <2>3. QED
      BY <2>1, <2>2
  <1>3. pc'[p] \in Sighted => target' # Absent \/ withdrawn' # {}
    BY <1>1, Arrivals DEF MetOK, NamesMove
  <1>4. pc'[p] = "open" /\ target' # Absent => Sound(target)'
    <2> SUFFICES ASSUME pc'[p] = "open" PROVE Sound(target)'
      OBVIOUS
    <2>1. target' = target /\ target \in 1..Len(files) /\ IsCurrent(target)
      BY <1>1, Arrivals DEF Absent
    <2>2. QED
      BY <1>1, <2>1 DEF Sound, IsCurrent, Grown
  <1>5. p \in Stores /\ conn'[p] # Absent => Sound(conn[p])'
    <2> SUFFICES ASSUME p \in Stores, conn'[p] # Absent PROVE Sound(conn[p])'
      OBVIOUS
    <2>1. CASE conn'[p] = conn[p]
      <3>1. conn[p] \in 1..Len(files) /\ Sound(conn[p])
        BY <1>1, <2>1 DEF MetOK, Absent
      <3>2. QED
        BY <1>1, <2>1, <3>1 DEF Sound, IsCurrent, Grown
    <2>2. CASE conn'[p] # conn[p] /\ target' = target
      <3>1. conn'[p] = target /\ pc[p] = "open" /\ target \in 1..Len(files)
        BY <1>1, <2>2, Arrivals DEF Absent
      <3>2. Sound(target)
        BY <1>1, <2>2, <3>1 DEF MetOK
      <3>3. QED
        BY <1>1, <3>1, <3>2 DEF Sound, IsCurrent, Grown
    <2>3. CASE conn'[p] # conn[p] /\ target' # target
      <3>1. conn'[p] = target'
        BY <2>3, Arrivals
      <3>2. Sound(target)'
        BY <2>3, <3>1, NewTarget
      <3>3. QED
        BY <3>1, <3>2 DEF Sound, IsCurrent
    <2>4. QED
      BY <2>1, <2>2, <2>3
  <1>6. pc'[p] = "link" => IsCurrent(draft[p])'
    BY DraftsCurrent
  <1>7. pending'[p] # {} => IsCurrent(conn[p])'
    <2> SUFFICES ASSUME pending'[p] # {} PROVE IsCurrent(conn[p])'
      OBVIOUS
    <2>1. CASE pending'[p] = pending[p] /\ conn'[p] = conn[p]
      <3>1. conn[p] \in 1..Len(files) /\ IsCurrent(conn[p])
        BY <1>1, <2>1 DEF MetOK, PlaceOK, Absent
      <3>2. QED
        BY <1>1, <2>1, <3>1 DEF IsCurrent, Grown
    <2>2. CASE StoreInserts(p)
      <3>1. /\ conn'[p] = conn[p] /\ HasAttempts(conn[p])
            /\ conn[p] \in 1..Len(files) /\ conn[p] # Absent /\ p \in Stores
        BY <1>1, <2>2, Connected DEF StoreInserts, PlaceOK, AdminPlaces, Procs
      <3>2. IsCurrent(conn[p])
        BY <1>1, <3>1, SoundWithAttempts DEF MetOK
      <3>3. QED
        BY <1>1, <3>1, <3>2 DEF IsCurrent, Grown
    <2>3. QED
      BY <2>1, <2>2, PendingMoves DEF OwnStep
  <1>8. QED
    BY <1>2, <1>3, <1>4, <1>5, <1>6, <1>7 DEF MetOK

LEMMA FileInvInit == LocalInit => FileInv
  <1> SUFFICES ASSUME LocalInit PROVE FileInv
    OBVIOUS
  <1>1. \A p \in Procs : MetOK(p)
    BY DEF LocalInit, MetOK, Sighted
  <1>2. RowsSurvive
    BY DEF LocalInit, RowsSurvive
  <1>3. RowsInCurrent /\ TargetWhole
    <2>1. PICK state \in InitialStates :
            /\ files = IF state = "absent" THEN <<>>
                                           ELSE <<NewFile(InitialCatalog(backend, state))>>
            /\ target = Len(files)
      BY DEF LocalInit
    <2>2. CASE state = "absent"
      BY <2>1, <2>2 DEF RowsInCurrent, TargetWhole, Absent
    <2>3. CASE state # "absent"
      BY <2>1, <2>3 DEF RowsInCurrent, TargetWhole, NewFile
    <2>4. QED
      BY <2>2, <2>3
  <1>4. QED
    BY <1>1, <1>2, <1>3 DEF FileInv

LEMMA FileInvFrame ==
    ASSUME FileInv, UNCHANGED localVars
    PROVE  FileInv'
  BY DEF localVars, FileInv, MetOK, RowsInCurrent, TargetWhole, RowsSurvive, Sound,
         IsCurrent

\* The inductive invariant about contents holds in every reachable state: what
\* each process has found out about the schema is still so, accepted rows are
\* where they were committed, and the target's file is whole.
THEOREM FileInvariant == LocalSpec => []FileInv
  <1>1. LocalInv /\ FileInv /\ [LocalNext]_localVars => FileInv'
    <2> SUFFICES ASSUME LocalInv, FileInv, [LocalNext]_localVars PROVE FileInv'
      OBVIOUS
    <2>1. ASSUME NEW p \in Procs, OwnStep(p) PROVE FileInv'
      <3>1. \A q \in Procs : MetOK(q)'
        BY <2>1, MetStep, MetFrame
      <3>2. QED
        BY <2>1, <3>1, RowsStayCurrent, TargetStaysWhole, RowsKeepSurviving DEF FileInv
    <2>2. CASE LocalNext
      BY <2>1, <2>2, WhoseStep DEF OwnStep
    <2>3. CASE UNCHANGED localVars
      BY <2>3, FileInvFrame
    <2>4. QED
      BY <2>2, <2>3
  <1>2. QED
    BY <1>1, LocalInvariant, FileInvInit, PTL DEF LocalSpec

-----------------------------------------------------------------------------
(* What the runtime accepts is what its statements need.                    *)

LEMMA RowChanged ==
    ASSUME NEW n, NEW rows,
           rows = <<[component |-> MetricsComponent, version |-> MetricsSchemaVersion]>>
    PROVE  [rows EXCEPT ![1].version = n] = <<[component |-> MetricsComponent, version |-> n]>>
  <1>1. [rows EXCEPT ![1].version = n] = [rows EXCEPT ![1] = [rows[1] EXCEPT !.version = n]]
    OBVIOUS
  <1>2. [rows[1] EXCEPT !.version = n] = [component |-> MetricsComponent, version |-> n]
    OBVIOUS
  <1>3. \A x, y : [<<x>> EXCEPT ![1] = y] = <<y>>
    OBVIOUS
  <1>4. QED
    BY <1>1, <1>2, <1>3

LEMMA OneVersionRow ==
    ASSUME NEW n, NEW rows, rows = <<[component |-> MetricsComponent, version |-> n]>>
    PROVE  MetricsVersion(rows) \in {NoVersion, n}
  <1> DEFINE found == {i \in AcceptedComponents(rows) : rows[i].component = MetricsComponent}
  <1>1. DOMAIN rows = {1} /\ rows[1].version = n
    OBVIOUS
  <1>2. found \subseteq {1}
    BY <1>1 DEF AcceptedComponents
  <1>3. found # {} => (CHOOSE i \in found : TRUE) = 1
    BY <1>2
  <1>4. MetricsVersion(rows) =
            IF found = {} THEN NoVersion ELSE rows[CHOOSE i \in found : TRUE].version
    BY DEF MetricsVersion
  <1> HIDE DEF found
  <1>5. QED
    BY <1>1, <1>3, <1>4

\* Of the catalogs that can be found, inspect_schema_rows calls current only
\* those with both tables, the attempts' columns, this version and its indexes.
LEMMA CurrentIsUsable ==
    ASSUME backend \in Backends, NEW cat \in Catalogs, Current(backend, cat)
    PROVE  Usable(cat)
  <1> DEFINE made == CreatedCatalog(backend)
  <1>0. backend \in {"sqlite", "duckdb"}
    BY LocalAssumption
  <1>1. /\ VersionsTable \in cat.tables
        /\ ~(MetricsVersion(cat.versionRows) > MetricsSchemaVersion)
        /\ ~(MetricsVersion(cat.versionRows) < MetricsSchemaVersion)
        /\ MetricsVersion(cat.versionRows) # NoVersion
        /\ ~RequiredIndexError(cat.indexes, RequiredIndexes(backend))
    <2> DEFINE v == MetricsVersion(cat.versionRows)
               E == ExpectedProviderSchema
               R == RequiredIndexes(backend)
               rep == InspectSchemaRows(cat, R, E, TRUE)
    <2>1. Inspect(backend, cat) = rep
      BY <1>0 DEF Inspect
    <2>2. rep.state = "current"
      BY <2>1 DEF Current
    <2>3. \A s, m, n : Report(s, m, n).state = s /\ UnknownReport(m, n).state = "unknown"
      BY DEF Report, UnknownReport
    <2>4. rep = IF VersionsTable \notin cat.tables THEN
                    IF ~ProviderError(cat, E) THEN Report("implicit_v1", "absent", 1)
                    ELSE UnknownReport("absent", NoVersion)
                ELSE IF SchemaError(cat.versions, ExpectedVersionSchema) THEN
                    UnknownReport("invalid", v)
                ELSE IF ComponentError(cat.versionRows) THEN UnknownReport("invalid", NoVersion)
                ELSE IF v = NoVersion THEN UnknownReport("valid", NoVersion)
                ELSE IF v > MetricsSchemaVersion THEN Report("newer", "valid", v)
                ELSE IF v < MetricsSchemaVersion THEN Report("supported_older", "valid", v)
                ELSE IF ProviderError(cat, E) \/ RequiredIndexError(cat.indexes, R)
                THEN UnknownReport("valid", v)
                ELSE Report("current", "valid", v)
      BY DEF InspectSchemaRows
    <2> HIDE DEF rep, E, R
    <2>5. VersionsTable \in cat.tables
      BY <2>2, <2>3, <2>4
    <2>6. /\ ~(v > MetricsSchemaVersion) /\ ~(v < MetricsSchemaVersion)
          /\ v # NoVersion /\ ~RequiredIndexError(cat.indexes, R)
      <3> HIDE DEF v
      <3>1. QED
        BY <2>2, <2>3, <2>4, <2>5
    <2>7. QED
      BY <2>5, <2>6 DEF R
  <1>2. /\ made.tables = {AttemptsTable, VersionsTable}
        /\ made.provider = CreatedColumns(backend, ExpectedProviderSchema)
        /\ made.versionRows = <<[component |-> MetricsComponent,
                                 version |-> MetricsSchemaVersion]>>
        /\ made.indexes = IF RequiredIndexes(backend) = {} THEN <<>> ELSE <<PartitionIndex>>
    BY <1>0 DEF CreatedCatalog
  <1>3. [i \in DOMAIN made.provider |-> made.provider[i].name] =
        [i \in DOMAIN ExpectedProviderSchema |-> ExpectedProviderSchema[i].name]
    <2> DEFINE E == ExpectedProviderSchema
               raised(i) == [E[i] EXCEPT !.type = EngineType(backend, @),
                                         !.notNull = @ \/ (E[i].key /\ backend # "sqlite")]
    <2>1. \A i \in DOMAIN E : \E n, t, b, k : E[i] = Column(n, t, b, k)
      <3>1. /\ DOMAIN E = 1..4
            /\ E[1] = Column("id", "text", FALSE, TRUE)
            /\ E[2] = Column("timestamp", "text", TRUE, FALSE)
            /\ E[3] = Column("success", "integer", TRUE, FALSE)
            /\ E[4] = Column("latency_ms", "real", FALSE, FALSE)
        BY DEF ExpectedProviderSchema
      <3> HIDE DEF E
      <3>2. ASSUME NEW i \in DOMAIN E PROVE i = 1 \/ i = 2 \/ i = 3 \/ i = 4
        BY <3>1
      <3>3. /\ \E n, t, b, k : E[1] = Column(n, t, b, k)
            /\ \E n, t, b, k : E[2] = Column(n, t, b, k)
            /\ \E n, t, b, k : E[3] = Column(n, t, b, k)
            /\ \E n, t, b, k : E[4] = Column(n, t, b, k)
        BY <3>1, Zenon
      <3>4. QED
        BY <3>2, <3>3
    <2>2. ASSUME NEW i \in DOMAIN E PROVE raised(i).name = E[i].name
      <3>1. PICK n, t, b, k : E[i] = Column(n, t, b, k)
        BY <2>1
      <3>2. E[i] = [name |-> n, type |-> t, notNull |-> b, key |-> k, default |-> "none"]
        BY <3>1 DEF Column
      <3> HIDE DEF E
      <3>3. QED
        BY <3>2
    <2>3. made.provider = [i \in DOMAIN E |-> raised(i)]
      BY <1>2 DEF CreatedColumns
    <2> HIDE DEF E, raised
    <2>4. /\ DOMAIN made.provider = DOMAIN E
          /\ \A i \in DOMAIN E : made.provider[i].name = E[i].name
      BY <2>2, <2>3
    <2>5. QED
      BY <2>4 DEF E
  <1>4. Usable(made)
    BY <1>2, <1>3 DEF Usable, RequiredIndexes
  <1>5. CASE cat = EmptyCatalog
    BY <1>1, <1>5 DEF EmptyCatalog, VersionsTable
  <1>6. ASSUME NEW state \in InitialStates \ {"absent"}, cat = InitialCatalog(backend, state)
        PROVE  Usable(cat)
    <2>1. CASE state = "current"
      BY <1>4, <1>6, <2>1 DEF InitialCatalog
    <2>2. CASE state = "empty"
      BY <1>1, <1>6, <2>2 DEF InitialCatalog, EmptyCatalog
    <2>3. CASE state = "implicit_v1"
      <3>1. cat = [made EXCEPT !.tables = {AttemptsTable}, !.versions = <<>>,
                               !.versionRows = <<>>]
        BY <1>6, <2>3 DEF InitialCatalog
      <3>2. cat.tables = {AttemptsTable}
        BY <3>1 DEF CreatedCatalog
      <3>3. QED
        BY <1>1, <3>2 DEF AttemptsTable, VersionsTable
    <2>4. CASE state = "older"
      <3>1. cat = [made EXCEPT !.versionRows[1].version = 1]
        BY <1>6, <2>4 DEF InitialCatalog
      <3>2. cat.versionRows = [made.versionRows EXCEPT ![1].version = 1]
        BY <3>1 DEF CreatedCatalog
      <3>3. cat.versionRows = <<[component |-> MetricsComponent, version |-> 1]>>
        BY <1>2, <3>2, RowChanged
      <3>4. QED
        BY <1>1, <3>3, OneVersionRow DEF NoVersion, MetricsSchemaVersion
    <2>5. CASE state = "newer"
      <3>1. cat = [made EXCEPT !.versionRows[1].version = 3]
        BY <1>6, <2>5 DEF InitialCatalog
      <3>2. cat.versionRows = [made.versionRows EXCEPT ![1].version = 3]
        BY <3>1 DEF CreatedCatalog
      <3>3. cat.versionRows = <<[component |-> MetricsComponent, version |-> 3]>>
        BY <1>2, <3>2, RowChanged
      <3>4. QED
        BY <1>1, <3>3, OneVersionRow DEF NoVersion, MetricsSchemaVersion
    <2>6. CASE state = "no_index"
      <3>1. cat = [made EXCEPT !.indexes = <<>>]
        BY <1>6, <2>6 DEF InitialCatalog
      <3>2. /\ cat.indexes = <<>> /\ cat.tables = made.tables
            /\ cat.provider = made.provider /\ cat.versionRows = made.versionRows
        BY <3>1 DEF CreatedCatalog
      <3>3. RequiredIndexes(backend) = {}
        BY <1>1, <3>2 DEF RequiredIndexError, RequiredIndexes
      <3>4. QED
        BY <1>2, <1>3, <3>2, <3>3 DEF Usable
    <2>7. QED
      BY <2>1, <2>2, <2>3, <2>4, <2>5, <2>6, LocalAssumption
  <1>7. QED
    BY <1>4, <1>5, <1>6 DEF Catalogs, InitialCatalogs

\* No attempt is written into a database of another version, without the
\* indexes or half made, although the file that is inspected and the one that
\* is then opened are found by name, one after the other.
THEOREM RowsOnlyWhereAccepted == LocalSpec => []RowsOnlyInCurrent
  <1>1. LocalInv /\ FileInv => RowsOnlyInCurrent
    <2> SUFFICES ASSUME LocalInv, FileInv, NEW i \in DOMAIN files, files[i].rows # {}
                 PROVE  Usable(files[i].catalog)
      BY DEF RowsOnlyInCurrent
    <2>1. i \in 1..Len(files) /\ files[i].catalog \in Catalogs
      <3>1. files \in Seq(FileRecord)
        BY DEF LocalInv, FilesTypeOK
      <3>2. i \in 1..Len(files) /\ files[i] \in FileRecord
        BY <3>1
      <3>3. QED
        BY <3>2 DEF FileRecord
    <2>2. Current(backend, files[i].catalog)
      BY <2>1 DEF FileInv, RowsInCurrent, IsCurrent
    <2>3. QED
      BY <2>1, <2>2, CurrentIsUsable, LocalAssumption DEF LocalInv, PlainTypeOK, NamesOK
  <1>2. QED
    BY <1>1, LocalInvariant, FileInvariant, PTL

\* An attempt whose record_attempt returned stays in the database that has the
\* target's path, or in one that its creator took back, whatever any number of
\* stores, commands and crashes do afterwards.
THEOREM StoredRowsSurvive == LocalSpec => []RowsSurvive
  <1>1. FileInv => RowsSurvive
    BY DEF FileInv
  <1>2. QED
    BY <1>1, FileInvariant, PTL

\* No unfinished database can be found at the target's path, unless a creator
\* took a published one back.
THEOREM TargetIsWhole == LocalSpec => []TargetWhole
  <1>1. FileInv => TargetWhole
    BY DEF FileInv
  <1>2. QED
    BY <1>1, FileInvariant, PTL

-----------------------------------------------------------------------------
(* The backup.  Nobody has a connection to a file without one of the        *)
(* names, so a copy and a published backup do not change; the source only   *)
(* gains rows, so a count that has not changed means that no row has.       *)

\* The command has published its backup, or goes on after doing so.
Backed(p) == op[p] = "backup" /\ pc[p] \in {"published", "lock", "migrate"}

BackupOK(p) ==
    /\ pc[p] \in {"link", "verify"} => draft[p] \notin {target, backup} \cup withdrawn
    /\ Backed(p) => backup # Absent
    /\ pc[p] = "published" => \A q \in Procs : q # p => ~Backed(q)
    /\ withdrawn = {} /\ pc[p] = "verify" => files[draft[p]].rows \subseteq files[target].rows
    /\ withdrawn = {} /\ Backed(p) =>
           /\ files[backup].rows \subseteq files[target].rows
           /\ Cardinality(files[backup].rows) = sig[p][2]

BackupInv ==
    /\ \A p, q \in Procs : p # q /\ draft[p] # Absent => draft[p] # draft[q]
    /\ backup # Absent => backup \notin {target} \cup withdrawn
    /\ \A p \in Procs : BackupOK(p)

\* How a step changes the names a backup and the private files have.
BackupMoves(p) ==
    /\ draft'[p] \in {draft[p], Absent, Len(files) + 1}
    /\ \/ backup' = backup
       \/ AdminPublishes(p)
       \/ pc[p] = "published" /\ backup' = Absent
    /\ pc'[p] \in {"link", "verify"} =>
           /\ UNCHANGED <<target, backup, withdrawn>> /\ draft'[p] = Len(files) + 1
           /\ pc'[p] = "verify" =>
                  /\ pc[p] = "copying" /\ Len(files) < MaxFiles
                  /\ files' = Append(files, files[conn[p]])
    /\ pc'[p] = "published" => AdminPublishes(p)
    /\ op'[p] = "backup" /\ pc'[p] \in {"lock", "migrate"} =>
           /\ pc[p] \in {"published", "lock"} /\ op[p] = "backup" /\ sig'[p] = sig[p]
           /\ backup' = backup
    /\ pc[p] = "migrate" /\ pc'[p] = "final" =>
           Signature(conn[p]) = sig[p]

LEMMA BackupMoving ==
    ASSUME LocalInv, NEW p \in Procs, OwnStep(p)
    PROVE  BackupMoves(p)
  <1>0. /\ CtrlOK /\ HoldsOK /\ PlaceOK(p)
        /\ p \in Admins <=> p \notin Stores
    BY OpKinds DEF LocalInv, PlainTypeOK
  <1> USE DEF BackupMoves, CtrlOK, HoldsOK, Goto, Return, Refuse, Release, lockVars, fileVars
  <1>1. CASE p \in Stores /\ StoreStep(p)
    <2>1. CASE StoreCalls(p)
      BY <1>0, <1>1, <2>1 DEF StoreCalls
    <2>2. CASE StoreInspects(p)
      BY <1>0, <1>1, <2>2 DEF StoreInspects
    <2>3. CASE StoreOpens(p)
      BY <1>0, <1>1, <2>3 DEF StoreOpens
    <2>4. CASE StoreReads(p)
      BY <1>0, <1>1, <2>4 DEF StoreReads
    <2>5. CASE StoreInserts(p)
      BY <1>0, <1>1, <2>5 DEF StoreInserts
    <2>6. CASE StoreInsertsAndCommits(p)
      BY <1>0, <1>1, <2>6 DEF StoreInsertsAndCommits
    <2>7. CASE StoreStatementFails(p)
      BY <1>0, <1>1, <2>7 DEF StoreStatementFails
    <2>8. CASE StoreCommits(p)
      BY <1>0, <1>1, <2>8 DEF StoreCommits
    <2>9. CASE StoreCommitFails(p)
      BY <1>0, <1>1, <2>9 DEF StoreCommitFails
    <2>10. CASE StoreCloses(p)
      BY <1>0, <1>1, <2>10 DEF StoreCloses
    <2>11. CASE StoreInsertTimesOut(p)
      BY <1>0, <1>1, <2>11 DEF StoreInsertTimesOut
    <2>12. QED
      BY <1>1, <2>1, <2>2, <2>3, <2>4, <2>5, <2>6, <2>7, <2>8, <2>9, <2>10, <2>11
         DEF StoreStep
  <1>2. CASE CreateStep(p)
    <2>1. CASE CreateLooks(p)
      BY <1>0, <1>2, <2>1 DEF CreateLooks
    <2>2. CASE CreateBuilds(p)
      BY <1>0, <1>2, <2>2 DEF CreateBuilds
    <2>3. CASE CreateAborts(p)
      BY <1>0, <1>2, <2>3 DEF CreateAborts
    <2>4. CASE CreateLinks(p)
      BY <1>0, <1>2, <2>4 DEF CreateLinks
    <2>5. CASE CreateBeaten(p)
      BY <1>0, <1>2, <2>5 DEF CreateBeaten
    <2>6. CASE CreateValidates(p)
      BY <1>0, <1>2, <2>6 DEF CreateValidates
    <2>7. CASE CreateWithdraws(p)
      BY <1>0, <1>2, <2>7 DEF CreateWithdraws
    <2>8. QED
      BY <1>2, <2>1, <2>2, <2>3, <2>4, <2>5, <2>6, <2>7
         DEF CreateStep
  <1>3. CASE p \in Admins /\ AdminStep(p)
    <2>1. CASE AdminCalls(p)
      BY <1>0, <1>3, <2>1 DEF AdminCalls
    <2>2. CASE AdminAssesses(p)
      BY <1>0, <1>3, <2>2 DEF AdminAssesses
    <2>3. CASE AdminSigns(p)
      BY <1>0, <1>3, <2>3 DEF AdminSigns
    <2>4. CASE AdminCopies(p)
      BY <1>0, <1>3, <2>4 DEF AdminCopies
    <2>5. CASE AdminCannotCopy(p)
      BY <1>0, <1>3, <2>5 DEF AdminCannotCopy
    <2>6. CASE AdminCopied(p)
      BY <1>0, <1>3, <2>6 DEF AdminCopied
    <2>7. CASE AdminPublishes(p)
      BY <1>0, <1>3, <2>7 DEF AdminPublishes
    <2>8. CASE AdminRejectsCopy(p)
      BY <1>0, <1>3, <2>8 DEF AdminRejectsCopy
    <2>9. CASE AdminUnlinks(p)
      BY <1>0, <1>3, <2>9 DEF AdminUnlinks
    <2>10. CASE AdminLocks(p)
      BY <1>0, <1>3, <2>10 DEF AdminLocks
    <2>11. CASE AdminCannotLock(p)
      BY <1>0, <1>3, <2>11 DEF AdminCannotLock
    <2>12. CASE AdminMigrates(p)
      BY <1>0, <1>3, <2>12 DEF AdminMigrates
    <2>13. CASE AdminFinishes(p)
      BY <1>0, <1>3, <2>13 DEF AdminFinishes
    <2>14. QED
      BY <1>3, <2>1, <2>2, <2>3, <2>4, <2>5, <2>6, <2>7, <2>8, <2>9, <2>10, <2>11,
         <2>12, <2>13
         DEF AdminStep
  <1>4. CASE Crash(p)
    BY <1>0, <1>4 DEF Crash
  <1>5. QED
    BY <1>1, <1>2, <1>3, <1>4 DEF OwnStep

\* While nobody takes a file back, the path keeps the file it names.
LEMMA SameTarget ==
    ASSUME LocalInv, FileInv, NEW p \in Procs, OwnStep(p), withdrawn' = {}, target # Absent
    PROVE  withdrawn = {} /\ target' = target
  BY NamesMoving DEF NamesMove

\* A file without a name of its own, or with the backup's, does not change.
LEMMA Unconnected ==
    ASSUME LocalInv, FileInv, NEW p \in Procs, OwnStep(p),
           NEW i \in 1..Len(files), i \notin {target} \cup withdrawn
    PROVE  files'[i].rows = files[i].rows
  <1>1. ASSUME Writes(p) PROVE conn[p] \in {target} \cup withdrawn
    <2>1. pc[p] \in {"execute", "commit"}
      BY <1>1 DEF Writes, StoreInsertsAndCommits
    <2>2. conn[p] # Absent
      BY <2>1, Connected
    <2>3. QED
      BY <2>2 DEF FileInv, MetOK
  <1>2. QED
    BY <1>1, WritesAndCopies

LEMMA TargetGrows ==
    ASSUME LocalInv, FileInv, NEW p \in Procs, OwnStep(p), target # Absent,
           withdrawn' = {}
    PROVE  /\ withdrawn = {} /\ target' = target /\ target \in 1..Len(files)
           /\ files[target].rows \subseteq files'[target].rows
  BY SameTarget, OwnFrame, NamesInRange DEF Grown, Absent

\* Who has copied or backed up has seen the target.
LEMMA BackedSighted ==
    ASSUME LocalInv, FileInv, NEW p \in Procs, withdrawn = {},
           pc[p] \in {"copying", "verify", "published", "lock", "migrate"}
    PROVE  /\ target # Absent
           /\ pc[p] \in {"copying", "migrate"} => conn[p] = target
  BY DEF FileInv, MetOK, Sighted, LocalInv, PlaceOK

LEMMA NamesApart ==
    ASSUME LocalInv, FileInv, BackupInv, NEW p \in Procs, OwnStep(p)
    PROVE  /\ \A q, r \in Procs : q # r /\ draft'[q] # Absent => draft'[q] # draft'[r]
           /\ backup' # Absent => backup' \notin {target'} \cup withdrawn'
  <1>1. /\ OthersKeep(p) /\ BackupMoves(p) /\ NamesMove(p) /\ PlaceOK(p) /\ BackupOK(p)
        /\ Len(files) \in Nat /\ \A q \in Procs : draft[q] \in 0..Len(files)
        /\ target \in 0..Len(files) /\ backup \in 0..Len(files)
        /\ withdrawn \subseteq 1..Len(files)
    BY OwnFrame, NamesInRange, BackupMoving DEF LocalInv, BackupInv
  <1>2. ASSUME NEW q \in Procs, NEW r \in Procs, q # r, draft'[q] # Absent
        PROVE  draft'[q] # draft'[r]
    <2>1. \A s \in Procs : s # p => draft'[s] = draft[s] /\ draft[s] # Len(files) + 1
      BY <1>1 DEF OthersKeep
    <2>2. draft[q] # Absent => draft[q] # draft[r]
      BY <1>2 DEF BackupInv
    <2>3. draft[r] # Absent => draft[q] # draft[r]
      BY <1>2 DEF BackupInv
    <2>4. QED
      BY <1>1, <1>2, <2>1, <2>2, <2>3 DEF BackupMoves
  <1>3. ASSUME backup' # Absent PROVE backup' \notin {target'} \cup withdrawn'
    <2>1. CASE backup' = backup
      <3>1. backup \notin {target} \cup withdrawn /\ backup # Len(files) + 1
        BY <1>1, <1>3, <2>1 DEF BackupInv
      <3>2. pc[p] = "link" => backup # draft[p]
        BY <1>1 DEF BackupOK
      <3>3. QED
        BY <1>3, <2>1, <3>1, <3>2, <1>1 DEF NamesMove
    <2>2. CASE AdminPublishes(p)
      BY <1>1, <2>2 DEF AdminPublishes, BackupOK
    <2>3. QED
      BY <1>1, <1>3, <2>1, <2>2 DEF BackupMoves
  <1>4. QED
    BY <1>2, <1>3

LEMMA BackupOKOther ==
    ASSUME LocalInv, FileInv, BackupInv, NEW p \in Procs, OwnStep(p),
           NEW q \in Procs, q # p
    PROVE  BackupOK(q)'
  <1>1. /\ OthersKeep(p) /\ BackupMoves(p) /\ NamesMove(p) /\ Grown
        /\ PlaceOK(p) /\ PlaceOK(q) /\ BackupOK(p) /\ BackupOK(q)
        /\ Len(files) \in Nat /\ draft[q] \in 0..Len(files)
        /\ target \in 0..Len(files) /\ backup \in 0..Len(files)
        /\ withdrawn \subseteq 1..Len(files)
    BY OwnFrame, NamesInRange, BackupMoving DEF LocalInv, BackupInv
  <1>2. /\ pc'[q] = pc[q] /\ op'[q] = op[q] /\ draft'[q] = draft[q] /\ sig'[q] = sig[q]
        /\ Backed(q)' = Backed(q)
    BY <1>1 DEF OthersKeep, Backed
  <1>3. pc[q] \in {"link", "verify"} => draft[q] \notin {target', backup'} \cup withdrawn'
    <2> SUFFICES ASSUME pc[q] \in {"link", "verify"}
                 PROVE  draft[q] \notin {target', backup'} \cup withdrawn'
      OBVIOUS
    <2>1. /\ draft[q] # Absent /\ draft[q] # draft[p] /\ draft[q] # Len(files) + 1
          /\ draft[q] \notin {target, backup} \cup withdrawn
      BY <1>1 DEF PlaceOK, BackupInv, BackupOK
    <2>2. draft[q] \notin {target'} \cup withdrawn'
      BY <1>1, <2>1 DEF NamesMove
    <2>3. draft[q] # backup'
      BY <1>1, <2>1 DEF BackupMoves, AdminPublishes
    <2>4. QED
      BY <2>2, <2>3
  <1>4. Backed(q) => backup' = backup /\ backup # Absent
    <2> SUFFICES ASSUME Backed(q) PROVE backup' = backup /\ backup # Absent
      OBVIOUS
    <2>1. backup # Absent /\ pc[p] # "published"
      BY <1>1 DEF BackupOK
    <2>2. QED
      BY <1>1, <2>1 DEF BackupMoves, AdminPublishes
  <1>5. pc[q] = "published" => \A r \in Procs : r # q => ~Backed(r)'
    <2> SUFFICES ASSUME pc[q] = "published", NEW r \in Procs, r # q, Backed(r)'
                 PROVE  FALSE
      OBVIOUS
    <2>1. ~Backed(r) /\ backup # Absent
      <3>1. Backed(q)
        BY <1>1 DEF Backed, PlaceOK, Backing
      <3>2. QED
        BY <1>1, <3>1 DEF BackupOK
    <2>2. r = p
      BY <1>1, <2>1 DEF OthersKeep, Backed
    <2>3. ~AdminPublishes(p)
      BY <2>1 DEF AdminPublishes
    <2>4. QED
      BY <1>1, <2>1, <2>2, <2>3 DEF Backed, BackupMoves
  <1>6. withdrawn' = {} /\ pc[q] = "verify" =>
            files'[draft[q]].rows \subseteq files'[target'].rows
    <2> SUFFICES ASSUME withdrawn' = {}, pc[q] = "verify"
                 PROVE  files'[draft[q]].rows \subseteq files'[target'].rows
      OBVIOUS
    <2>1. withdrawn = {}
      BY <1>1 DEF NamesMove
    <2>2. /\ target' = target /\ files[target].rows \subseteq files'[target].rows
      BY <2>1, BackedSighted, TargetGrows
    <2>3. /\ draft[q] \in 1..Len(files) /\ draft[q] \notin {target} \cup withdrawn
          /\ files[draft[q]].rows \subseteq files[target].rows
      BY <1>1, <2>1 DEF PlaceOK, BackupOK, Absent
    <2>4. files'[draft[q]].rows = files[draft[q]].rows
      BY <2>3, Unconnected
    <2>5. QED
      BY <2>2, <2>3, <2>4
  <1>7. withdrawn' = {} /\ Backed(q) =>
            /\ files'[backup'].rows \subseteq files'[target'].rows
            /\ Cardinality(files'[backup'].rows) = sig'[q][2]
    <2> SUFFICES ASSUME withdrawn' = {}, Backed(q)
                 PROVE  /\ files'[backup'].rows \subseteq files'[target'].rows
                        /\ Cardinality(files'[backup'].rows) = sig'[q][2]
      OBVIOUS
    <2>1. withdrawn = {}
      BY <1>1 DEF NamesMove
    <2>2. /\ target' = target /\ files[target].rows \subseteq files'[target].rows
      BY <2>1, BackedSighted, TargetGrows DEF Backed
    <2>3. /\ backup' = backup /\ backup \in 1..Len(files)
          /\ backup \notin {target} \cup withdrawn
      BY <1>1, <1>4 DEF BackupInv, Absent
    <2>4. files'[backup].rows = files[backup].rows
      BY <2>3, Unconnected
    <2>5. /\ files[backup].rows \subseteq files[target].rows
          /\ Cardinality(files[backup].rows) = sig[q][2]
      BY <1>1, <2>1 DEF BackupOK
    <2>6. QED
      BY <1>2, <2>2, <2>3, <2>4, <2>5
  <1>8. QED
    BY <1>2, <1>3, <1>4, <1>5, <1>6, <1>7 DEF BackupOK

LEMMA BackupOKOwn ==
    ASSUME LocalInv, FileInv, BackupInv, NEW p \in Procs, OwnStep(p)
    PROVE  BackupOK(p)'
  <1>1. /\ OthersKeep(p) /\ BackupMoves(p) /\ NamesMove(p) /\ Grown
        /\ PlaceOK(p) /\ BackupOK(p) /\ FilesTypeOK
        /\ Len(files) \in Nat /\ draft[p] \in 0..Len(files)
        /\ target \in 0..Len(files) /\ backup \in 0..Len(files)
        /\ withdrawn \subseteq 1..Len(files)
    BY OwnFrame, NamesInRange, BackupMoving DEF LocalInv, BackupInv
  <1>2. pc'[p] \in {"link", "verify"} => draft'[p] \notin {target', backup'} \cup withdrawn'
    BY <1>1 DEF BackupMoves
  <1>3. \/ ~Backed(p)'
        \/ AdminPublishes(p)
        \/ Backed(p) /\ pc[p] \in {"published", "lock"} /\ backup' = backup /\ sig'[p] = sig[p]
    BY <1>1 DEF BackupMoves, Backed
  <1>4. ASSUME AdminPublishes(p)
        PROVE  /\ backup = Absent /\ backup' = draft[p] /\ draft[p] # Absent
               /\ UNCHANGED <<target, withdrawn, files, sig>>
               /\ pc[p] = "verify" /\ Signature(draft[p]) = sig[p]
    BY <1>1, <1>4 DEF AdminPublishes, PlaceOK
  <1>5. Backed(p)' => backup' # Absent
    BY <1>1, <1>3, <1>4 DEF BackupOK
  <1>6. pc'[p] = "published" => \A q \in Procs : q # p => ~Backed(q)'
    <2> SUFFICES ASSUME pc'[p] = "published", NEW q \in Procs, q # p PROVE ~Backed(q)'
      OBVIOUS
    <2>1. backup = Absent
      BY <1>1, <1>4 DEF BackupMoves
    <2>2. ~Backed(q)
      BY <2>1 DEF BackupInv, BackupOK
    <2>3. QED
      BY <1>1, <2>2 DEF OthersKeep, Backed
  <1>7. withdrawn' = {} /\ pc'[p] = "verify" =>
            files'[draft'[p]].rows \subseteq files'[target'].rows
    <2> SUFFICES ASSUME withdrawn' = {}, pc'[p] = "verify"
                 PROVE  files'[draft'[p]].rows \subseteq files'[target'].rows
      OBVIOUS
    <2>1. /\ pc[p] = "copying" /\ files' = Append(files, files[conn[p]])
          /\ draft'[p] = Len(files) + 1 /\ target' = target /\ withdrawn = {}
          /\ Len(files) < MaxFiles
      BY <1>1 DEF BackupMoves
    <2>2. /\ target # Absent /\ conn[p] = target /\ target \in 1..Len(files)
      BY <1>1, <2>1, BackedSighted DEF Absent
    <2>3. files[target] \in FileRecord
      BY <1>1, <2>2 DEF FilesTypeOK
    <2>4. files'[Len(files) + 1] = files[target] /\ files'[target] = files[target]
      BY <1>1, <2>1, <2>2, <2>3, AppendGrows
    <2>5. QED
      BY <2>1, <2>4
  <1>8. withdrawn' = {} /\ Backed(p)' =>
            /\ files'[backup'].rows \subseteq files'[target'].rows
            /\ Cardinality(files'[backup'].rows) = sig'[p][2]
    <2> SUFFICES ASSUME withdrawn' = {}, Backed(p)'
                 PROVE  /\ files'[backup'].rows \subseteq files'[target'].rows
                        /\ Cardinality(files'[backup'].rows) = sig'[p][2]
      OBVIOUS
    <2>1. withdrawn = {}
      BY <1>1 DEF NamesMove
    <2>2. CASE AdminPublishes(p)
      <3>1. files[draft[p]].rows \subseteq files[target].rows
        BY <1>1, <1>4, <2>1, <2>2 DEF BackupOK
      <3>2. Cardinality(files[draft[p]].rows) = sig[p][2]
        BY <1>4, <2>2 DEF Signature
      <3>3. QED
        BY <1>4, <2>2, <3>1, <3>2
    <2>3. CASE Backed(p) /\ pc[p] \in {"published", "lock"} /\ backup' = backup
               /\ sig'[p] = sig[p]
      <3>1. /\ target' = target /\ files[target].rows \subseteq files'[target].rows
        BY <2>1, <2>3, BackedSighted, TargetGrows
      <3>2. backup \in 1..Len(files) /\ backup \notin {target} \cup withdrawn
        BY <1>1, <2>3 DEF BackupInv, BackupOK, Absent
      <3>3. files'[backup].rows = files[backup].rows
        BY <3>2, Unconnected
      <3>4. /\ files[backup].rows \subseteq files[target].rows
            /\ Cardinality(files[backup].rows) = sig[p][2]
        BY <1>1, <2>1, <2>3 DEF BackupOK
      <3>5. QED
        BY <2>3, <3>1, <3>3, <3>4
    <2>4. QED
      BY <1>3, <2>2, <2>3
  <1>9. QED
    BY <1>2, <1>5, <1>6, <1>7, <1>8 DEF BackupOK

LEMMA BackupFrame ==
    ASSUME BackupInv, UNCHANGED localVars
    PROVE  BackupInv'
  <1>1. UNCHANGED <<files, target, backup, pc, op, draft, sig, withdrawn>>
    BY DEF localVars
  <1>2. QED
    BY <1>1 DEF BackupInv, BackupOK, Backed

LEMMA BackupInvInit == LocalInit => BackupInv
  BY DEF LocalInit, BackupInv, BackupOK, Backed

\* The inductive invariant about drafts and backups holds in every reachable
\* state: a draft belongs to the one process that made it, a published backup
\* is nobody's target, and a compared one still has the rows it was compared
\* for.
THEOREM BackupInvariant == LocalSpec => []BackupInv
  <1>1. LocalInv /\ FileInv /\ BackupInv /\ [LocalNext]_localVars => BackupInv'
    <2> SUFFICES ASSUME LocalInv, FileInv, BackupInv, [LocalNext]_localVars
                 PROVE  BackupInv'
      OBVIOUS
    <2>1. ASSUME NEW p \in Procs, OwnStep(p) PROVE BackupInv'
      <3>1. \A q \in Procs : BackupOK(q)'
        BY <2>1, BackupOKOwn, BackupOKOther
      <3>2. QED
        BY <2>1, <3>1, NamesApart DEF BackupInv
    <2>2. CASE LocalNext
      BY <2>1, <2>2, WhoseStep DEF OwnStep
    <2>3. CASE UNCHANGED localVars
      BY <2>3, BackupFrame
    <2>4. QED
      BY <2>2, <2>3
  <1>2. QED
    BY <1>1, LocalInvariant, FileInvariant, BackupInvInit, PTL DEF LocalSpec

\* A migration that asked for a backup goes ahead only if the backup has every
\* attempt of the source, whatever was recorded since the copy was made, as
\* long as no creator took a published database back.
THEOREM BackupIsFaithful == LocalSpec => BackupFaithful
  <1>1. LocalInv /\ FileInv /\ BackupInv /\ [LocalNext]_localVars =>
            [\A p \in Admins :
                pc[p] = "migrate" /\ pc'[p] = "final" /\ op[p] = "backup"
                    /\ withdrawn = {} =>
                  backup # Absent /\ files[backup].rows = files[conn[p]].rows]_localVars
    <2> SUFFICES ASSUME LocalInv, FileInv, BackupInv, LocalNext,
                        NEW p \in Admins, pc[p] = "migrate", pc'[p] = "final",
                        op[p] = "backup", withdrawn = {}
                 PROVE  backup # Absent /\ files[backup].rows = files[conn[p]].rows
      OBVIOUS
    <2>1. PICK q \in Procs : OwnStep(q)
      BY WhoseStep DEF OwnStep
    <2>2. p \in Procs /\ q = p
      BY <2>1, OwnFrame DEF OthersKeep, Procs
    <2>3. Signature(conn[p]) = sig[p]
      BY <2>1, <2>2, BackupMoving DEF BackupMoves
    <2>4. conn[p] = target /\ target \in 1..Len(files)
      BY <2>2, BackedSighted DEF LocalInv, PlainTypeOK, NamesOK, Absent
    <2>5. /\ backup # Absent /\ files[backup].rows \subseteq files[target].rows
          /\ Cardinality(files[backup].rows) = sig[p][2]
      BY <2>2 DEF BackupInv, BackupOK, Backed
    <2>6. Cardinality(files[target].rows) = sig[p][2]
      BY <2>3, <2>4 DEF Signature
    <2>7. IsFiniteSet(files[target].rows)
      <3>1. files[target] \in FileRecord
        BY <2>4 DEF LocalInv, FilesTypeOK
      <3>2. files[target].rows \in SUBSET Rows
        BY <3>1 DEF FileRecord
      <3>3. QED
        BY <3>2, FS_Subset, LocalAssumption
    <2>8. files[backup].rows = files[target].rows
      BY <2>5, <2>6, <2>7, FS_Subset
    <2>9. QED
      BY <2>4, <2>5, <2>8
  <1>2. QED
    BY <1>1, LocalInvariant, FileInvariant, BackupInvariant, PTL DEF LocalSpec, BackupFaithful
=============================================================================
