------------------------- MODULE PostgresStore_proofs -------------------------
(***************************************************************************)
(* Proofs about PostgresStore, for any number of threads, batches, create  *)
(* commands, pools and faults of the server: its types, the one pool of    *)
(* serialized use, the checked schema as long as close comes between the   *)
(* calls, and that it implements MetricsLog under any interleaving.        *)
(***************************************************************************)
EXTENDS PostgresStore, FiniteSetTheorems, TLAPS

\* What the place of a thread says about its call and about the pool it got.
Placed ==
    \A t \in Threads :
        /\ at[t] = "idle" => call[t] = "none"
        /\ at[t] \in {"pool", "build", "fetch", "flag", "validate", "mark", "checkout", "work"}
              => call[t] \in Batches \cup {Read, Inspection}
        /\ at[t] \in {"validate", "mark"} => call[t] # Inspection
        /\ at[t] \in {"unset", "unflag", "shut"} => call[t] = Close
        /\ at[t] \in {"flag", "validate", "mark", "checkout", "work", "unset", "unflag", "shut"}
              => held[t] \in 1..built

\* An open call has not been answered, and no batch is in two calls.
Unanswered ==
    /\ \A t \in Threads : call[t] \in Batches => reply[call[t]] = "open"
    /\ \A t, u \in Threads : call[t] \in Batches /\ call[t] = call[u] => t = u

\* A close that comes between the calls is alone.
CloseAlone ==
    orderly => \A t, u \in Threads :
        at[t] \in {"unset", "unflag", "shut"} /\ at[u] # "idle" => t = u

\* The flag, and every call that has passed it, follow a successful validation
\* since the last close.
SomeCheck ==
    orderly =>
        /\ validated => checked # {} \/ \E t \in Threads : at[t] = "unflag"
        /\ \A t \in Threads :
               /\ at[t] = "mark" => held[t] \in checked
               /\ at[t] \in {"checkout", "work"} /\ call[t] # Inspection => checked # {}

\* One call at a time.
OneCall ==
    serial => \A t, u \in Threads : at[t] # "idle" /\ at[u] # "idle" => t = u

\* What the one call at a time finds and leaves: the pool it got is the pool of
\* the store, an open one, which the flag says is validated.
SerialPool ==
    serial =>
        /\ \A i \in open :
               i = pool \/ \E t \in Threads : at[t] \in {"unflag", "shut"} /\ held[t] = i
        /\ pool # NoPool => pool \in open
        /\ \A t \in Threads :
               /\ at[t] \in {"build", "unflag", "shut"} => pool = NoPool
               /\ at[t] = "fetch" => pool # NoPool
               /\ at[t] \in {"flag", "validate", "mark", "checkout", "work", "unset"}
                     => held[t] = pool
               /\ at[t] \in {"checkout", "work"} /\ call[t] # Inspection => held[t] \in checked

SerialFlag ==
    serial => (validated => pool \in checked \/ \E t \in Threads : at[t] = "unflag")

PgInv ==
    /\ PgTypeOK /\ Placed /\ Unanswered
    /\ CloseAlone /\ SomeCheck
    /\ OneCall /\ SerialPool /\ SerialFlag

----------------------------------------------------------------------------
(* The steps of one call.  Each keeps the invariant.                        *)

LEMMA InitialPg == PgInit => PgInv
  <1> SUFFICES ASSUME PgInit PROVE PgInv
    OBVIOUS
  <1> USE PostgresAssumption DEF PgInit, NoPool
  <1>1. PgTypeOK
    <2>1. remote \in RemoteSchemas
      BY DEF RemoteSchemas
    <2>2. /\ at \in [Threads -> PgPlaces] /\ held \in [Threads -> 0..built]
          /\ call \in [Threads -> Batches \cup {Read, Inspection, Close, "none"}]
          /\ txn \in [Threads -> SUBSET AllRows]
          /\ reply \in [Batches -> {"none", "open", "stored", "failed"}]
          /\ creator \in [Creators -> {"idle", "looked"}]
      BY DEF PgPlaces
    <2>3. /\ usage \in Usages /\ validated \in BOOLEAN
          /\ table \subseteq AllRows
          /\ open \subseteq 1..built /\ checked \subseteq 1..built
      OBVIOUS
    <2>4. /\ pool \in 0..built /\ built \in 0..MaxPools
          /\ serverFaults \in 0..MaxServerFaults
      OBVIOUS
    <2>5. \A t \in Threads : txn[t] = {}
      OBVIOUS
    <2>6. QED
      BY <2>1, <2>2, <2>3, <2>4, <2>5 DEF PgTypeOK
  <1>2. Placed /\ CloseAlone /\ SomeCheck /\ OneCall /\ SerialPool /\ SerialFlag
    BY DEF Placed, CloseAlone, SomeCheck, OneCall, SerialPool, SerialFlag
  <1>3. Unanswered
    BY DEF Unanswered
  <1>4. QED
    BY <1>1, <1>2, <1>3 DEF PgInv

\* No step changes how the store is used, and serialized use is orderly.
LEMMA UsageStays ==
    ASSUME NEW t \in Threads, PgStep(t)
    PROVE  (serial' <=> serial) /\ (orderly' <=> orderly) /\ (serial => orderly)
  <1>1. usage' = usage
    BY DEF PgStep, PgCalls, PgLooksForPool, PgBuilds, PgCannotBuild, PgFetches, PgReadsFlag,
           PgValidates, PgMarks, PgChecksOut, PgInserts, PgStatementFails, PgCommits,
           PgCommitLost, PgReads, PgCloses, PgUnsetsPool, PgUnsetsFlag, PgShutsPool
  <1>2. QED
    BY <1>1 DEF serial, orderly

\* Getting a pool: the steps before a connection is asked for.
LEMMA PoolStepsKeep ==
    ASSUME PgInv, NEW t \in Threads,
           PgLooksForPool(t) \/ PgBuilds(t) \/ PgFetches(t) \/ PgCannotBuild(t)
    PROVE  PgInv'
  <1>0. (serial' <=> serial) /\ (orderly' <=> orderly) /\ (serial => orderly)
    BY UsageStays DEF PgStep
  <1> USE <1>0, PostgresAssumption DEF PgInv, NoPool, Move, End, poolVars, serverVars
  <1>1. CASE PgLooksForPool(t)
    <2> USE <1>1 DEF PgLooksForPool
    <2>1. PgTypeOK'
      BY DEF PgTypeOK, PgPlaces
    <2>2. Placed' /\ Unanswered'
      BY DEF PgTypeOK, Placed, Unanswered
    <2>3. CloseAlone' /\ SomeCheck' /\ OneCall'
      <3>1. CloseAlone'
        BY DEF PgTypeOK, Placed, CloseAlone
      <3>2. SomeCheck'
        BY DEF PgTypeOK, Placed, CloseAlone, SomeCheck
      <3>3. OneCall'
        BY DEF PgTypeOK, OneCall
      <3>4. QED
        BY <3>1, <3>2, <3>3
    <2>4. SerialPool' /\ SerialFlag'
      BY DEF PgTypeOK, SerialPool, SerialFlag, OneCall
    <2>5. QED
      BY <2>1, <2>2, <2>3, <2>4
  <1>2. CASE PgBuilds(t)
    <2> USE <1>2 DEF PgBuilds
    <2>1. PgTypeOK'
      BY DEF PgTypeOK, PgPlaces
    <2>2. Placed' /\ Unanswered'
      BY DEF PgTypeOK, Placed, Unanswered
    <2>3. CloseAlone' /\ SomeCheck' /\ OneCall'
      <3>1. CloseAlone'
        BY DEF PgTypeOK, Placed, CloseAlone
      <3>2. SomeCheck'
        BY DEF PgTypeOK, Placed, CloseAlone, SomeCheck
      <3>3. OneCall'
        BY DEF PgTypeOK, OneCall
      <3>4. QED
        BY <3>1, <3>2, <3>3
    <2>4. SerialPool'
      BY DEF PgTypeOK, SerialPool, OneCall
    <2>5. SerialFlag'
      BY DEF PgTypeOK, SerialPool, SerialFlag, OneCall
    <2>6. QED
      BY <2>1, <2>2, <2>3, <2>4, <2>5
  <1>3. CASE PgFetches(t)
    <2> USE <1>3 DEF PgFetches
    <2>1. PgTypeOK'
      BY DEF PgTypeOK, PgPlaces
    <2>2. Placed' /\ Unanswered'
      BY DEF PgTypeOK, Placed, Unanswered
    <2>3. CloseAlone' /\ SomeCheck' /\ OneCall'
      <3>1. CloseAlone'
        BY DEF PgTypeOK, Placed, CloseAlone
      <3>2. SomeCheck'
        BY DEF PgTypeOK, Placed, CloseAlone, SomeCheck
      <3>3. OneCall'
        BY DEF PgTypeOK, OneCall
      <3>4. QED
        BY <3>1, <3>2, <3>3
    <2>4. SerialPool' /\ SerialFlag'
      BY DEF PgTypeOK, SerialPool, SerialFlag, OneCall
    <2>5. QED
      BY <2>1, <2>2, <2>3, <2>4
  <1>4. CASE PgCannotBuild(t)
    <2> USE <1>4 DEF PgCannotBuild
    <2>1. PgTypeOK'
      BY DEF PgTypeOK, PgPlaces
    <2>2. Placed' /\ Unanswered'
      BY DEF PgTypeOK, Placed, Unanswered
    <2>3. CloseAlone' /\ SomeCheck' /\ OneCall'
      <3>1. CloseAlone'
        BY DEF PgTypeOK, Placed, CloseAlone
      <3>2. SomeCheck'
        BY DEF PgTypeOK, Placed, CloseAlone, SomeCheck
      <3>3. OneCall'
        BY DEF PgTypeOK, OneCall
      <3>4. QED
        BY <3>1, <3>2, <3>3
    <2>4. SerialPool' /\ SerialFlag'
      BY DEF PgTypeOK, SerialPool, SerialFlag, OneCall
    <2>5. QED
      BY <2>1, <2>2, <2>3, <2>4
  <1>5. QED
    BY <1>1, <1>2, <1>3, <1>4

\* Finding the schema current, or that it was, and asking for a connection.
LEMMA CheckStepsKeep ==
    ASSUME PgInv, NEW t \in Threads,
           PgReadsFlag(t) \/ PgValidates(t) \/ PgMarks(t) \/ PgChecksOut(t)
    PROVE  PgInv'
  <1>0. (serial' <=> serial) /\ (orderly' <=> orderly) /\ (serial => orderly)
    BY UsageStays DEF PgStep
  <1> USE <1>0, PostgresAssumption DEF PgInv, NoPool, Move, End, poolVars, serverVars,
          ServerFault
  <1>1. CASE PgReadsFlag(t)
    <2> USE <1>1 DEF PgReadsFlag
    <2>1. PgTypeOK'
      BY DEF PgTypeOK, PgPlaces
    <2>2. Placed' /\ Unanswered'
      BY DEF PgTypeOK, Placed, Unanswered
    <2>3. CloseAlone' /\ SomeCheck' /\ OneCall'
      <3>1. CloseAlone'
        BY DEF PgTypeOK, Placed, CloseAlone
      <3>2. SomeCheck'
        BY DEF PgTypeOK, Placed, CloseAlone, SomeCheck
      <3>3. OneCall'
        BY DEF PgTypeOK, OneCall
      <3>4. QED
        BY <3>1, <3>2, <3>3
    <2>4. SerialPool' /\ SerialFlag'
      BY DEF PgTypeOK, Placed, SerialPool, SerialFlag, OneCall
    <2>5. QED
      BY <2>1, <2>2, <2>3, <2>4
  <1>2. CASE PgValidates(t)
    <2> USE <1>2 DEF PgValidates
    <2>0. held[t] \in 1..built
      BY DEF Placed
    <2>1. checked' \subseteq 1..built
      BY <2>0 DEF PgTypeOK
    <2>2. PgTypeOK'
      <3>1. CASE at' = [at EXCEPT ![t] = "mark"] /\ UNCHANGED <<call, held, txn, reply>>
        BY <2>1, <3>1 DEF PgTypeOK, PgPlaces
      <3>2. CASE End(t, "failed") /\ UNCHANGED checked
        BY <3>2 DEF PgTypeOK, PgPlaces
      <3>3. QED
        BY <3>1, <3>2
    <2>3. Placed' /\ Unanswered'
      BY DEF PgTypeOK, Placed, Unanswered
    <2>4. CloseAlone' /\ SomeCheck' /\ OneCall'
      <3>1. CloseAlone'
        BY DEF PgTypeOK, Placed, CloseAlone
      <3>2. SomeCheck'
        BY DEF PgTypeOK, Placed, CloseAlone, SomeCheck
      <3>3. OneCall'
        BY DEF PgTypeOK, OneCall
      <3>4. QED
        BY <3>1, <3>2, <3>3
    <2>5. SerialPool' /\ SerialFlag'
      BY DEF PgTypeOK, Placed, SerialPool, SerialFlag, OneCall
    <2>6. QED
      BY <2>2, <2>3, <2>4, <2>5
  <1>3. CASE PgMarks(t)
    <2> USE <1>3 DEF PgMarks
    <2>1. PgTypeOK'
      BY DEF PgTypeOK, PgPlaces
    <2>2. Placed' /\ Unanswered'
      BY DEF PgTypeOK, Placed, Unanswered
    <2>3. CloseAlone' /\ SomeCheck' /\ OneCall'
      <3>1. CloseAlone'
        BY DEF PgTypeOK, Placed, CloseAlone
      <3>2. SomeCheck'
        BY DEF PgTypeOK, Placed, CloseAlone, SomeCheck
      <3>3. OneCall'
        BY DEF PgTypeOK, OneCall
      <3>4. QED
        BY <3>1, <3>2, <3>3
    <2>4. SerialPool' /\ SerialFlag'
      BY DEF PgTypeOK, Placed, SomeCheck, SerialPool, SerialFlag, OneCall
    <2>5. QED
      BY <2>1, <2>2, <2>3, <2>4
  <1>4. CASE PgChecksOut(t)
    <2> USE <1>4 DEF PgChecksOut
    <2>1. PgTypeOK'
      BY DEF PgTypeOK, PgPlaces
    <2>2. Placed' /\ Unanswered'
      BY DEF PgTypeOK, Placed, Unanswered
    <2>3. CloseAlone' /\ SomeCheck' /\ OneCall'
      <3>1. CloseAlone'
        BY DEF PgTypeOK, Placed, CloseAlone
      <3>2. SomeCheck'
        BY DEF PgTypeOK, Placed, CloseAlone, SomeCheck
      <3>3. OneCall'
        BY DEF PgTypeOK, OneCall
      <3>4. QED
        BY <3>1, <3>2, <3>3
    <2>4. SerialPool' /\ SerialFlag'
      BY DEF PgTypeOK, Placed, SerialPool, SerialFlag, OneCall
    <2>5. QED
      BY <2>1, <2>2, <2>3, <2>4
  <1>5. QED
    BY <1>1, <1>2, <1>3, <1>4

\* The statements of a call and its end.
LEMMA WorkStepsKeep ==
    ASSUME PgInv, NEW t \in Threads,
           PgInserts(t) \/ PgStatementFails(t) \/ PgCommits(t) \/ PgCommitLost(t) \/ PgReads(t)
    PROVE  PgInv'
  <1>0. (serial' <=> serial) /\ (orderly' <=> orderly) /\ (serial => orderly)
    BY UsageStays DEF PgStep
  <1> USE <1>0, PostgresAssumption DEF PgInv, NoPool, Move, End, poolVars, serverVars,
          ServerFault
  <1>1. CASE PgInserts(t)
    <2> USE <1>1 DEF PgInserts
    <2>1. PICK k \in 1..Chunks[call[t]] :
            txn' = [txn EXCEPT ![t] = @ \cup {Row(call[t], k)}]
      BY Zenon
    <2>2. Row(call[t], k) \in RowsOf(call[t])
      BY DEF RowsOf
    <2>3. RowsOf(call[t]) \subseteq AllRows
      BY DEF AllRows
    <2>4. PgTypeOK'
      BY <2>1, <2>2, <2>3 DEF PgTypeOK
    <2>5. Placed' /\ Unanswered'
      BY DEF PgTypeOK, Placed, Unanswered
    <2>6. CloseAlone' /\ SomeCheck' /\ OneCall'
      <3>1. CloseAlone'
        BY DEF PgTypeOK, Placed, CloseAlone
      <3>2. SomeCheck'
        BY DEF PgTypeOK, Placed, CloseAlone, SomeCheck
      <3>3. OneCall'
        BY DEF PgTypeOK, OneCall
      <3>4. QED
        BY <3>1, <3>2, <3>3
    <2>7. SerialPool' /\ SerialFlag'
      BY DEF PgTypeOK, SerialPool, SerialFlag
    <2>8. QED
      BY <2>4, <2>5, <2>6, <2>7
  <1>2. CASE PgStatementFails(t)
    <2> USE <1>2 DEF PgStatementFails
    <2>1. PgTypeOK'
      BY DEF PgTypeOK, PgPlaces
    <2>2. Placed' /\ Unanswered'
      BY DEF PgTypeOK, Placed, Unanswered
    <2>3. CloseAlone' /\ SomeCheck' /\ OneCall'
      <3>1. CloseAlone'
        BY DEF PgTypeOK, Placed, CloseAlone
      <3>2. SomeCheck'
        BY DEF PgTypeOK, Placed, CloseAlone, SomeCheck
      <3>3. OneCall'
        BY DEF PgTypeOK, OneCall
      <3>4. QED
        BY <3>1, <3>2, <3>3
    <2>4. SerialPool' /\ SerialFlag'
      BY DEF PgTypeOK, Placed, SerialPool, SerialFlag, OneCall
    <2>5. QED
      BY <2>1, <2>2, <2>3, <2>4
  <1>3. CASE PgCommits(t)
    <2> USE <1>3 DEF PgCommits
    <2>1. PgTypeOK'
      BY DEF PgTypeOK, PgPlaces
    <2>2. Placed' /\ Unanswered'
      BY DEF PgTypeOK, Placed, Unanswered
    <2>3. CloseAlone' /\ SomeCheck' /\ OneCall'
      <3>1. CloseAlone'
        BY DEF PgTypeOK, Placed, CloseAlone
      <3>2. SomeCheck'
        BY DEF PgTypeOK, Placed, CloseAlone, SomeCheck
      <3>3. OneCall'
        BY DEF PgTypeOK, OneCall
      <3>4. QED
        BY <3>1, <3>2, <3>3
    <2>4. SerialPool' /\ SerialFlag'
      BY DEF PgTypeOK, Placed, SerialPool, SerialFlag, OneCall
    <2>5. QED
      BY <2>1, <2>2, <2>3, <2>4
  <1>4. CASE PgCommitLost(t)
    <2> USE <1>4 DEF PgCommitLost
    <2>1. PgTypeOK'
      BY DEF PgTypeOK, PgPlaces
    <2>2. Placed' /\ Unanswered'
      BY DEF PgTypeOK, Placed, Unanswered
    <2>3. CloseAlone' /\ SomeCheck' /\ OneCall'
      <3>1. CloseAlone'
        BY DEF PgTypeOK, Placed, CloseAlone
      <3>2. SomeCheck'
        BY DEF PgTypeOK, Placed, CloseAlone, SomeCheck
      <3>3. OneCall'
        BY DEF PgTypeOK, OneCall
      <3>4. QED
        BY <3>1, <3>2, <3>3
    <2>4. SerialPool' /\ SerialFlag'
      BY DEF PgTypeOK, Placed, SerialPool, SerialFlag, OneCall
    <2>5. QED
      BY <2>1, <2>2, <2>3, <2>4
  <1>5. CASE PgReads(t)
    <2> USE <1>5 DEF PgReads
    <2>1. PgTypeOK'
      BY DEF PgTypeOK, PgPlaces
    <2>2. Placed' /\ Unanswered'
      BY DEF PgTypeOK, Placed, Unanswered
    <2>3. CloseAlone' /\ SomeCheck' /\ OneCall'
      <3>1. CloseAlone'
        BY DEF PgTypeOK, Placed, CloseAlone
      <3>2. SomeCheck'
        BY DEF PgTypeOK, Placed, CloseAlone, SomeCheck
      <3>3. OneCall'
        BY DEF PgTypeOK, OneCall
      <3>4. QED
        BY <3>1, <3>2, <3>3
    <2>4. SerialPool' /\ SerialFlag'
      BY DEF PgTypeOK, Placed, SerialPool, SerialFlag, OneCall
    <2>5. QED
      BY <2>1, <2>2, <2>3, <2>4
  <1>6. QED
    BY <1>1, <1>2, <1>3, <1>4, <1>5

\* Starting a call.
LEMMA CallStepsKeep ==
    ASSUME PgInv, NEW t \in Threads,
           PgCalls(t)
    PROVE  PgInv'
  <1>0. (serial' <=> serial) /\ (orderly' <=> orderly) /\ (serial => orderly)
    BY UsageStays DEF PgStep
  <1> USE <1>0, PostgresAssumption DEF PgInv, NoPool, Move, End, poolVars, serverVars,
          ServerFault
  <1>1. CASE PgCalls(t)
    <2> USE <1>1 DEF PgCalls
    <2>1. PgTypeOK'
      BY DEF PgTypeOK, PgPlaces
    <2>2. Placed' /\ Unanswered'
      BY DEF PgTypeOK, Placed, Unanswered
    <2>3. CloseAlone' /\ SomeCheck' /\ OneCall'
      <3>1. CloseAlone'
        BY DEF PgTypeOK, Placed, CloseAlone
      <3>2. SomeCheck'
        BY DEF PgTypeOK, Placed, CloseAlone, SomeCheck
      <3>3. OneCall'
        BY DEF PgTypeOK, OneCall
      <3>4. QED
        BY <3>1, <3>2, <3>3
    <2>4. SerialPool' /\ SerialFlag'
      BY DEF PgTypeOK, Placed, SerialPool, SerialFlag, OneCall
    <2>5. QED
      BY <2>1, <2>2, <2>3, <2>4
  <1>2. QED
    BY <1>1

\* The four steps of close.
LEMMA CloseStepsKeep ==
    ASSUME PgInv, NEW t \in Threads,
           PgCloses(t) \/ PgUnsetsPool(t) \/ PgUnsetsFlag(t) \/ PgShutsPool(t)
    PROVE  PgInv'
  <1>0. (serial' <=> serial) /\ (orderly' <=> orderly) /\ (serial => orderly)
    BY UsageStays DEF PgStep
  <1> USE <1>0, PostgresAssumption DEF PgInv, NoPool, Move, End, poolVars, serverVars,
          ServerFault
  <1>1. CASE PgCloses(t)
    <2> USE <1>1 DEF PgCloses
    <2>1. PgTypeOK'
      BY DEF PgTypeOK, PgPlaces
    <2>2. Placed' /\ Unanswered'
      BY DEF PgTypeOK, Placed, Unanswered
    <2>3. CloseAlone' /\ SomeCheck' /\ OneCall'
      <3>1. CloseAlone'
        BY DEF PgTypeOK, Placed, CloseAlone
      <3>2. SomeCheck'
        BY DEF PgTypeOK, Placed, CloseAlone, SomeCheck
      <3>3. OneCall'
        BY DEF PgTypeOK, OneCall
      <3>4. QED
        BY <3>1, <3>2, <3>3
    <2>4. SerialPool' /\ SerialFlag'
      BY DEF PgTypeOK, Placed, SerialPool, SerialFlag, OneCall
    <2>5. QED
      BY <2>1, <2>2, <2>3, <2>4
  <1>2. CASE PgUnsetsPool(t)
    <2> USE <1>2 DEF PgUnsetsPool
    <2>1. PgTypeOK'
      BY DEF PgTypeOK, PgPlaces
    <2>2. Placed' /\ Unanswered'
      BY DEF PgTypeOK, Placed, Unanswered
    <2>3. CloseAlone' /\ SomeCheck' /\ OneCall'
      <3>1. CloseAlone'
        BY DEF PgTypeOK, Placed, CloseAlone
      <3>2. SomeCheck'
        BY DEF PgTypeOK, Placed, CloseAlone, SomeCheck
      <3>3. OneCall'
        BY DEF PgTypeOK, OneCall
      <3>4. QED
        BY <3>1, <3>2, <3>3
    <2>4. SerialPool' /\ SerialFlag'
      BY DEF PgTypeOK, Placed, SerialPool, SerialFlag, OneCall
    <2>5. QED
      BY <2>1, <2>2, <2>3, <2>4
  <1>3. CASE PgUnsetsFlag(t)
    <2> USE <1>3 DEF PgUnsetsFlag
    <2>1. PgTypeOK'
      BY DEF PgTypeOK, PgPlaces
    <2>2. Placed' /\ Unanswered'
      BY DEF PgTypeOK, Placed, Unanswered
    <2>3. CloseAlone' /\ SomeCheck' /\ OneCall'
      <3>1. CloseAlone'
        BY DEF PgTypeOK, Placed, CloseAlone
      <3>2. SomeCheck'
        BY DEF PgTypeOK, Placed, CloseAlone, SomeCheck
      <3>3. OneCall'
        BY DEF PgTypeOK, OneCall
      <3>4. QED
        BY <3>1, <3>2, <3>3
    <2>4. SerialPool' /\ SerialFlag'
      BY DEF PgTypeOK, Placed, SerialPool, SerialFlag, OneCall
    <2>5. QED
      BY <2>1, <2>2, <2>3, <2>4
  <1>4. CASE PgShutsPool(t)
    <2> USE <1>4 DEF PgShutsPool
    <2>1. call[t] \notin Batches /\ reply' = reply
      BY DEF PgTypeOK, Placed
    <2>2. open' \subseteq 1..built
      BY DEF PgTypeOK
    <2>3. PgTypeOK'
      BY <2>1, <2>2 DEF PgTypeOK, PgPlaces
    <2>4. Placed' /\ Unanswered'
      BY DEF PgTypeOK, Placed, Unanswered
    <2>5. CloseAlone' /\ SomeCheck' /\ OneCall'
      <3>1. CloseAlone'
        BY DEF PgTypeOK, Placed, CloseAlone
      <3>2. SomeCheck'
        BY DEF PgTypeOK, Placed, CloseAlone, SomeCheck
      <3>3. OneCall'
        BY DEF PgTypeOK, OneCall
      <3>4. QED
        BY <3>1, <3>2, <3>3
    <2>6. SerialPool' /\ SerialFlag'
      BY DEF PgTypeOK, Placed, SerialPool, SerialFlag, OneCall
    <2>7. QED
      BY <2>3, <2>4, <2>5, <2>6
  <1>5. QED
    BY <1>1, <1>2, <1>3, <1>4

\* What happens on the server leaves the store alone.
LEMMA ServerStepsKeep ==
    ASSUME PgInv,
           (\E c \in Creators : CreatorLooks(c) \/ CreatorCommits(c)) \/ OperatorUpgrades
    PROVE  PgInv'
  <1> USE PostgresAssumption DEF PgInv, callVars, poolVars
  <1>1. UNCHANGED <<usage, callVars, poolVars>>
    BY DEF CreatorLooks, CreatorCommits, OperatorUpgrades
  <1>2. remote' \in RemoteSchemas
    BY DEF PgTypeOK, RemoteSchemas, CreatorLooks, CreatorCommits, OperatorUpgrades
  <1>3. creator' \in [Creators -> {"idle", "looked"}]
    BY DEF PgTypeOK, CreatorLooks, CreatorCommits, OperatorUpgrades
  <1>4. UNCHANGED <<table, serverFaults>>
    BY DEF CreatorLooks, CreatorCommits, OperatorUpgrades
  <1>5. PgTypeOK'
    BY <1>1, <1>2, <1>3, <1>4 DEF PgTypeOK
  <1>6. (Placed /\ Unanswered /\ CloseAlone /\ SomeCheck)'
    BY <1>1 DEF Placed, Unanswered, CloseAlone, SomeCheck, orderly
  <1>7. (OneCall /\ SerialPool /\ SerialFlag)'
    BY <1>1 DEF OneCall, SerialPool, SerialFlag, serial
  <1>8. QED
    BY <1>5, <1>6, <1>7

LEMMA StutterKeepsPg == ASSUME PgInv, UNCHANGED pgVars PROVE PgInv'
  <1> USE DEF PgInv, pgVars, callVars, poolVars, serverVars
  <1>1. PgTypeOK'
    BY DEF PgTypeOK
  <1>2. (Placed /\ Unanswered /\ CloseAlone /\ SomeCheck)'
    BY DEF Placed, Unanswered, CloseAlone, SomeCheck, orderly
  <1>3. (OneCall /\ SerialPool /\ SerialFlag)'
    BY DEF OneCall, SerialPool, SerialFlag, serial
  <1>4. QED
    BY <1>1, <1>2, <1>3

LEMMA PgInvariant == PgSpec => []PgInv
  <1>1. PgInit => PgInv
    BY InitialPg
  <1>2. PgInv /\ [PgNext]_pgVars => PgInv'
    <2> SUFFICES ASSUME PgInv, [PgNext]_pgVars PROVE PgInv'
      OBVIOUS
    <2>1. ASSUME NEW t \in Threads, PgStep(t) PROVE PgInv'
      BY <2>1, PoolStepsKeep, CheckStepsKeep, WorkStepsKeep, CallStepsKeep, CloseStepsKeep
         DEF PgStep
    <2>2. QED
      BY <2>1, ServerStepsKeep, StutterKeepsPg DEF PgNext
  <1>3. QED
    BY <1>1, <1>2, PTL DEF PgSpec

-----------------------------------------------------------------------------
(* The theorems.                                                            *)

\* The variables of a store in use are well typed, and a transaction has rows of
\* the batch its call is sending only.
THEOREM PgTypeCorrect == PgSpec => []PgTypeOK
  <1>1. PgInv => PgTypeOK
    BY DEF PgInv
  <1>2. QED
    BY <1>1, PgInvariant, PTL

\* While calls and close come one at a time, PostgresMetricsStore has at most one
\* open pool, and between two calls exactly the one it knows.
THEOREM OnePool == PgSpec => []OnePoolAtATime
  <1>1. ASSUME PgInv PROVE OnePoolAtATime
    <2> SUFFICES ASSUME serial
                 PROVE  /\ Cardinality(open) <= 1
                        /\ (\A t \in Threads : at[t] = "idle") => open = {pool} \ {NoPool}
      BY DEF OnePoolAtATime
    <2> USE <1>1 DEF PgInv, NoPool
    <2>1. open \subseteq 1..built
      BY DEF PgTypeOK
    <2>2. \A i, j \in open : i = j
      BY <2>1 DEF SerialPool, OneCall
    <2>3. Cardinality(open) <= 1
      <3>1. CASE open = {}
        BY <3>1, FS_EmptySet
      <3>2. CASE open # {}
        <4>1. PICK i \in open : TRUE
          BY <3>2
        <4>2. open = {i}
          BY <4>1, <2>2
        <4>3. Cardinality(open) = 1
          BY <4>2, FS_Singleton
        <4>4. QED
          BY <4>3
      <3>3. QED
        BY <3>1, <3>2
    <2>4. (\A t \in Threads : at[t] = "idle") => open = {pool} \ {NoPool}
      <3>1. ASSUME \A t \in Threads : at[t] = "idle" PROVE open = {pool} \ {NoPool}
        <4>1. \A i \in open : i = pool /\ i # NoPool
          BY <2>1, <3>1 DEF SerialPool
        <4>2. pool # NoPool => pool \in open
          BY DEF SerialPool
        <4>3. QED
          BY <4>1, <4>2
      <3>2. QED
        BY <3>1
    <2>5. QED
      BY <2>3, <2>4
  <1>2. QED
    BY <1>1, PgInvariant, PTL

\* While close comes between the calls, a batch is sent only by a store that has
\* found the schema current since the last close, however the threads' first uses
\* race; with one call at a time, over the very pool that was validated.
THEOREM CheckedBeforeRows == PgSpec => []RowsNeedCheckedSchema
  <1>1. ASSUME PgInv PROVE RowsNeedCheckedSchema
    <2> SUFFICES ASSUME NEW t \in Threads, at[t] = "work", call[t] \in Batches
                 PROVE  (orderly => checked # {}) /\ (serial => held[t] \in checked)
      BY DEF RowsNeedCheckedSchema
    <2>1. call[t] # Inspection
      BY PostgresAssumption
    <2>2. QED
      BY <1>1, <2>1 DEF PgInv, SomeCheck, SerialPool
  <1>2. QED
    BY <1>1, PgInvariant, PTL

\* The end of a call, seen by the log: of a batch it is an answer, and of any
\* other call nothing at all.
LEMMA EndAnswers ==
    ASSUME PgInv, NEW t \in Threads, NEW what, End(t, what)
    PROVE  /\ call[t] \in Batches =>
                  reply[call[t]] = "open" /\ Log!Tell(call[t], what)
           /\ call[t] \notin Batches => reply' = reply
  BY DEF PgInv, Unanswered, End, Log!Tell

\* A step of a thread is a step of the log or changes nothing in it.
LEMMA ThreadSteps ==
    ASSUME PgInv, NEW t \in Threads, PgStep(t)
    PROVE  [Log!LogNext]_<<table, reply>>
  <1> USE PostgresAssumption DEF poolVars, serverVars, Log!LogNext
  <1>1. CASE PgCalls(t)
    <2>1. PICK what \in {b \in Batches : reply[b] = "none"} \cup {Read, Inspection} :
            IF what \in Batches /\ RowsOf(what) = {}
            THEN reply' = [reply EXCEPT ![what] = "stored"]
            ELSE reply' = IF what \in Batches THEN [reply EXCEPT ![what] = "open"] ELSE reply
      BY <1>1 DEF PgCalls
    <2>2. CASE what \in Batches /\ RowsOf(what) = {}
      <3>1. Log!Store(what)
        BY <1>1, <2>1, <2>2 DEF PgCalls, Log!Store, Log!Tell
      <3>2. QED
        BY <2>2, <3>1
    <2>3. CASE what \in Batches /\ RowsOf(what) # {}
      <3>1. Log!Ask(what)
        BY <1>1, <2>1, <2>3 DEF PgCalls, Log!Ask, Log!Tell
      <3>2. QED
        BY <2>3, <3>1
    <2>4. CASE what \notin Batches
      BY <1>1, <2>1, <2>4 DEF PgCalls
    <2>5. QED
      BY <2>2, <2>3, <2>4
  <1>2. ASSUME End(t, "failed"), table' \in {table, table \cup RowsOf(call[t])},
               table' = table \/ call[t] \in Batches
        PROVE  [Log!LogNext]_<<table, reply>>
    <2>1. CASE call[t] \in Batches
      <3>1. Log!Fail(call[t])
        BY <1>2, <2>1, EndAnswers DEF Log!Fail
      <3>2. QED
        BY <2>1, <3>1
    <2>2. CASE call[t] \notin Batches
      BY <1>2, <2>2, EndAnswers
    <2>3. QED
      BY <2>1, <2>2
  <1>3. CASE PgCannotBuild(t) \/ PgStatementFails(t)
    BY <1>2, <1>3 DEF PgCannotBuild, PgStatementFails
  <1>4. CASE PgFetches(t) \/ PgValidates(t) \/ PgChecksOut(t)
    BY <1>2, <1>4 DEF PgFetches, PgValidates, PgChecksOut
  <1>5. CASE PgCommitLost(t)
    BY <1>2, <1>5 DEF PgCommitLost
  <1>6. CASE PgCommits(t)
    <2>1. Log!Store(call[t])
      BY <1>6, EndAnswers DEF PgCommits, Log!Store
    <2>2. QED
      BY <1>6, <2>1 DEF PgCommits
  <1>7. CASE PgReads(t) \/ PgShutsPool(t)
    <2>1. call[t] \notin Batches
      BY <1>7 DEF PgReads, PgShutsPool, PgInv, PgTypeOK, Placed
    <2>2. QED
      BY <1>7, <2>1, EndAnswers DEF PgReads, PgShutsPool
  <1>8. CASE \/ PgLooksForPool(t) \/ PgBuilds(t) \/ PgReadsFlag(t) \/ PgMarks(t)
             \/ PgInserts(t) \/ PgCloses(t) \/ PgUnsetsPool(t) \/ PgUnsetsFlag(t)
    BY <1>8 DEF PgLooksForPool, PgBuilds, PgReadsFlag, PgMarks, PgInserts, PgCloses,
                PgUnsetsPool, PgUnsetsFlag
  <1>9. QED
    BY <1>1, <1>3, <1>4, <1>5, <1>6, <1>7, <1>8 DEF PgStep

\* PostgresMetricsStore is a metrics log under any interleaving of its threads,
\* of close and of what happens on the server: a batch lands as a whole or not at
\* all, and an acknowledged one is there.
THEOREM PgImplementsLog == PgSpec => ImplementsMetricsLog
  <1>1. PgInit => Log!LogInit
    BY DEF PgInit, Log!LogInit
  <1>2. PgInv /\ [PgNext]_pgVars => [Log!LogNext]_<<table, reply>>
    <2> SUFFICES ASSUME PgInv, [PgNext]_pgVars PROVE [Log!LogNext]_<<table, reply>>
      OBVIOUS
    <2>1. CASE \E t \in Threads : PgStep(t)
      BY <2>1, ThreadSteps
    <2>2. CASE \/ \E c \in Creators : CreatorLooks(c) \/ CreatorCommits(c)
               \/ OperatorUpgrades \/ UNCHANGED pgVars
      BY <2>2 DEF CreatorLooks, CreatorCommits, OperatorUpgrades, pgVars, callVars,
                  serverVars
    <2>3. QED
      BY <2>1, <2>2 DEF PgNext
  <1>3. QED
    BY <1>1, <1>2, PgInvariant, PTL DEF PgSpec, ImplementsMetricsLog, Log!LogSpec
=============================================================================
