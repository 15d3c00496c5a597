---------------------------- MODULE Adapter_proofs ---------------------------
(***************************************************************************)
(* Proofs about Adapter, for any number of threads, either protocol and    *)
(* any bounds: its types, the effect of a corrected key, how often a       *)
(* client is built, and that its stream wrappers implement                 *)
(* NormalizedStream.                                                       *)
(***************************************************************************)
EXTENDS Adapter, FiniteSetTheorems, TLAPS

-----------------------------------------------------------------------------
(* Types.                                                                   *)

\* Resolving a key is the only step that changes a call's own key.
LEMMA PickType ==
    ASSUME AdapterTypeOK, NEW t \in Callers,
           Resolve(t) \/ FailsEarly(t) \/ Check(t) \/ Build(t) \/ Mark(t) \/ Fetch(t)
    PROVE  AdapterTypeOK'
  <1> USE AdapterAssumption DEF AdapterTypeOK, MoveTo, keyVars, cacheVars, wrapVars,
          Keys, NoKey, AdapterPlaces, Picking
  <1>1. CASE Resolve(t)
    <2>1. calls' \in [Callers -> Nat] /\ resolved' \in [Callers -> Keys \cup {NoKey}]
      BY <1>1 DEF Resolve
    <2>2. place' \in [Callers -> AdapterPlaces]
      BY <1>1 DEF Resolve
    <2>3. \A u \in Callers : place'[u] \in Picking => resolved'[u] \in Keys
      BY <1>1 DEF Resolve
    <2>4. QED
      BY <1>1, <2>1, <2>2, <2>3 DEF Resolve
  <1>2. CASE FailsEarly(t)
    <2>1. calls' \in [Callers -> Nat]
      BY <1>2 DEF FailsEarly
    <2>2. QED
      BY <1>2, <2>1 DEF FailsEarly
  <1>3. CASE Check(t)
    BY <1>3 DEF Check, requestVars
  <1>4. CASE Build(t)
    <2>1. resolved[t] \in Keys
      BY <1>4 DEF Build
    <2>2. builds' \in [Keys -> Nat] /\ client' \in Keys \cup {NoKey}
      BY <1>4, <2>1 DEF Build
    <2>3. QED
      BY <1>4, <2>2 DEF Build, requestVars
  <1>5. CASE Mark(t)
    BY <1>5 DEF Mark, requestVars
  <1>6. CASE Fetch(t)
    BY <1>6 DEF Fetch
  <1>7. QED
    BY <1>1, <1>2, <1>3, <1>4, <1>5, <1>6

\* Dispatching and the steps of a stream leave keys and client alone.
LEMMA StreamType ==
    ASSUME AdapterTypeOK, NEW t \in Callers,
           \/ Respond(t) \/ WrapStream(t)
           \/ StreamEvent(t) \/ StreamStops(t) \/ CloseStream(t)
    PROVE  AdapterTypeOK'
  <1> USE AdapterAssumption DEF AdapterTypeOK, MoveTo, keyVars, cacheVars, requestVars,
          wrapVars, Keys, NoKey, AdapterPlaces, Picking
  <1>1. CASE Respond(t)
    BY <1>1 DEF Respond
  <1>2. CASE WrapStream(t)
    BY <1>2 DEF WrapStream
  <1>3. CASE StreamEvent(t)
    <2>1. PICK kind \in EventKinds :
            /\ Observe(t, kind)
            /\ IF kind = "failed"
               THEN MoveTo(t, "dead") /\ UNCHANGED events
               ELSE events' = [events EXCEPT ![t] = @ + 1] /\ UNCHANGED place
      BY <1>3 DEF StreamEvent
    <2>2. completed' \in [Callers -> BOOLEAN] /\ recognized' \in [Callers -> BOOLEAN]
      BY <2>1 DEF Observe
    <2>3. events' \in [Callers -> Nat]
      BY <2>1
    <2>4. /\ place' \in [Callers -> AdapterPlaces]
          /\ \A u \in Callers : place'[u] \in Picking => place[u] \in Picking
      BY <2>1
    <2>5. QED
      BY <1>3, <2>2, <2>3, <2>4 DEF StreamEvent
  <1>4. CASE StreamStops(t)
    BY <1>4 DEF StreamStops
  <1>5. CASE CloseStream(t)
    BY <1>5 DEF CloseStream
  <1>6. QED
    BY <1>1, <1>2, <1>3, <1>4, <1>5

LEMMA TypeInductive == AdapterTypeOK /\ [AdapterNext]_adapterVars => AdapterTypeOK'
  <1> SUFFICES ASSUME AdapterTypeOK, [AdapterNext]_adapterVars
               PROVE  AdapterTypeOK'
    OBVIOUS
  <1>1. CASE \E t \in Callers : Call(t)
    BY <1>1, PickType, StreamType DEF Call
  <1>2. CASE CorrectKey
    BY <1>2, AdapterAssumption
       DEF CorrectKey, AdapterTypeOK, cacheVars, requestVars, wrapVars, Keys, NoKey
  <1>3. CASE RemoveKey
    BY <1>3 DEF RemoveKey, AdapterTypeOK, cacheVars, requestVars, wrapVars
  <1>4. CASE UNCHANGED adapterVars
    BY <1>4 DEF AdapterTypeOK, adapterVars, keyVars, cacheVars, requestVars, wrapVars
  <1>5. QED
    BY <1>1, <1>2, <1>3, <1>4 DEF AdapterNext, Rest

\* Every reachable state of an adapter shared by any threads is well typed; a
\* thread that picks a client has resolved a key.
THEOREM AdapterTypeCorrect == AdapterSpec => []AdapterTypeOK
  <1>1. AdapterInit => AdapterTypeOK
    BY AdapterAssumption DEF AdapterInit, AdapterTypeOK, Keys, NoKey, AdapterPlaces, Picking
  <1>2. QED
    BY <1>1, TypeInductive, PTL DEF AdapterSpec

-----------------------------------------------------------------------------
(* The corrected key.  While no key changes under a call that picks its     *)
(* client, all picking calls hold the key in force, so whichever of them    *)
(* writes last, client and clientKey agree with it.                         *)

KeyInv ==
    /\ clientKey <= issued
    /\ \A t \in Callers : place[t] \in Picking => resolved[t] = key
    /\ \A t \in Callers : place[t] \in {"mark", "fetch"} => client = key
    /\ key # NoKey /\ clientKey = key => client = key
    /\ KeyTakesEffect

LEMMA KeyInvInductive ==
    ASSUME ~RotateAnytime
    PROVE  AdapterTypeOK /\ KeyInv /\ [AdapterNext]_adapterVars => KeyInv'
  <1> SUFFICES ASSUME AdapterTypeOK, KeyInv, [AdapterNext]_adapterVars
               PROVE  KeyInv'
    OBVIOUS
  <1> USE DEF KeyInv, KeyTakesEffect, Picking, MoveTo, keyVars, cacheVars, requestVars
  <1>1. ASSUME NEW t \in Callers, Resolve(t) PROVE KeyInv'
    BY <1>1 DEF Resolve, AdapterTypeOK
  <1>2. ASSUME NEW t \in Callers, FailsEarly(t) PROVE KeyInv'
    BY <1>2 DEF FailsEarly
  <1>3. ASSUME NEW t \in Callers, Check(t) PROVE KeyInv'
    <2>1. resolved[t] = key /\ key # NoKey
      BY <1>3 DEF Check, AdapterTypeOK, Keys, NoKey
    <2>2. client # key => resolved[t] # clientKey
      BY <2>1
    <2>3. QED
      BY <1>3, <2>1, <2>2 DEF Check, AdapterTypeOK
  <1>4. ASSUME NEW t \in Callers, Build(t) PROVE KeyInv'
    BY <1>4 DEF Build, AdapterTypeOK
  <1>5. ASSUME NEW t \in Callers, Mark(t) PROVE KeyInv'
    BY <1>5, AdapterAssumption DEF Mark, AdapterTypeOK, Keys, NoKey
  <1>6. ASSUME NEW t \in Callers, Fetch(t) PROVE KeyInv'
    BY <1>6, AdapterAssumption DEF Fetch, AdapterTypeOK, Keys, NoKey
  <1>7. ASSUME NEW t \in Callers,
               \/ Respond(t) \/ WrapStream(t)
               \/ StreamEvent(t) \/ StreamStops(t) \/ CloseStream(t)
        PROVE  KeyInv'
    <2>1. /\ UNCHANGED <<keyVars, cacheVars, requestVars>>
          /\ \A u \in Callers : place'[u] = place[u]
                \/ place'[u] \in {"idle", "streaming", "ended", "dead"}
      BY <1>7 DEF Respond, WrapStream, StreamEvent, StreamStops, CloseStream,
                  AdapterTypeOK
    <2>2. QED
      BY <2>1
  <1>8. CASE CorrectKey
    <2>1. \A t \in Callers : place[t] \notin Picking
      BY <1>8 DEF CorrectKey, KeyMayChange
    <2>2. clientKey < issued + 1 /\ clientKey \in Int /\ issued \in Int
      BY AdapterAssumption DEF AdapterTypeOK, Keys, NoKey
    <2>3. QED
      BY <1>8, <2>1, <2>2 DEF CorrectKey
  <1>9. CASE RemoveKey
    BY <1>9 DEF RemoveKey, KeyMayChange
  <1>10. CASE UNCHANGED adapterVars
    BY <1>10 DEF adapterVars
  <1>11. QED
    BY <1>1, <1>2, <1>3, <1>4, <1>5, <1>6, <1>7, <1>8, <1>9, <1>10
       DEF AdapterNext, Call, Rest

\* A corrected key takes effect with the next call: as long as no key changes
\* while a call picks its client, no thread sends an outdated one, however the
\* unlocked accesses of _client_for interleave.
THEOREM CorrectedKeyIsUsed == AdapterSpec => []KeyTakesEffect
  <1>1. CASE ~RotateAnytime
    <2>1. AdapterInit => KeyInv
      BY DEF AdapterInit, KeyInv, KeyTakesEffect, Picking, NoKey
    <2>2. KeyInv => KeyTakesEffect
      BY DEF KeyInv
    <2>3. AdapterTypeOK /\ KeyInv /\ [AdapterNext]_adapterVars => KeyInv'
      BY <1>1, KeyInvInductive
    <2>4. QED
      BY <2>1, <2>2, <2>3, AdapterTypeCorrect, PTL DEF AdapterSpec
  <1>2. CASE RotateAnytime
    <2>1. KeyTakesEffect
      BY <1>2 DEF KeyTakesEffect
    <2>2. QED
      BY <2>1, PTL
  <1>3. QED
    BY <1>1, <1>2

-----------------------------------------------------------------------------
(* The cached client.  Before the first call has filed a client under the   *)
(* key in force, every client built with that key belongs to a call that is *)
(* about to file it; afterwards no further call starts to build.            *)

Building == {t \in Callers : place[t] = "build"}
Marking == {t \in Callers : place[t] = "mark"}

ReuseInv ==
    /\ \A k \in Keys : builds[k] <= Cardinality(Callers)
    /\ \A k \in Keys : k > issued => builds[k] = 0
    /\ key # NoKey => builds[key] + Cardinality(Building) <= Cardinality(Callers)
    /\ key # NoKey /\ clientKey # key => builds[key] <= Cardinality(Marking)

LEMMA Counts ==
    ASSUME NEW S, S \subseteq Callers
    PROVE  /\ IsFiniteSet(S) /\ Cardinality(S) \in Nat
           /\ Cardinality(S) <= Cardinality(Callers)
           /\ Cardinality(Callers) \in Nat
           /\ \A t \in Callers :
                /\ t \in S => Cardinality(S \ {t}) = Cardinality(S) - 1
                /\ t \notin S => Cardinality(S \cup {t}) = Cardinality(S) + 1
  BY AdapterAssumption, FS_Subset, FS_CardinalityType, FS_AddElement, FS_RemoveElement

\* A step that neither builds nor files a client, nor changes a key.
LEMMA ReuseFrame ==
    ASSUME ReuseInv, UNCHANGED <<keyVars, builds>>, Building' = Building,
           clientKey' = key \/ (clientKey' = clientKey /\ Marking' = Marking)
    PROVE  ReuseInv'
  BY DEF ReuseInv, keyVars

LEMMA ReuseInductive ==
    ASSUME ~RotateAnytime
    PROVE  AdapterTypeOK /\ KeyInv /\ ReuseInv /\ [AdapterNext]_adapterVars => ReuseInv'
  <1> SUFFICES ASSUME AdapterTypeOK, KeyInv, ReuseInv, [AdapterNext]_adapterVars
               PROVE  ReuseInv'
    OBVIOUS
  <1>1. /\ Building \subseteq Callers /\ Marking \subseteq Callers
        /\ Building \cap Marking = {}
    BY DEF Building, Marking
  <1>2. /\ Cardinality(Building) \in Nat /\ Cardinality(Marking) \in Nat
        /\ Cardinality(Callers) \in Nat
    BY <1>1, Counts
  <1>3. \A k \in Keys : builds[k] \in Nat
    BY DEF AdapterTypeOK
  <1>4. ASSUME NEW t \in Callers,
               \/ Resolve(t) \/ FailsEarly(t) \/ Fetch(t) \/ Respond(t)
               \/ WrapStream(t) \/ StreamEvent(t) \/ StreamStops(t) \/ CloseStream(t)
        PROVE  ReuseInv'
    <2>1. UNCHANGED <<keyVars, builds, clientKey>>
      BY <1>4 DEF Resolve, FailsEarly, Fetch, Respond, WrapStream, StreamEvent,
                  StreamStops, CloseStream, cacheVars
    <2>2. \A u \in Callers : place'[u] = place[u]
             \/ (place[u] \notin {"build", "mark"} /\ place'[u] \notin {"build", "mark"})
      BY <1>4 DEF Resolve, FailsEarly, Fetch, Respond, WrapStream, StreamEvent,
                  StreamStops, CloseStream, MoveTo, AdapterTypeOK
    <2>3. Building' = Building /\ Marking' = Marking
      BY <2>2 DEF Building, Marking
    <2>4. QED
      BY <2>1, <2>3, ReuseFrame
  <1>5. ASSUME NEW t \in Callers, Check(t) PROVE ReuseInv'
    <2>1. /\ place[t] = "check" /\ UNCHANGED <<keyVars, cacheVars>>
          /\ resolved[t] = key /\ key \in Keys
          /\ place' = [place EXCEPT ![t] =
                         IF client = NoKey \/ key # clientKey THEN "build" ELSE "fetch"]
      BY <1>5 DEF Check, MoveTo, KeyInv, AdapterTypeOK, Picking
    <2>2. Marking' = Marking
      BY <2>1 DEF Marking, AdapterTypeOK
    <2>3. CASE clientKey = key
      <3>1. client # NoKey
        BY <2>1, <2>3 DEF KeyInv, Keys, NoKey
      <3>2. Building' = Building
        BY <2>1, <2>3, <3>1 DEF Building, AdapterTypeOK
      <3>3. QED
        BY <2>1, <2>2, <3>2, ReuseFrame DEF cacheVars
    <2>4. CASE clientKey # key
      <3>1. Building' = Building \cup {t} /\ t \notin Building /\ t \notin Marking
        BY <2>1, <2>4 DEF Building, Marking, AdapterTypeOK
      <3>2. Cardinality(Building') = Cardinality(Building) + 1
        BY <1>1, <3>1, Counts
      <3>3. Cardinality(Building \cup {t}) + Cardinality(Marking) <= Cardinality(Callers)
        <4>1. (Building \cup {t}) \cap Marking = {}
          BY <1>1, <3>1
        <4>2. /\ (Building \cup {t}) \subseteq Callers
              /\ ((Building \cup {t}) \cup Marking) \subseteq Callers
          BY <1>1
        <4>3. IsFiniteSet(Building \cup {t}) /\ IsFiniteSet(Marking)
          BY <1>1, <4>2, Counts
        <4>4. Cardinality((Building \cup {t}) \cup Marking)
                = Cardinality(Building \cup {t}) + Cardinality(Marking)
                  - Cardinality((Building \cup {t}) \cap Marking)
          BY <4>3, FS_Union
        <4>5. Cardinality((Building \cup {t}) \cap Marking) = 0
          BY <4>1, FS_EmptySet
        <4>6. Cardinality((Building \cup {t}) \cup Marking) <= Cardinality(Callers)
          BY <4>2, Counts
        <4>7. Cardinality(Building \cup {t}) \in Nat
          BY <4>2, Counts
        <4>8. QED
          BY <1>2, <4>4, <4>5, <4>6, <4>7
      <3>4. builds[key] <= Cardinality(Marking) /\ builds[key] \in Nat
        BY <1>3, <2>1, <2>4 DEF ReuseInv, Keys, NoKey
      <3>5. builds[key] + Cardinality(Building') <= Cardinality(Callers)
        BY <1>2, <3>1, <3>2, <3>3, <3>4
      <3>6. QED
        BY <2>1, <2>2, <3>5 DEF ReuseInv, keyVars, cacheVars
    <2>5. QED
      BY <2>3, <2>4
  <1>6. ASSUME NEW t \in Callers, Build(t) PROVE ReuseInv'
    <2>1. /\ place[t] = "build" /\ UNCHANGED <<keyVars, clientKey>>
          /\ resolved[t] = key /\ key \in Keys
          /\ builds' = [builds EXCEPT ![key] = @ + 1]
          /\ place' = [place EXCEPT ![t] = "mark"]
      BY <1>6 DEF Build, MoveTo, KeyInv, AdapterTypeOK, Picking
    <2>2. /\ Building' = Building \ {t} /\ Marking' = Marking \cup {t}
          /\ t \in Building /\ t \notin Marking
      BY <2>1 DEF Building, Marking, AdapterTypeOK
    <2>3. /\ Cardinality(Building') = Cardinality(Building) - 1
          /\ Cardinality(Marking') = Cardinality(Marking) + 1
          /\ Cardinality(Building) - 1 \in Nat
      <3>1. (Building \ {t}) \subseteq Callers
        BY <1>1
      <3>2. Cardinality(Building \ {t}) \in Nat
        BY <3>1, Counts
      <3>3. QED
        BY <1>1, <2>2, <3>2, Counts
    <2>4. /\ builds'[key] = builds[key] + 1 /\ builds[key] \in Nat
          /\ \A k \in Keys : k # key => builds'[k] = builds[k]
      BY <1>3, <2>1 DEF AdapterTypeOK
    <2>5. key # NoKey /\ ~(key > issued)
      BY <2>1, AdapterAssumption DEF AdapterTypeOK, Keys, NoKey
    <2>6. builds[key] + Cardinality(Building) <= Cardinality(Callers)
      BY <2>5 DEF ReuseInv
    <2>7. builds'[key] <= Cardinality(Callers)
      BY <1>2, <2>3, <2>4, <2>6
    <2>8. builds'[key] + Cardinality(Building') <= Cardinality(Callers)
      BY <1>2, <2>3, <2>4, <2>6
    <2>9. clientKey # key => builds'[key] <= Cardinality(Marking')
      BY <1>2, <2>3, <2>4, <2>5 DEF ReuseInv
    <2>10. \A k \in Keys : builds'[k] <= Cardinality(Callers)
      BY <2>4, <2>7 DEF ReuseInv
    <2>11. \A k \in Keys : k > issued => builds'[k] = 0
      BY <2>4, <2>5 DEF ReuseInv
    <2>12. QED
      BY <2>1, <2>8, <2>9, <2>10, <2>11 DEF ReuseInv, keyVars
  <1>7. ASSUME NEW t \in Callers, Mark(t) PROVE ReuseInv'
    <2>1. UNCHANGED <<keyVars, builds>> /\ clientKey' = key
      BY <1>7 DEF Mark, KeyInv, Picking
    <2>2. Building' = Building
      BY <1>7 DEF Mark, MoveTo, Building, AdapterTypeOK
    <2>3. QED
      BY <2>1, <2>2, ReuseFrame
  <1>8. CASE CorrectKey
    <2>1. Building = {} /\ Marking = {} /\ Building' = {} /\ Marking' = {}
      BY <1>8 DEF CorrectKey, KeyMayChange, Picking, Building, Marking
    <2>2. Cardinality(Building') = 0 /\ Cardinality(Marking') = 0
      BY <2>1, FS_EmptySet
    <2>3. issued + 1 \in Keys /\ issued + 1 > issued /\ issued \in Nat
      BY <1>8, AdapterAssumption DEF CorrectKey, AdapterTypeOK, Keys
    <2>4. builds[issued + 1] = 0
      BY <2>3 DEF ReuseInv
    <2>5. /\ key' = issued + 1 /\ issued' = issued + 1 /\ builds' = builds
      BY <1>8 DEF CorrectKey, cacheVars
    <2>6. \A k \in Keys : k > issued + 1 => k > issued
      BY <2>3 DEF Keys
    <2>7. QED
      BY <1>2, <2>2, <2>3, <2>4, <2>5, <2>6 DEF ReuseInv
  <1>9. CASE RemoveKey
    BY <1>9 DEF RemoveKey, ReuseInv, cacheVars
  <1>10. CASE UNCHANGED adapterVars
    <2>1. Building' = Building /\ Marking' = Marking
      BY <1>10 DEF adapterVars, Building, Marking
    <2>2. QED
      BY <1>10, <2>1, ReuseFrame DEF adapterVars, cacheVars
  <1>11. QED
    BY <1>4, <1>5, <1>6, <1>7, <1>8, <1>9, <1>10 DEF AdapterNext, Call, Rest

\* A client is built only by calls that meet in _client_for before one of them has
\* filed a client of the key in force: as long as no key changes while a call picks
\* its client, each key costs at most one client per thread, however many calls are
\* made and however their unlocked accesses interleave.
THEOREM ClientsAreReused == AdapterSpec => []ClientsReused
  <1>1. CASE ~RotateAnytime
    <2>1. AdapterInit => KeyInv
      BY DEF AdapterInit, KeyInv, KeyTakesEffect, Picking, NoKey
    <2>2. AdapterInit => ReuseInv
      <3> SUFFICES ASSUME AdapterInit PROVE ReuseInv
        OBVIOUS
      <3>1. Building = {} /\ Marking = {}
        BY DEF AdapterInit, Building, Marking
      <3>2. /\ Cardinality(Building) = 0 /\ Cardinality(Marking) = 0
            /\ Cardinality(Callers) \in Nat
        BY <3>1, FS_EmptySet, Counts
      <3>3. key = 1 /\ key \in Keys /\ \A k \in Keys : builds[k] = 0
        BY AdapterAssumption DEF AdapterInit, Keys
      <3>4. QED
        BY <3>2, <3>3 DEF ReuseInv
    <2>3. AdapterTypeOK /\ KeyInv /\ [AdapterNext]_adapterVars => KeyInv'
      BY <1>1, KeyInvInductive
    <2>4. AdapterTypeOK /\ KeyInv /\ ReuseInv /\ [AdapterNext]_adapterVars => ReuseInv'
      BY <1>1, ReuseInductive
    <2>5. ReuseInv => ClientsReused
      BY DEF ReuseInv, ClientsReused
    <2>6. QED
      BY <2>1, <2>2, <2>3, <2>4, <2>5, AdapterTypeCorrect, PTL DEF AdapterSpec
  <1>2. CASE RotateAnytime
    <2>1. ClientsReused
      BY <1>2 DEF ClientsReused
    <2>2. QED
      BY <2>1, PTL
  <1>3. QED
    BY <1>1, <1>2

-----------------------------------------------------------------------------
(* The stream contract.                                                     *)

\* The phase of a thread follows its place.
LEMMA PhaseMoves ==
    ASSUME NEW t \in Callers, NEW p, AdapterTypeOK, MoveTo(t, p)
    PROVE  [u \in Callers |-> Phase(u)]' =
             [[u \in Callers |-> Phase(u)] EXCEPT ![t] =
                IF p = "streaming" THEN "open"
                ELSE IF p \in {"ended", "dead"} THEN p ELSE "none"]
  BY DEF MoveTo, Phase, AdapterTypeOK

\* Every step of an adapter is one of its streams', or no stream sees it.
LEMMA WrapperStep ==
    AdapterTypeOK /\ [AdapterNext]_adapterVars => [Wrapper!Next]_Wrapper!streamVars
  <1> SUFFICES ASSUME AdapterTypeOK, [AdapterNext]_adapterVars
               PROVE  [Wrapper!Next]_Wrapper!streamVars
    OBVIOUS
  <1>1. ASSUME NEW t \in Callers, WrapStream(t) PROVE Wrapper!Open(t)
    BY <1>1, PhaseMoves DEF WrapStream, Wrapper!Open, Phase
  <1>2. ASSUME NEW t \in Callers, CloseStream(t) PROVE Wrapper!Close(t)
    BY <1>2, PhaseMoves DEF CloseStream, Wrapper!Close, Phase, wrapVars
  <1>3. ASSUME NEW t \in Callers, StreamEvent(t)
        PROVE  Wrapper!Advance(t, "open") \/ Wrapper!Advance(t, "dead")
    <2>1. PICK kind \in EventKinds :
            /\ Observe(t, kind)
            /\ IF kind = "failed" THEN MoveTo(t, "dead") ELSE place' = place
      BY <1>3 DEF StreamEvent
    <2>2. [u \in Callers |-> Phase(u)][t] = "open"
      BY <1>3 DEF StreamEvent, Phase
    <2>3. /\ (kind # "foreign") \in BOOLEAN /\ (kind = "finish") \in BOOLEAN
          /\ kind = "finish" => kind # "foreign"
      OBVIOUS
    <2>4. CASE kind = "failed"
      <3>1. [u \in Callers |-> Phase(u)]' =
              [[u \in Callers |-> Phase(u)] EXCEPT ![t] = "dead"]
        BY <2>1, <2>4, PhaseMoves
      <3>2. QED
        BY <2>1, <2>2, <2>3, <3>1 DEF Observe, Wrapper!Advance
    <2>5. CASE kind # "failed"
      <3>1. [u \in Callers |-> Phase(u)]' =
              [[u \in Callers |-> Phase(u)] EXCEPT ![t] = "open"]
        BY <2>1, <2>2, <2>5 DEF Phase
      <3>2. QED
        BY <2>1, <2>2, <2>3, <3>1 DEF Observe, Wrapper!Advance
    <2>6. QED
      BY <2>4, <2>5
  <1>4. ASSUME NEW t \in Callers, StreamStops(t)
        PROVE  Wrapper!Advance(t, "ended") \/ Wrapper!Advance(t, "dead")
    <2>1. PICK p \in {"ended", "dead"} : MoveTo(t, p)
      BY <1>4 DEF StreamStops
    <2>2. /\ [u \in Callers |-> Phase(u)][t] = "open"
          /\ [u \in Callers |-> Phase(u)]' =
               [[u \in Callers |-> Phase(u)] EXCEPT ![t] = p]
      BY <1>4, <2>1, PhaseMoves DEF StreamStops, Phase
    <2>3. /\ completed' = [completed EXCEPT ![t] = @ \/ FALSE]
          /\ recognized' = [recognized EXCEPT ![t] = @ \/ FALSE]
      BY <1>4 DEF StreamStops, wrapVars, AdapterTypeOK
    <2>4. QED
      BY <2>1, <2>2, <2>3 DEF Wrapper!Advance
  <1>5. ASSUME NEW t \in Callers,
               \/ Resolve(t) \/ FailsEarly(t) \/ Check(t) \/ Build(t) \/ Mark(t)
               \/ Fetch(t) \/ Respond(t)
        PROVE  UNCHANGED Wrapper!streamVars
    <2>1. /\ UNCHANGED <<completed, recognized>>
          /\ \A u \in Callers : Phase(u)' = Phase(u)
      BY <1>5 DEF Resolve, FailsEarly, Check, Build, Mark, Fetch, Respond, MoveTo,
                  Phase, wrapVars, AdapterTypeOK
    <2>2. QED
      BY <2>1 DEF Wrapper!streamVars
  <1>6. CASE CorrectKey \/ RemoveKey \/ UNCHANGED adapterVars
    BY <1>6 DEF CorrectKey, RemoveKey, adapterVars, wrapVars, Phase, Wrapper!streamVars
  <1>7. QED
    BY <1>1, <1>2, <1>3, <1>4, <1>5, <1>6 DEF AdapterNext, Call, Rest, Wrapper!Next

\* The wrappers provide the stream contract the router consumes: the flags only
\* rise while a stream is open, and no marker is read in an unknown shape.
THEOREM WrappersImplementContract == AdapterSpec => ImplementsNormalizedStream
  <1>1. AdapterInit => Wrapper!Init
    BY DEF AdapterInit, Wrapper!Init, Phase
  <1>2. QED
    BY <1>1, WrapperStep, AdapterTypeCorrect, PTL
       DEF AdapterSpec, ImplementsNormalizedStream, Wrapper!Spec
=============================================================================
