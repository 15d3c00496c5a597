-------------------------- MODULE RouterStream_proofs ------------------------
(***************************************************************************)
(* Proofs about RouterStream, for any number of calls, providers, chunks   *)
(* and restarts.  A step of the composition is a step of RouterInvoke that *)
(* leaves the streams alone, the hand-over, or a step of one call's        *)
(* stream; what RouterInvoke_proofs shows of the first kind is reused.     *)
(***************************************************************************)
EXTENDS RouterStream, RouterInvoke_proofs

-----------------------------------------------------------------------------
(* Types.  The provider being streamed must be one when it is credited or   *)
(* blamed, and a failure must have left an attempt to take its category     *)
(* from.                                                                    *)

StreamPlaces ==
    {"streaming", "stream_served", "stream_failed", "restarting", "restart_failed"}

StreamLoopInv ==
    \A c \in Calls :
        /\ pc[c] \in StreamPlaces => stream[c].provider \in Providers
        /\ pc[c] \in {"stream_failed", "restart_failed"} => attempts[c] # <<>>

StreamTypeInv == StreamTypeOK /\ LoopInv /\ StreamLoopInv

LEMMA StreamTypeInvGivesTypeInv == StreamTypeInv => TypeInv
  BY DEF StreamTypeInv, StreamTypeOK, TypeInv

\* Steps of RouterInvoke that leave the streams alone.
LEMMA RouterStepKeepsStreamTypes ==
    ASSUME StreamTypeInv,
           \/ \E c \in Calls : Attend(c)
           \/ Environment
           \/ UNCHANGED vars,
           UNCHANGED streamVars
    PROVE  StreamTypeInv'
  <1>1. TypeInv /\ [Next]_vars
    BY StreamTypeInvGivesTypeInv DEF Next
  <1>2. TypeInv'
    BY <1>1, TypeInvInductive
  <1>3. \A c \in Calls :
            pc'[c] \in StreamPlaces => pc'[c] = pc[c] /\ attempts'[c] = attempts[c]
    <2>1. ASSUME NEW c \in Calls, Attend(c)
          PROVE  /\ pc'[c] \notin StreamPlaces
                 /\ \A d \in Calls : d # c => pc'[d] = pc[d] /\ attempts'[d] = attempts[d]
      <3> USE DEF StreamPlaces
      <3>1. \A d \in Calls : d # c => pc'[d] = pc[d] /\ attempts'[d] = attempts[d]
        BY <1>1, <2>1, OthersUnchanged
      <3>2. pc \in [Calls -> PCs]
        BY <1>1 DEF TypeInv, TypeOK
      <3>3. CASE ApplyFailure(c)
        BY <1>1, <3>1, <3>3, DecisionStep
      <3>4. CASE SelectProviders(c)
        BY <3>1, <3>2, <3>4 DEF SelectProviders, Finish
      <3>5. CASE EnterInvoke(c) \/ RefuseClosed(c) \/ RejectVariants(c)
                 \/ NoneEligible(c) \/ PolicyRaises(c) \/ FactoryRaises(c)
        BY <3>1, <3>2, <3>5 DEF EnterInvoke, RefuseClosed, RejectVariants, NoneEligible,
                          PolicyRaises, FactoryRaises, Finish
      <3>6. CASE StopOnCallFault(c) \/ ApplySuccess(c) \/ ProviderFails(c)
                 \/ ProviderServes(c)
        BY <3>1, <3>2, <3>6 DEF StopOnCallFault, ApplySuccess, ProviderFails,
                          ProviderServes, Finish
      <3>7. QED
        BY <2>1, <3>1, <3>3, <3>4, <3>5, <3>6 DEF Attend
    <2>2. Environment \/ UNCHANGED vars => pc' = pc /\ attempts' = attempts
      BY DEF Environment, CloseRouter, ResetHealth, Tick, vars, callVars
    <2>3. QED
      BY <2>1, <2>2
  <1>4. QED
    BY <1>2, <1>3
       DEF StreamTypeInv, StreamTypeOK, StreamLoopInv, StreamPlaces, TypeInv, streamVars

LEMMA RestType ==
    ASSUME TypeInv, NEW c \in Calls, pc[c] = "inflight"
    PROVE  Rest(c) \in Seq(Providers)
  <1>1. ordered[c] \in Seq(Providers) /\ index[c] \in 1..Len(ordered[c])
    BY DEF TypeInv, TypeOK, LoopInv
  <1>2. \A i \in (index[c] + 1)..Len(ordered[c]) : ordered[c][i] \in Providers
    BY <1>1, ElementOfSeq
  <1>3. QED
    BY <1>1, <1>2, SubSeqProperties DEF Rest

LEMMA HandOverTypes ==
    ASSUME StreamTypeInv, NEW c \in Calls, HandOver(c)
    PROVE  StreamTypeInv'
  <1>1. TypeInv /\ pc[c] = "inflight" /\ OpenStream(c)
    BY StreamTypeInvGivesTypeInv DEF HandOver, OpenStream
  <1>2. TypeInv'
    BY <1>1, LeaveStep
  <1>3. Current(c) \in Providers /\ Rest(c) \in Seq(Providers)
    BY <1>1, CurrentType, RestType
  <1>4. Len(attempts[c]) + 1 \in Nat
    BY <1>1 DEF TypeInv, TypeOK
  <1>5. NewStream(Len(attempts[c]) + 1, Current(c)) \in StreamRecord
    BY <1>3, <1>4 DEF NewStream, NoStream, StreamRecord
  <1>6. StreamTypeOK'
    BY <1>2, <1>3, <1>4, <1>5 DEF HandOver, StreamTypeInv, StreamTypeOK, TypeInv
  <1>7. StreamLoopInv'
    BY <1>1, <1>3, <1>6
       DEF HandOver, OpenStream, StreamTypeInv, StreamTypeOK, StreamLoopInv, TypeOK,
           NewStream, NoStream
  <1>8. QED
    BY <1>2, <1>6, <1>7 DEF StreamTypeInv, TypeInv

LEMMA ChunkTypes ==
    ASSUME StreamTypeInv, NEW c \in Calls, NextChunk(c)
    PROVE  StreamTypeInv'
  <1>1. PICK recognized, completed \in BOOLEAN :
            stream' = [stream EXCEPT ![c].chunks = @ + 1,
                                     ![c].recognized = @ \/ recognized,
                                     ![c].completed = @ \/ completed]
    BY DEF NextChunk
  <1>2. stream[c] \in StreamRecord
    BY DEF StreamTypeInv, StreamTypeOK
  <1>3. /\ stream'[c] = [stream[c] EXCEPT !.chunks = @ + 1,
                                          !.recognized = @ \/ recognized,
                                          !.completed = @ \/ completed]
        /\ \A d \in Calls : d # c => stream'[d] = stream[d]
        /\ stream' = [stream EXCEPT ![c] = stream'[c]]
    BY <1>1 DEF StreamTypeInv, StreamTypeOK
  <1> DEFINE n == stream[c].chunks + 1
             r == stream[c].recognized \/ recognized
             m == stream[c].completed \/ completed
  <1>4. stream'[c] \in StreamRecord /\ stream'[c].provider = stream[c].provider
    <2>1. n \in Nat /\ r \in BOOLEAN /\ m \in BOOLEAN
      BY <1>2 DEF StreamRecord
    <2>2. stream'[c] = [stream[c] EXCEPT !.chunks = n, !.recognized = r, !.completed = m]
      BY <1>3
    <2> HIDE DEF n, r, m
    <2>3. QED
      BY <1>2, <2>1, <2>2 DEF StreamRecord
  <1>5. stream' \in [Calls -> StreamRecord]
    BY <1>3, <1>4 DEF StreamTypeInv, StreamTypeOK
  <1>6. UNCHANGED <<vars, remaining, restarts, opened, live, failurePolicy>>
    BY DEF NextChunk
  <1>7. QED
    BY <1>3, <1>4, <1>5, <1>6
       DEF StreamTypeInv, StreamTypeOK, TypeOK, LoopInv, StreamLoopInv,
           vars, routerVars, callVars

\* An attempt is listed and its metrics recorded on the stream's side.
LEMMA RecordTypes ==
    ASSUME TypeInv, NEW c \in Calls, NEW n \in Nat, NEW p \in Providers,
           NEW o \in Outcomes,
           NEW place \in {"stream_failed", "stream_served", "restart_failed"},
           NoteAttempt(c, p, o), RecordMetrics(c, n, p, o), MoveTo(c, place),
           UNCHANGED <<health, now, closed, rotation, resets, loopVars>>
    PROVE  /\ TypeOK' /\ LoopInv'
           /\ attempts'[c] # <<>> /\ pc'[c] = place
           /\ \A d \in Calls : d # c => attempts'[d] = attempts[d] /\ pc'[d] = pc[d]
  <1>1. /\ ledger' \in [Calls -> Seq(Event)]
        /\ connected' \in BOOLEAN /\ metricsWarned' \in BOOLEAN
        /\ metricsRecovered' \in BOOLEAN
    BY MetricsType DEF TypeInv
  <1>2. /\ attempts' \in [Calls -> Seq(Attempt)]
        /\ attempts'[c] # <<>>
        /\ \A d \in Calls : d # c => attempts'[d] = attempts[d]
    BY NoteType DEF TypeInv
  <1>3. /\ pc' \in [Calls -> PCs] /\ result' = result /\ pc'[c] = place
        /\ \A d \in Calls : d # c => pc'[d] = pc[d]
    BY DEF TypeInv, TypeOK, MoveTo, PCs
  <1>4. TypeOK'
    BY <1>1, <1>2, <1>3 DEF TypeInv, TypeOK, loopVars
  <1>5. LoopInv'
    BY <1>2, <1>3 DEF TypeInv, LoopInv, loopVars
  <1>6. QED
    BY <1>2, <1>3, <1>4, <1>5

\* The steps that record an attempt.
Recorded(c, p, n, o, place) ==
    /\ NoteAttempt(c, p, o)
    /\ RecordMetrics(c, n, p, o)
    /\ MoveTo(c, place)
    /\ UNCHANGED <<health, now, closed, rotation, resets, loopVars,
                   stream, restarts, failurePolicy>>

\* Each of the four steps that record an attempt, by what it records.
LEMMA RecordingSteps ==
    ASSUME StreamTypeInv, NEW c \in Calls
    PROVE  /\ NextEnds(c) =>
                /\ pc[c] = "streaming" /\ UNCHANGED <<remaining, opened>>
                /\ \/ /\ Recorded(c, stream[c].provider, stream[c].attempt,
                                  "stream_interrupted", "stream_failed")
                      /\ CloseUnderlying(c)
                   \/ /\ ~Truncated(stream[c])
                      /\ Recorded(c, stream[c].provider, stream[c].attempt,
                                  "success", "stream_served")
                      /\ UNCHANGED live
           /\ NextDies(c) =>
                /\ pc[c] = "streaming" /\ UNCHANGED <<remaining, opened>>
                /\ CloseUnderlying(c)
                /\ \E o \in Categories :
                      Recorded(c, stream[c].provider, stream[c].attempt,
                               o, "stream_failed")
           /\ CloseServed(c) =>
                /\ pc[c] = "streaming" /\ UNCHANGED <<remaining, opened>>
                /\ stream[c].completed /\ CloseUnderlying(c)
                /\ Recorded(c, stream[c].provider, stream[c].attempt,
                            "success", "stream_served")
           /\ RestartFails(c) =>
                /\ TakeNext(c) /\ UNCHANGED live
                /\ \E o \in Categories :
                      Recorded(c, Head(remaining[c]), opened[c] + 1,
                               o, "restart_failed")
  <1>1. \A e \in Errors : CategorizeError(e) \in Categories
    BY CategorizeType
  <1>2. "unknown" \in Categories
    BY DEF Categories
  <1> USE DEF Recorded, FailStream, ServeStream
  <1>3. ASSUME NextEnds(c)
        PROVE  /\ pc[c] = "streaming" /\ UNCHANGED <<remaining, opened>>
               /\ \/ /\ Recorded(c, stream[c].provider, stream[c].attempt,
                                 "stream_interrupted", "stream_failed")
                     /\ CloseUnderlying(c)
                  \/ /\ ~Truncated(stream[c])
                     /\ Recorded(c, stream[c].provider, stream[c].attempt,
                                 "success", "stream_served")
                     /\ UNCHANGED live
    BY <1>3 DEF NextEnds
  <1>4. ASSUME NextDies(c)
        PROVE  /\ pc[c] = "streaming" /\ UNCHANGED <<remaining, opened>>
               /\ CloseUnderlying(c)
               /\ \E o \in Categories :
                     Recorded(c, stream[c].provider, stream[c].attempt,
                              o, "stream_failed")
    BY <1>1, <1>4 DEF NextDies
  <1>5. ASSUME CloseServed(c)
        PROVE  /\ pc[c] = "streaming" /\ UNCHANGED <<remaining, opened>>
               /\ stream[c].completed /\ CloseUnderlying(c)
               /\ Recorded(c, stream[c].provider, stream[c].attempt,
                           "success", "stream_served")
    BY <1>5 DEF CloseServed
  <1>6. ASSUME RestartFails(c)
        PROVE  /\ TakeNext(c) /\ UNCHANGED live
               /\ \E o \in Categories :
                     Recorded(c, Head(remaining[c]), opened[c] + 1,
                              o, "restart_failed")
    BY <1>1, <1>2, <1>6 DEF RestartFails
  <1>7. QED
    BY <1>3, <1>4, <1>5, <1>6

LEMMA NextProviderType ==
    ASSUME StreamTypeInv, NEW c \in Calls, TakeNext(c)
    PROVE  /\ pc[c] = "restarting"
           /\ Head(remaining[c]) \in Providers
           /\ remaining' \in [Calls -> Seq(Providers)]
           /\ opened' \in [Calls -> Nat]
           /\ opened[c] + 1 \in Nat
  <1>1. remaining[c] \in Seq(Providers) /\ remaining[c] # <<>> /\ pc[c] = "restarting"
    BY DEF TakeNext, StreamTypeInv, StreamTypeOK
  <1>2. Head(remaining[c]) \in Providers /\ Tail(remaining[c]) \in Seq(Providers)
    BY <1>1, HeadTailProperties
  <1>3. QED
    BY <1>1, <1>2 DEF TakeNext, StreamTypeInv, StreamTypeOK

LEMMA RecordStepTypes ==
    ASSUME StreamTypeInv, NEW c \in Calls,
           NextEnds(c) \/ NextDies(c) \/ CloseServed(c) \/ RestartFails(c)
    PROVE  StreamTypeInv'
  <1>0. TypeInv
    BY StreamTypeInvGivesTypeInv
  <1>1. PICK p \in Providers, n \in Nat, o \in Outcomes,
             place \in {"stream_failed", "stream_served", "restart_failed"} :
            /\ Recorded(c, p, n, o, place)
            /\ pc[c] \in {"streaming", "restarting"}
    <2>1. pc[c] = "streaming" => stream[c].provider \in Providers /\ stream[c].attempt \in Nat
      BY DEF StreamTypeInv, StreamTypeOK, StreamLoopInv, StreamPlaces, StreamRecord
    <2>2. Categories \subseteq Outcomes /\ "success" \in Outcomes
          /\ "stream_interrupted" \in Outcomes
      BY DEF Outcomes, Categories
    <2>3. CASE NextEnds(c)
      BY <2>1, <2>2, <2>3, RecordingSteps
    <2>4. CASE NextDies(c)
      BY <2>1, <2>2, <2>4, RecordingSteps
    <2>5. CASE CloseServed(c)
      BY <2>1, <2>2, <2>5, RecordingSteps
    <2>6. CASE RestartFails(c)
      BY <2>2, <2>6, RecordingSteps, NextProviderType
    <2>7. QED
      BY <2>3, <2>4, <2>5, <2>6
  <1>2. /\ TypeOK' /\ LoopInv'
        /\ attempts'[c] # <<>> /\ pc'[c] = place
        /\ \A d \in Calls : d # c => attempts'[d] = attempts[d] /\ pc'[d] = pc[d]
    BY <1>0, <1>1, RecordTypes DEF Recorded
  <1>3. remaining' \in [Calls -> Seq(Providers)] /\ opened' \in [Calls -> Nat]
    <2>1. remaining' \in [Calls -> Seq(Providers)]
      BY RecordingSteps, NextProviderType DEF StreamTypeInv, StreamTypeOK
    <2>2. opened' \in [Calls -> Nat]
      BY RecordingSteps, NextProviderType DEF StreamTypeInv, StreamTypeOK
    <2>3. QED
      BY <2>1, <2>2
  <1>4. live' \in [Calls -> SUBSET Nat]
    <2>1. CloseUnderlying(c) \/ UNCHANGED live
      BY RecordingSteps
    <2>2. QED
      BY <2>1 DEF CloseUnderlying, StreamTypeInv, StreamTypeOK
  <1>5. StreamTypeOK'
    BY <1>1, <1>2, <1>3, <1>4 DEF Recorded, StreamTypeInv, StreamTypeOK
  <1>6. StreamLoopInv'
    BY <1>1, <1>2 DEF Recorded, StreamTypeInv, StreamLoopInv, StreamPlaces
  <1>7. QED
    BY <1>2, <1>5, <1>6 DEF StreamTypeInv

\* The stream's steps that end the call or change one provider's health.
LEMMA SettleTypes ==
    ASSUME StreamTypeInv, NEW c \in Calls,
           \/ StreamCallFault(c) \/ RestartCallFault(c) \/ RestartExhausts(c)
           \/ Abandon(c)
    PROVE  StreamTypeInv'
  <1>1. pc' = [pc EXCEPT ![c] = "done"] /\ result' \in [Calls -> Results]
    BY DEF StreamCallFault, RestartCallFault, RestartExhausts, Abandon, Finish,
           StreamTypeInv, StreamTypeOK, TypeOK, Results
  <1>2. live' \in [Calls -> SUBSET Nat]
    BY DEF StreamCallFault, RestartCallFault, RestartExhausts, Abandon,
           CloseUnderlying, StreamTypeInv, StreamTypeOK, streamVars
  <1>3. UNCHANGED <<routerVars, ledger, attempts, loopVars,
                    stream, remaining, restarts, opened, failurePolicy>>
    BY DEF StreamCallFault, RestartCallFault, RestartExhausts, Abandon, streamVars
  <1>4. QED
    BY <1>1, <1>2, <1>3
       DEF StreamTypeInv, StreamTypeOK, TypeOK, LoopInv, StreamLoopInv,
           StreamPlaces, routerVars, loopVars, PCs

LEMMA LastAttemptType ==
    ASSUME TypeOK, NEW c \in Calls, attempts[c] # <<>>
    PROVE  LastProvider(c) \in Providers /\ LastOutcome(c) \in Outcomes
  <1>1. Len(attempts[c]) \in 1..Len(attempts[c]) /\ attempts[c] \in Seq(Attempt)
    BY EmptySeq DEF TypeOK
  <1>2. attempts[c][Len(attempts[c])] \in Attempt
    BY <1>1
  <1>3. QED
    BY <1>2 DEF LastProvider, LastOutcome, Attempt

LEMMA HealthStepTypes ==
    ASSUME StreamTypeInv, NEW c \in Calls,
           ApplyStreamFailure(c) \/ ApplyRestartFailure(c) \/ ApplyStreamSuccess(c)
    PROVE  StreamTypeInv'
  <1> USE DEF StreamTypeInv, StreamTypeOK, TypeOK
  <1>1. health' \in [Providers -> HealthState]
    <2>1. CASE ApplyStreamFailure(c) \/ ApplyRestartFailure(c)
      <3>1. attempts[c] # <<>>
        BY <2>1 DEF ApplyStreamFailure, ApplyRestartFailure, StreamLoopInv
      <3>2. LastProvider(c) \in Providers /\ LastOutcome(c) \in Outcomes
        BY <3>1, LastAttemptType
      <3>3. FailHealth(health[LastProvider(c)], LastOutcome(c)) \in HealthState
        BY <3>2, FailHealthType
      <3>4. QED
        BY <2>1, <3>2, <3>3 DEF ApplyStreamFailure, ApplyRestartFailure, BlameLast
    <2>2. CASE ApplyStreamSuccess(c)
      BY <2>2, SuccessState DEF ApplyStreamSuccess, StreamLoopInv, StreamPlaces
    <2>3. QED
      BY <2>1, <2>2
  <1>2. /\ pc' \in [Calls -> PCs] /\ result' \in [Calls -> Results]
        /\ pc'[c] \in {"restarting", "done"} /\ pc[c] \in StreamPlaces
        /\ \A d \in Calls : d # c => pc'[d] = pc[d]
    BY DEF ApplyStreamFailure, ApplyRestartFailure, ApplyStreamSuccess, EndServed,
           Finish, MoveTo, PCs, Results, StreamPlaces
  <1>3. live' \in [Calls -> SUBSET Nat]
    <2>1. CASE ApplyStreamFailure(c) \/ ApplyRestartFailure(c)
      BY <2>1 DEF ApplyStreamFailure, ApplyRestartFailure, streamVars
    <2>2. CASE ApplyStreamSuccess(c)
      BY <2>2 DEF ApplyStreamSuccess, CloseUnderlying
    <2>3. QED
      BY <2>1, <2>2
  <1>4. UNCHANGED <<now, closed, connected, rotation, metricsWarned, metricsRecovered,
                    resets, ledger, attempts, loopVars,
                    stream, remaining, restarts, opened, failurePolicy>>
    BY DEF ApplyStreamFailure, ApplyRestartFailure, ApplyStreamSuccess, streamVars
  <1>5. QED
    BY <1>1, <1>2, <1>3, <1>4 DEF LoopInv, StreamLoopInv, StreamPlaces, loopVars

LEMMA ReopenTypes ==
    ASSUME StreamTypeInv, NEW c \in Calls, RestartOpens(c) \/ CallbackRaises(c)
    PROVE  StreamTypeInv'
  <1> USE DEF StreamTypeInv, StreamTypeOK, TypeOK
  <1>1. TakeNext(c)
    BY DEF RestartOpens, CallbackRaises
  <1>2. /\ Head(remaining[c]) \in Providers /\ opened[c] + 1 \in Nat
        /\ remaining' \in [Calls -> Seq(Providers)] /\ opened' \in [Calls -> Nat]
    BY <1>1, NextProviderType
  <1>3. live' \in [Calls -> SUBSET Nat]
    <2>1. live' = [live EXCEPT ![c] = @ \cup {opened[c] + 1}]
      BY DEF RestartOpens, CallbackRaises
    <2>2. QED
      BY <1>2, <2>1
  <1>7. restarts' \in [Calls -> Nat]
    <2>1. restarts' = [restarts EXCEPT ![c] = @ + 1]
      BY DEF RestartOpens, CallbackRaises
    <2>2. QED
      BY <2>1
  <1>8. /\ pc' = [pc EXCEPT ![c] = "streaming"] /\ result' = result
        /\ UNCHANGED <<routerVars, ledger, attempts, loopVars, failurePolicy>>
    BY DEF RestartOpens, CallbackRaises, MoveTo
  <1>4. CASE RestartOpens(c)
    <2>1. /\ NewStream(opened[c] + 1, Head(remaining[c])) \in StreamRecord
          /\ NewStream(opened[c] + 1, Head(remaining[c])).provider \in Providers
      BY <1>2 DEF NewStream, NoStream, StreamRecord
    <2>2. stream' = [stream EXCEPT ![c] = NewStream(opened[c] + 1, Head(remaining[c]))]
      BY <1>4 DEF RestartOpens
    <2> HIDE DEF StreamTypeInv
    <2>3. QED
      BY <1>2, <1>3, <1>7, <1>8, <2>1, <2>2
         DEF StreamTypeInv, LoopInv, StreamLoopInv, StreamPlaces, routerVars, loopVars, PCs
  <1>5. CASE CallbackRaises(c)
    <2>1. stream' = stream /\ pc[c] = "restarting"
      BY <1>5 DEF CallbackRaises, TakeNext
    <2>2. QED
      BY <1>2, <1>3, <1>7, <1>8, <2>1
         DEF LoopInv, StreamLoopInv, StreamPlaces, routerVars, loopVars, PCs
  <1>6. QED
    BY <1>4, <1>5

LEMMA StreamTypeInvInductive == StreamTypeInv /\ [StreamNext]_allVars => StreamTypeInv'
  <1> SUFFICES ASSUME StreamTypeInv, [StreamNext]_allVars PROVE StreamTypeInv'
    OBVIOUS
  <1>1. CASE (\E c \in Calls : Attend(c)) /\ UNCHANGED streamVars
    BY <1>1, RouterStepKeepsStreamTypes
  <1>2. CASE (Environment \/ UNCHANGED vars) /\ UNCHANGED streamVars
    BY <1>2, RouterStepKeepsStreamTypes
  <1>3. ASSUME NEW c \in Calls, HandOver(c) PROVE StreamTypeInv'
    BY <1>3, HandOverTypes
  <1>4. ASSUME NEW c \in Calls, Drain(c) PROVE StreamTypeInv'
    BY <1>4, ChunkTypes, RecordStepTypes, SettleTypes, HealthStepTypes, ReopenTypes
       DEF Drain
  <1>5. ASSUME NEW c \in Calls, CloseStream(c) PROVE StreamTypeInv'
    BY <1>5, RecordStepTypes, SettleTypes DEF CloseStream
  <1>6. QED
    BY <1>1, <1>2, <1>3, <1>4, <1>5 DEF StreamNext, Quiet, allVars

LEMMA StreamTypeInvariance == StreamSpec => []StreamTypeInv
  <1>1. StreamInit => StreamTypeInv
    <2> SUFFICES ASSUME StreamInit PROVE StreamTypeInv
      OBVIOUS
    <2>1. TypeInv
      <3>1. health \in [Providers -> HealthState]
        BY FreshState DEF StreamInit, Init
      <3>2. /\ ledger \in [Calls -> Seq(Event)]
            /\ ordered \in [Calls -> Seq(Providers)]
            /\ attempts \in [Calls -> Seq(Attempt)]
        BY EmptySeq DEF StreamInit, Init
      <3>3. pc \in [Calls -> PCs] /\ result \in [Calls -> Results]
        BY DEF StreamInit, Init, PCs, Results
      <3>4. QED
        BY <3>1, <3>2, <3>3 DEF StreamInit, Init, TypeInv, TypeOK, LoopInv
    <2>2. NoStream \in StreamRecord
      BY DEF NoStream, StreamRecord
    <2>3. failurePolicy \in {"restart", "raise"}
      BY StreamAssumption DEF StreamInit
    <2>4. remaining \in [Calls -> Seq(Providers)]
      BY EmptySeq DEF StreamInit
    <2>5. StreamLoopInv
      BY DEF StreamInit, Init, StreamLoopInv, StreamPlaces
    <2>6. QED
      BY <2>1, <2>2, <2>3, <2>4, <2>5
         DEF StreamInit, StreamTypeInv, StreamTypeOK, TypeInv
  <1>2. QED
    BY <1>1, StreamTypeInvInductive, PTL DEF StreamSpec

\* Every variable of the router, its calls and their streams keeps its type,
\* and whoever is credited or blamed by a stream is a provider.
THEOREM StreamTypeCorrect == StreamSpec => []StreamTypeOK
  <1>1. StreamTypeInv => StreamTypeOK
    BY DEF StreamTypeInv
  <1>2. QED
    BY <1>1, StreamTypeInvariance, PTL

-----------------------------------------------------------------------------
(* What the steps do to a call: where it goes, what it lists, what it keeps.*)

\* Steps of invoke() that list nothing.
LEMMA InvokeMoves ==
    ASSUME TypeInv, NEW c \in Calls, Attend(c),
           ~(ProviderFails(c) \/ ProviderServes(c))
    PROVE  /\ attempts' = attempts /\ ledger' = ledger
           /\ \/ pc[c] = "start" /\ pc'[c] = "select" /\ result' = result
              \/ pc[c] = "select" /\ pc'[c] = "inflight" /\ result' = result
              \/ /\ pc[c] = "failed" /\ pc'[c] = "inflight" /\ result' = result
                 /\ LastOutcome(c) \notin StopCategories
              \/ /\ pc[c] \in {"start", "select", "inflight", "failed"}
                 /\ pc'[c] = "done"
                 /\ result'[c] \in {"closed", "rejected", "no_eligible", "exhausted",
                                    "raised", "config_error"}
                 /\ result'[c] \in {"closed", "rejected", "no_eligible"} =>
                        pc[c] \in {"start", "select"}
              \/ pc[c] = "served" /\ pc'[c] = "done" /\ result'[c] = "served"
  <1> USE DEF TypeInv, TypeOK
  <1>1. CASE EnterInvoke(c) \/ RefuseClosed(c) \/ RejectVariants(c)
             \/ NoneEligible(c) \/ PolicyRaises(c)
    BY <1>1 DEF EnterInvoke, RefuseClosed, RejectVariants, NoneEligible,
                PolicyRaises, Finish
  <1>2. CASE SelectProviders(c)
    BY <1>2 DEF SelectProviders, Finish
  <1>3. CASE FactoryRaises(c) \/ StopOnCallFault(c) \/ ApplySuccess(c)
    BY <1>3 DEF FactoryRaises, StopOnCallFault, ApplySuccess, Finish
  <1>4. CASE ApplyFailure(c)
    <2>1. /\ pc[c] = "failed" /\ LastOutcome(c) \notin StopCategories
          /\ attempts' = attempts /\ ledger' = ledger
      BY <1>4 DEF ApplyFailure
    <2>2. \/ pc'[c] = "inflight" /\ result' = result
          \/ pc'[c] = "done" /\ result'[c] \in {"exhausted", "config_error", "raised"}
      BY <1>4 DEF ApplyFailure, RetryProvider, FallBack, Exhaust, Finish
    <2>3. QED
      BY <2>1, <2>2
  <1>5. QED
    BY <1>1, <1>2, <1>3, <1>4 DEF Attend

\* Steps of invoke() that list an attempt record the same one.
LEMMA InvokeAnswers ==
    ASSUME TypeInv, NEW c \in Calls, ProviderFails(c) \/ ProviderServes(c)
    PROVE  \E o \in Outcomes :
            /\ pc[c] = "inflight"
            /\ NoteAttempt(c, Current(c), o)
            /\ RecordMetrics(c, Len(attempts[c]) + 1, Current(c), o)
            /\ pc'[c] = IF o = "success" THEN "served" ELSE "failed"
            /\ UNCHANGED <<ordered, index, result>>
  <1>1. CASE ProviderFails(c)
    <2>1. PICK e \in Errors :
            /\ NoteAttempt(c, Current(c), CategorizeError(e))
            /\ RecordMetrics(c, Len(attempts[c]) + 1, Current(c), CategorizeError(e))
      BY <1>1 DEF ProviderFails
    <2>2. CategorizeError(e) \in Outcomes /\ CategorizeError(e) # "success"
      BY CategorizeType DEF Outcomes, Categories
    <2>3. QED
      BY <1>1, <2>1, <2>2 DEF ProviderFails, TypeInv, TypeOK
  <1>2. CASE ProviderServes(c)
    BY <1>2 DEF ProviderServes, Outcomes, TypeInv, TypeOK
  <1>3. QED
    BY <1>1, <1>2

\* Steps of a stream that neither list an attempt nor open a stream.
LEMMA StreamMoves ==
    ASSUME StreamTypeInv, NEW c \in Calls,
           \/ StreamCallFault(c) \/ ApplyStreamFailure(c) \/ ApplyStreamSuccess(c)
           \/ RestartCallFault(c) \/ ApplyRestartFailure(c) \/ RestartExhausts(c)
           \/ Abandon(c)
    PROVE  /\ UNCHANGED <<attempts, ledger, stream, opened, remaining>>
           /\ \/ /\ pc[c] = "streaming" /\ pc'[c] = "done"
                 /\ result'[c] = "abandoned" /\ CloseUnderlying(c)
              \/ /\ pc[c] = "stream_served" /\ pc'[c] = "done"
                 /\ result'[c] = "served" /\ CloseUnderlying(c)
              \/ /\ pc[c] \in {"stream_failed", "restart_failed"}
                 /\ pc'[c] = "restarting" /\ result' = result
                 /\ LastOutcome(c) \notin StopCategories /\ UNCHANGED live
              \/ /\ pc[c] \in {"stream_failed", "restart_failed", "restarting"}
                 /\ pc'[c] = "done" /\ result'[c] \in {"exhausted", "stream_error"}
                 /\ UNCHANGED live
  <1> USE DEF StreamTypeInv, StreamTypeOK, TypeOK
  <1>1. CASE StreamCallFault(c)
    BY <1>1 DEF StreamCallFault, Finish, streamVars
  <1>2. CASE RestartCallFault(c) \/ RestartExhausts(c)
    BY <1>2 DEF RestartCallFault, RestartExhausts, Finish, streamVars
  <1>3. CASE Abandon(c)
    BY <1>3 DEF Abandon, Finish
  <1>4. CASE ApplyStreamSuccess(c)
    BY <1>4 DEF ApplyStreamSuccess, EndServed, Finish
  <1>5. CASE ApplyStreamFailure(c)
    BY <1>5 DEF ApplyStreamFailure, Finish, MoveTo, streamVars
  <1>6. CASE ApplyRestartFailure(c)
    BY <1>6 DEF ApplyRestartFailure, MoveTo, streamVars
  <1>7. QED
    BY <1>1, <1>2, <1>3, <1>4, <1>5, <1>6

\* A call that takes no step keeps everything that is its own.
SameCall(d) ==
    /\ pc'[d] = pc[d] /\ result'[d] = result[d]
    /\ attempts'[d] = attempts[d] /\ ledger'[d] = ledger[d]
    /\ ordered'[d] = ordered[d] /\ index'[d] = index[d]
    /\ stream'[d] = stream[d] /\ opened'[d] = opened[d]
    /\ live'[d] = live[d] /\ remaining'[d] = remaining[d]

LEMMA LedgerOfOthers ==
    ASSUME TypeOK, NEW c \in Calls, NEW n, NEW p, NEW o, RecordMetrics(c, n, p, o),
           NEW d \in Calls, d # c
    PROVE  ledger'[d] = ledger[d]
  BY DEF RecordMetrics, DropLate, WriteRow, WriteFails, LogEvent, TypeOK

LEMMA OtherCalls ==
    ASSUME StreamTypeInv, NEW c \in Calls,
           \/ Attend(c) /\ UNCHANGED streamVars
           \/ HandOver(c) \/ Drain(c) \/ CloseStream(c),
           NEW d \in Calls, d # c
    PROVE  SameCall(d)
  <1>0. TypeInv /\ TypeOK
    BY StreamTypeInvGivesTypeInv DEF TypeInv
  <1> USE DEF SameCall
  <1>1. CASE Attend(c) /\ UNCHANGED streamVars
    <2>1. ledger'[d] = ledger[d]
      <3>1. CASE ProviderFails(c) \/ ProviderServes(c)
        <4>1. PICK n, p, o : RecordMetrics(c, n, p, o)
          BY <1>0, <3>1, InvokeAnswers
        <4>2. QED
          BY <1>0, <4>1, LedgerOfOthers
      <3>2. CASE ~(ProviderFails(c) \/ ProviderServes(c))
        BY <1>0, <1>1, <3>2, InvokeMoves
      <3>3. QED
        BY <3>1, <3>2
    <2>2. QED
      BY <1>0, <1>1, <2>1, OthersUnchanged DEF streamVars
  <1>2. CASE HandOver(c)
    <2>1. OpenStream(c)
      BY <1>2 DEF HandOver
    <2>2. QED
      BY <1>0, <1>2, <2>1, OthersUnchanged
         DEF HandOver, OpenStream, StreamTypeInv, StreamTypeOK
  <1>3. CASE NextChunk(c)
    <2>1. stream'[d] = stream[d]
      BY <1>3 DEF NextChunk, StreamTypeInv, StreamTypeOK
    <2>2. QED
      BY <1>3, <2>1 DEF NextChunk, vars, callVars
  <1>4. CASE NextEnds(c) \/ NextDies(c) \/ CloseServed(c) \/ RestartFails(c)
    <2>1. PICK p, n, o, place : Recorded(c, p, n, o, place)
      BY <1>4, RecordingSteps
    <2>2. ledger'[d] = ledger[d]
      BY <1>0, <2>1, LedgerOfOthers DEF Recorded
    <2>3. live'[d] = live[d] /\ remaining'[d] = remaining[d] /\ opened'[d] = opened[d]
      BY <1>4, RecordingSteps
         DEF CloseUnderlying, TakeNext, StreamTypeInv, StreamTypeOK
    <2>4. QED
      BY <1>0, <2>1, <2>2, <2>3 DEF Recorded, NoteAttempt, MoveTo, loopVars, TypeOK
  <1>5. CASE \/ StreamCallFault(c) \/ ApplyStreamFailure(c) \/ ApplyStreamSuccess(c)
             \/ RestartCallFault(c) \/ ApplyRestartFailure(c) \/ RestartExhausts(c)
             \/ Abandon(c)
    <2>1. UNCHANGED <<attempts, ledger, stream, opened, remaining>>
      BY <1>5, StreamMoves
    <2>2. live'[d] = live[d]
      BY <1>5, StreamMoves DEF CloseUnderlying, StreamTypeInv, StreamTypeOK
    <2>3. pc'[d] = pc[d] /\ result'[d] = result[d] /\ UNCHANGED loopVars
      BY <1>0, <1>5
         DEF StreamCallFault, ApplyStreamFailure, ApplyStreamSuccess, RestartCallFault,
             ApplyRestartFailure, RestartExhausts, Abandon, Finish, EndServed, MoveTo,
             TypeOK
    <2>4. QED
      BY <2>1, <2>2, <2>3 DEF loopVars
  <1>6. CASE RestartOpens(c) \/ CallbackRaises(c)
    <2>1. stream'[d] = stream[d] /\ live'[d] = live[d] /\ pc'[d] = pc[d]
      BY <1>0, <1>6
         DEF RestartOpens, CallbackRaises, MoveTo, StreamTypeInv, StreamTypeOK, TypeOK
    <2>2. remaining'[d] = remaining[d] /\ opened'[d] = opened[d]
      BY <1>6 DEF RestartOpens, CallbackRaises, TakeNext, StreamTypeInv, StreamTypeOK
    <2>3. UNCHANGED <<result, attempts, ledger, ordered, index>>
      BY <1>6 DEF RestartOpens, CallbackRaises, MoveTo, loopVars
    <2>4. QED
      BY <2>1, <2>2, <2>3
  <1>7. QED
    BY <1>1, <1>2, <1>3, <1>4, <1>5, <1>6 DEF Drain, CloseStream

\* The environment touches no call.
LEMMA EnvironmentKeepsCalls ==
    ASSUME Environment \/ UNCHANGED vars, UNCHANGED streamVars
    PROVE  \A d \in Calls : SameCall(d)
  BY DEF Environment, CloseRouter, ResetHealth, Tick, vars, callVars, streamVars, SameCall

-----------------------------------------------------------------------------
(* Where a call is and what its last attempt said.  It holds whether or not *)
(* the restart callback may raise.                                          *)

LastAttemptOf(c) == attempts[c][Len(attempts[c])]

VerdictOK(c) ==
    /\ pc[c] = "done" <=> result[c] # "none"
    /\ pc[c] \in {"start", "select"} => attempts[c] = <<>>
    /\ pc[c] \in {"inflight", "streaming", "restarting"} /\ attempts[c] # <<>> =>
           LastAttemptOf(c).outcome \notin StopCategories \cup {"success"}
    /\ pc[c] \in {"failed", "stream_failed", "restart_failed"} =>
           attempts[c] # <<>> /\ LastAttemptOf(c).outcome # "success"
    /\ pc[c] = "served" =>
           /\ attempts[c] # <<>>
           /\ LastAttemptOf(c) = [provider |-> Current(c), outcome |-> "success"]
    /\ pc[c] = "stream_served" =>
           /\ attempts[c] # <<>>
           /\ LastAttemptOf(c) = [provider |-> stream[c].provider, outcome |-> "success"]

VerdictInv == \A c \in Calls : VerdictOK(c)

LEMMA VerdictFrame ==
    ASSUME NEW d \in Calls, VerdictOK(d), SameCall(d)
    PROVE  VerdictOK(d)'
  BY DEF VerdictOK, SameCall, LastAttemptOf, Current

\* After an attempt is listed it is the last one.
LEMMA NotedLast ==
    ASSUME TypeOK, NEW c \in Calls, NEW p \in Providers, NEW o \in Outcomes,
           NoteAttempt(c, p, o)
    PROVE  /\ attempts'[c] # <<>>
           /\ LastAttemptOf(c)' = [provider |-> p, outcome |-> o]
  BY NoteFacts DEF LastAttemptOf

LEMMA InvokeVerdict ==
    ASSUME TypeInv, NEW c \in Calls, VerdictOK(c), Attend(c)
    PROVE  VerdictOK(c)'
  <1>1. CASE ProviderFails(c) \/ ProviderServes(c)
    <2>1. PICK o \in Outcomes :
            /\ pc[c] = "inflight"
            /\ NoteAttempt(c, Current(c), o)
            /\ pc'[c] = IF o = "success" THEN "served" ELSE "failed"
            /\ UNCHANGED <<ordered, index, result>>
      BY <1>1, InvokeAnswers
    <2>2. Current(c) \in Providers /\ Current(c)' = Current(c)
      BY <2>1, CurrentType DEF Current
    <2>3. /\ attempts'[c] # <<>>
          /\ LastAttemptOf(c)' = [provider |-> Current(c), outcome |-> o]
      BY <2>1, <2>2, NotedLast DEF TypeInv
    <2>4. result'[c] = "none"
      BY <2>1 DEF VerdictOK
    <2>5. CASE o = "success"
      BY <2>1, <2>2, <2>3, <2>4, <2>5 DEF VerdictOK
    <2>6. CASE o # "success"
      BY <2>1, <2>3, <2>4, <2>6 DEF VerdictOK
    <2>7. QED
      BY <2>5, <2>6
  <1>2. CASE ~(ProviderFails(c) \/ ProviderServes(c))
    <2>1. attempts' = attempts /\ LastAttemptOf(c)' = LastAttemptOf(c)
      BY <1>2, InvokeMoves DEF LastAttemptOf
    <2>2. LastOutcome(c) = LastAttemptOf(c).outcome
      BY DEF LastOutcome, LastAttemptOf
    <2>3. QED
      BY <1>2, <2>1, <2>2, InvokeMoves DEF VerdictOK
  <1>3. QED
    BY <1>1, <1>2

LEMMA StreamVerdictStep ==
    ASSUME StreamTypeInv, NEW c \in Calls, VerdictOK(c),
           HandOver(c) \/ Drain(c) \/ CloseStream(c)
    PROVE  VerdictOK(c)'
  <1>0. TypeInv /\ TypeOK
    BY StreamTypeInvGivesTypeInv DEF TypeInv
  <1>1. LastOutcome(c) = LastAttemptOf(c).outcome
    BY DEF LastOutcome, LastAttemptOf
  <1>2. CASE HandOver(c)
    <2>1. /\ pc[c] = "inflight" /\ pc'[c] = "streaming"
          /\ attempts' = attempts /\ result' = result
      BY <1>0, <1>2 DEF HandOver, OpenStream, TypeOK
    <2>2. QED
      BY <2>1 DEF VerdictOK, LastAttemptOf
  <1>3. CASE NextChunk(c)
    <2>1. pc[c] = "streaming" /\ UNCHANGED <<pc, attempts, result>>
      BY <1>3 DEF NextChunk, vars, callVars
    <2>2. QED
      BY <2>1 DEF VerdictOK, LastAttemptOf
  <1>4. ASSUME pc[c] \in StreamPlaces, NEW p \in Providers, NEW n, NEW o \in Outcomes,
               NEW place \in {"stream_failed", "stream_served", "restart_failed"},
               Recorded(c, p, n, o, place),
               place = "stream_served" => o = "success" /\ p = stream[c].provider,
               place # "stream_served" => o # "success"
        PROVE  VerdictOK(c)'
    <2>1. /\ attempts'[c] # <<>>
          /\ LastAttemptOf(c)' = [provider |-> p, outcome |-> o]
      BY <1>0, <1>4, NotedLast DEF Recorded
    <2>2. pc'[c] = place /\ result'[c] = "none" /\ stream' = stream
      BY <1>0, <1>4 DEF Recorded, MoveTo, TypeOK, VerdictOK, StreamPlaces
    <2>3. QED
      BY <1>4, <2>1, <2>2 DEF VerdictOK
  <1>5. CASE NextEnds(c) \/ NextDies(c) \/ CloseServed(c)
    <2>1. pc[c] \in StreamPlaces /\ stream[c].provider \in Providers
      BY <1>5, RecordingSteps DEF StreamPlaces, StreamTypeInv, StreamLoopInv
    <2>2. Categories \subseteq Outcomes /\ "success" \in Outcomes
          /\ "stream_interrupted" \in Outcomes /\ "success" \notin Categories
      BY DEF Outcomes, Categories
    <2>3. CASE NextEnds(c)
      BY <1>4, <2>1, <2>2, <2>3, RecordingSteps
    <2>4. CASE NextDies(c)
      BY <1>4, <2>1, <2>2, <2>4, RecordingSteps
    <2>5. CASE CloseServed(c)
      BY <1>4, <2>1, <2>2, <2>5, RecordingSteps
    <2>6. QED
      BY <1>5, <2>3, <2>4, <2>5
  <1>6. CASE RestartFails(c)
    <2>1. TakeNext(c) /\ \E o \in Categories :
            Recorded(c, Head(remaining[c]), opened[c] + 1, o, "restart_failed")
      BY <1>6, RecordingSteps
    <2>2. Head(remaining[c]) \in Providers /\ pc[c] \in StreamPlaces
      BY <2>1, NextProviderType DEF StreamPlaces
    <2>3. \A o \in Categories : o \in Outcomes /\ o # "success"
      BY DEF Outcomes, Categories
    <2>4. QED
      BY <1>4, <2>1, <2>2, <2>3
  <1>7. CASE \/ StreamCallFault(c) \/ ApplyStreamFailure(c) \/ ApplyStreamSuccess(c)
             \/ RestartCallFault(c) \/ ApplyRestartFailure(c) \/ RestartExhausts(c)
             \/ Abandon(c)
    <2>1. attempts' = attempts /\ LastAttemptOf(c)' = LastAttemptOf(c)
      BY <1>7, StreamMoves DEF LastAttemptOf
    <2>2. QED
      BY <1>1, <1>7, <2>1, StreamMoves DEF VerdictOK
  <1>8. CASE RestartOpens(c) \/ CallbackRaises(c)
    <2>1. /\ pc[c] = "restarting" /\ pc'[c] = "streaming"
          /\ attempts' = attempts /\ result' = result
      BY <1>0, <1>8 DEF RestartOpens, CallbackRaises, TakeNext, MoveTo, TypeOK
    <2>2. QED
      BY <2>1 DEF VerdictOK, LastAttemptOf
  <1>9. QED
    BY <1>2, <1>3, <1>5, <1>6, <1>7, <1>8 DEF Drain, CloseStream

LEMMA VerdictInvInductive ==
    StreamTypeInv /\ VerdictInv /\ [StreamNext]_allVars => VerdictInv'
  <1> SUFFICES ASSUME StreamTypeInv, VerdictInv, [StreamNext]_allVars PROVE VerdictInv'
    OBVIOUS
  <1>1. ASSUME NEW c \in Calls,
               \/ Attend(c) /\ UNCHANGED streamVars
               \/ HandOver(c) \/ Drain(c) \/ CloseStream(c)
        PROVE  VerdictInv'
    <2>1. VerdictOK(c)'
      BY <1>1, StreamTypeInvGivesTypeInv, InvokeVerdict, StreamVerdictStep DEF VerdictInv
    <2>2. ASSUME NEW d \in Calls, d # c PROVE VerdictOK(d)'
      BY <1>1, <2>2, OtherCalls, VerdictFrame DEF VerdictInv
    <2>3. QED
      BY <2>1, <2>2 DEF VerdictInv
  <1>2. CASE (Environment \/ UNCHANGED vars) /\ UNCHANGED streamVars
    BY <1>2, EnvironmentKeepsCalls, VerdictFrame DEF VerdictInv
  <1>3. QED
    BY <1>1, <1>2 DEF StreamNext, Quiet, allVars

LEMMA VerdictInvariance == StreamSpec => []VerdictInv
  <1>1. StreamInit => VerdictInv
    BY DEF StreamInit, Init, VerdictInv, VerdictOK
  <1>2. QED
    BY <1>1, StreamTypeInvariance, VerdictInvInductive, PTL DEF StreamSpec

-----------------------------------------------------------------------------
(* Forgiveness.                                                             *)

\* The steps that do not touch health.
LEMMA HealthKept ==
    ASSUME NEW c \in Calls,
           \/ /\ Attend(c) /\ ~ApplyFailure(c) /\ ~ApplySuccess(c)
           \/ HandOver(c) \/ CloseStream(c)
           \/ /\ Drain(c) /\ ~ApplyStreamFailure(c) /\ ~ApplyRestartFailure(c)
              /\ ~ApplyStreamSuccess(c)
    PROVE  health' = health
  <1>1. CASE Attend(c) /\ ~ApplyFailure(c) /\ ~ApplySuccess(c)
    BY <1>1 DEF Attend, EnterInvoke, RefuseClosed, RejectVariants, SelectProviders,
                NoneEligible, PolicyRaises, ProviderFails, FactoryRaises,
                StopOnCallFault, ProviderServes, routerVars
  <1>2. CASE HandOver(c)
    BY <1>2 DEF HandOver, OpenStream, routerVars
  <1>3. CASE CloseStream(c)
    BY <1>3 DEF CloseStream, CloseServed, Abandon, routerVars
  <1>4. CASE NextChunk(c) \/ NextEnds(c) \/ NextDies(c) \/ RestartFails(c)
    BY <1>4 DEF NextChunk, NextEnds, NextDies, RestartFails, vars, routerVars
  <1>5. CASE StreamCallFault(c) \/ RestartCallFault(c) \/ RestartExhausts(c)
             \/ RestartOpens(c) \/ CallbackRaises(c)
    BY <1>5 DEF StreamCallFault, RestartCallFault, RestartExhausts, RestartOpens,
                CallbackRaises, routerVars
  <1>6. QED
    BY <1>1, <1>2, <1>3, <1>4, <1>5 DEF Drain

\* A stream that opened, restarted or produced chunks has forgiven nothing yet:
\* only the end of a call the provider served, or a reset, clears its failures.
THEOREM OpeningIsNoSuccess == StreamSpec => OpeningForgivesNothing
  <1> DEFINE Forgiven(p) ==
        \/ resets' # resets
        \/ \E c \in Calls :
            /\ pc'[c] = "done" /\ pc[c] # "done"
            /\ result'[c] = "served"
            /\ attempts[c][Len(attempts[c])] = [provider |-> p, outcome |-> "success"]
  <1>1. StreamTypeInv /\ VerdictInv /\ [StreamNext]_allVars =>
            [\A p \in Providers :
                health'[p].consecutiveFailures < health[p].consecutiveFailures
                    => Forgiven(p)]_allVars
    <2> SUFFICES ASSUME StreamTypeInv, VerdictInv, [StreamNext]_allVars,
                        NEW p \in Providers,
                        health'[p].consecutiveFailures < health[p].consecutiveFailures
                 PROVE  Forgiven(p)
      OBVIOUS
    <2>1. TypeInv /\ TypeOK
      BY StreamTypeInvGivesTypeInv DEF TypeInv
    <2>2. health[p] \in HealthState
      BY <2>1 DEF TypeOK
    <2>3. health'[p] # health[p]
      BY <2>2 DEF HealthState
    <2>4. \A category \in Outcomes : health'[p] # FailHealth(health[p], category)
      BY <2>2, FailureKeepsCount, FailHealthType, <2>1 DEF TypeOK, HealthState
    <2>5. ASSUME NEW c \in Calls, ApplyFailure(c) PROVE FALSE
      <3>1. pc[c] = "failed" /\ attempts[c] # <<>>
        BY <2>1, <2>5 DEF ApplyFailure, TypeInv, LoopInv
      <3>2. Current(c) \in Providers /\ LastOutcome(c) \in Outcomes
        BY <2>1, <3>1, CurrentType, LastOutcomeType
      <3>3. QED
        BY <2>1, <2>3, <2>4, <2>5, <3>2 DEF ApplyFailure, Blame, TypeOK
    <2>6. ASSUME NEW c \in Calls, ApplyStreamFailure(c) \/ ApplyRestartFailure(c)
          PROVE  FALSE
      <3>1. attempts[c] # <<>>
        BY <2>6 DEF ApplyStreamFailure, ApplyRestartFailure, StreamTypeInv, StreamLoopInv
      <3>2. LastProvider(c) \in Providers /\ LastOutcome(c) \in Outcomes
        BY <2>1, <3>1, LastAttemptType
      <3>3. BlameLast(c)
        BY <2>6 DEF ApplyStreamFailure, ApplyRestartFailure
      <3>4. QED
        BY <2>1, <2>3, <2>4, <3>2, <3>3 DEF BlameLast, TypeOK
    <2>7. ASSUME NEW c \in Calls, ApplySuccess(c) PROVE Forgiven(p)
      <3>1. pc[c] = "served" /\ Current(c) = p
        BY <2>1, <2>3, <2>7, CurrentType DEF ApplySuccess, TypeOK
      <3>2. attempts[c][Len(attempts[c])] = [provider |-> p, outcome |-> "success"]
        BY <3>1 DEF VerdictInv, VerdictOK, LastAttemptOf
      <3>3. pc'[c] = "done" /\ result'[c] = "served"
        BY <2>1, <2>7 DEF ApplySuccess, Finish, TypeOK
      <3>4. QED
        BY <3>1, <3>2, <3>3
    <2>8. ASSUME NEW c \in Calls, ApplyStreamSuccess(c) PROVE Forgiven(p)
      <3>1. pc[c] = "stream_served" /\ stream[c].provider = p
        BY <2>1, <2>3, <2>8
           DEF ApplyStreamSuccess, TypeOK, StreamTypeInv, StreamLoopInv, StreamPlaces
      <3>2. attempts[c][Len(attempts[c])] = [provider |-> p, outcome |-> "success"]
        BY <3>1 DEF VerdictInv, VerdictOK, LastAttemptOf
      <3>3. pc'[c] = "done" /\ result'[c] = "served"
        BY <2>1, <2>8 DEF ApplyStreamSuccess, EndServed, Finish, TypeOK
      <3>4. QED
        BY <3>1, <3>2, <3>3
    <2>9. ASSUME NEW c \in Calls, Attend(c) \/ HandOver(c) \/ Drain(c) \/ CloseStream(c)
          PROVE  Forgiven(p)
      BY <2>3, <2>5, <2>6, <2>7, <2>8, <2>9, HealthKept
    <2>10. CASE Environment \/ UNCHANGED vars
      <3>1. \/ health' = health
            \/ \E cleared \in Resettable : ResetHealth(cleared)
        BY <2>10 DEF Environment, CloseRouter, Tick, vars, routerVars
      <3>2. ASSUME NEW cleared \in Resettable, ResetHealth(cleared) PROVE resets' # resets
        BY <2>1, <3>2 DEF ResetHealth, TypeOK
      <3>3. QED
        BY <2>3, <3>1, <3>2
    <2>11. QED
      BY <2>9, <2>10 DEF StreamNext, Quiet, allVars
  <1>2. QED
    BY <1>1, StreamTypeInvariance, VerdictInvariance, PTL
       DEF StreamSpec, OpeningForgivesNothing

-----------------------------------------------------------------------------
(* The caller's contract, for the whole life of a stream.                   *)

\* Each step of a call and of its stream is a step of the contract or none.
LEMMA StreamContractStep ==
    ASSUME StreamTypeInv, VerdictInv, VerdictInv', NEW c \in Calls,
           \/ Attend(c) /\ UNCHANGED streamVars
           \/ HandOver(c) \/ Drain(c) \/ CloseStream(c)
    PROVE  [StreamContract!Next]_(StreamContract!contractVars)
  <1> DEFINE verdict == [d \in Calls |-> StreamVerdict(d)]
  <1>0. TypeInv /\ TypeOK
    BY StreamTypeInvGivesTypeInv DEF TypeInv
  <1>1. \A d \in Calls : d # c => verdict'[d] = verdict[d] /\ attempts'[d] = attempts[d]
    BY OtherCalls DEF StreamVerdict, SameCall
  <1>2. CASE attempts' = attempts /\ result'[c] = result[c]
    <2>1. verdict' = verdict
      BY <1>1, <1>2 DEF StreamVerdict
    <2>2. QED
      BY <1>2, <2>1 DEF StreamContract!contractVars
  <1>3. ASSUME NEW v, attempts' = attempts, result[c] = "none", StreamVerdict(c)' = v
        PROVE  StreamContract!Conclude(c, v)
    <2>1. verdict[c] = "open"
      BY <1>3 DEF StreamVerdict
    <2>2. verdict' = [verdict EXCEPT ![c] = v]
      BY <1>1, <1>3
    <2>3. QED
      BY <1>3, <2>1, <2>2 DEF StreamContract!Conclude
  <1>4. ASSUME NEW p \in Providers, NEW o \in Outcomes, NoteAttempt(c, p, o),
               pc[c] \in {"inflight", "streaming", "restarting"}, result' = result
        PROVE  StreamContract!Try(c)
    <2>1. VerdictOK(c)
      BY DEF VerdictInv
    <2>2. verdict[c] = "open"
      BY <1>4, <2>1 DEF VerdictOK, StreamVerdict
    <2>3. verdict' = verdict
      BY <1>1, <1>4 DEF StreamVerdict
    <2>4. ~StreamContract!Ended(c)
      BY <1>4, <2>1
         DEF VerdictOK, LastAttemptOf, StreamContract!Ended, StreamContract!Final,
             StreamContract!StopCategories, StopCategories
    <2>5. \E q \in Providers, u \in Categories \cup {"success"} :
            attempts' = [attempts EXCEPT ![c] =
                            Append(@, [provider |-> q, outcome |-> u])]
      BY <1>4 DEF NoteAttempt, Outcomes
    <2>6. QED
      BY <2>2, <2>3, <2>4, <2>5
         DEF StreamContract!Try, StreamContract!Categories, Categories
  <1>5. ASSUME pc[c] \in StreamPlaces \cup {"start", "select", "inflight", "failed"},
               pc[c] # "stream_served", attempts' = attempts,
               result'[c] \in {"exhausted", "raised", "config_error", "stream_error"}
        PROVE  StreamContract!Next
    <2>1. result[c] = "none"
      BY <1>5 DEF VerdictInv, VerdictOK, StreamPlaces
    <2>2. StreamVerdict(c)' = "failed"
      BY <1>5 DEF StreamVerdict
    <2>3. ~StreamContract!Succeeded(c)
      BY <1>5
         DEF VerdictInv, VerdictOK, LastAttemptOf, StreamPlaces, StreamContract!Succeeded
    <2>4. QED
      BY <1>3, <1>5, <2>1, <2>2, <2>3 DEF StreamContract!Next, StreamContract!Fail
  <1>6. ASSUME pc[c] \in {"served", "stream_served"}, attempts' = attempts,
               result'[c] = "served"
        PROVE  StreamContract!Next
    <2>1. result[c] = "none"
      BY <1>6 DEF VerdictInv, VerdictOK
    <2>2. StreamVerdict(c)' = "served"
      BY <1>6 DEF StreamVerdict
    <2>3. StreamContract!Succeeded(c)
      <3>1. attempts[c] # <<>> /\ LastAttemptOf(c).outcome = "success"
        BY <1>6 DEF VerdictInv, VerdictOK
      <3>2. QED
        BY <3>1 DEF LastAttemptOf, StreamContract!Succeeded
    <2>4. QED
      BY <1>3, <1>6, <2>1, <2>2, <2>3 DEF StreamContract!Next, StreamContract!Serve
  <1>7. CASE ProviderFails(c) \/ ProviderServes(c)
    <2>1. PICK o \in Outcomes :
            /\ pc[c] = "inflight"
            /\ NoteAttempt(c, Current(c), o)
            /\ UNCHANGED <<ordered, index, result>>
      BY <1>0, <1>7, InvokeAnswers
    <2>2. Current(c) \in Providers
      BY <1>0, <2>1, CurrentType
    <2>3. QED
      BY <1>4, <2>1, <2>2 DEF StreamContract!Next
  <1>8. CASE Attend(c) /\ ~(ProviderFails(c) \/ ProviderServes(c))
    <2>1. attempts' = attempts
      BY <1>0, <1>8, InvokeMoves
    <2>2. CASE result'[c] \in {"closed", "rejected", "no_eligible"} /\ pc'[c] = "done"
               /\ pc[c] \in {"start", "select"}
      <3>1. attempts[c] = <<>> /\ result[c] = "none"
        BY <2>2 DEF VerdictInv, VerdictOK
      <3>2. StreamVerdict(c)' = "refused"
        BY <2>2 DEF StreamVerdict
      <3>3. QED
        BY <1>3, <2>1, <3>1, <3>2 DEF StreamContract!Next, StreamContract!Refuse
    <2>3. QED
      BY <1>0, <1>2, <1>5, <1>6, <1>8, <2>1, <2>2, InvokeMoves
  <1>9. CASE HandOver(c) \/ NextChunk(c) \/ RestartOpens(c) \/ CallbackRaises(c)
    <2>1. attempts' = attempts /\ result' = result
      BY <1>9 DEF HandOver, OpenStream, NextChunk, RestartOpens, CallbackRaises,
                  MoveTo, vars, callVars
    <2>2. QED
      BY <1>2, <2>1
  <1>10. CASE NextEnds(c) \/ NextDies(c) \/ CloseServed(c) \/ RestartFails(c)
    <2>1. \E p \in Providers, o \in Outcomes :
            /\ NoteAttempt(c, p, o) /\ result' = result
            /\ pc[c] \in {"streaming", "restarting"}
      <3>1. pc[c] = "streaming" => stream[c].provider \in Providers
        BY DEF StreamTypeInv, StreamLoopInv, StreamPlaces
      <3>2. Categories \subseteq Outcomes /\ "success" \in Outcomes
            /\ "stream_interrupted" \in Outcomes
        BY DEF Outcomes, Categories
      <3>3. CASE NextEnds(c)
        BY <3>1, <3>2, <3>3, RecordingSteps DEF Recorded, MoveTo
      <3>4. CASE NextDies(c)
        BY <3>1, <3>2, <3>4, RecordingSteps DEF Recorded, MoveTo
      <3>5. CASE CloseServed(c)
        BY <3>1, <3>2, <3>5, RecordingSteps DEF Recorded, MoveTo
      <3>6. CASE RestartFails(c)
        BY <3>2, <3>6, RecordingSteps, NextProviderType DEF Recorded, MoveTo
      <3>7. QED
        BY <1>10, <3>3, <3>4, <3>5, <3>6
    <2>2. QED
      BY <1>4, <2>1 DEF StreamContract!Next
  <1>11. CASE \/ StreamCallFault(c) \/ ApplyStreamFailure(c) \/ ApplyStreamSuccess(c)
              \/ RestartCallFault(c) \/ ApplyRestartFailure(c) \/ RestartExhausts(c)
              \/ Abandon(c)
    <2>1. attempts' = attempts
      BY <1>11, StreamMoves
    <2>2. CASE pc[c] = "streaming" /\ result'[c] = "abandoned"
      <3>1. result[c] = "none"
        BY <2>2 DEF VerdictInv, VerdictOK
      <3>2. StreamVerdict(c)' = "handed_over"
        BY <2>2 DEF StreamVerdict
      <3>3. ~StreamContract!Ended(c)
        BY <2>2 DEF VerdictInv, VerdictOK, LastAttemptOf, StreamContract!Ended,
                    StreamContract!Final, StreamContract!StopCategories, StopCategories
      <3>4. QED
        BY <1>3, <2>1, <3>1, <3>2, <3>3 DEF StreamContract!Next, StreamContract!HandOver
    <2>3. QED
      BY <1>2, <1>5, <1>6, <1>11, <2>1, <2>2, StreamMoves DEF StreamPlaces
  <1>12. QED
    BY <1>7, <1>8, <1>9, <1>10, <1>11 DEF Drain, CloseStream

\* The router and its streams implement the caller's contract: iterating a
\* stream, its restarts included, is still the same call.
THEOREM StreamImplementsContract == StreamSpec => ImplementsStreamContract
  <1>1. StreamInit => StreamContract!Init
    BY DEF StreamInit, Init, StreamContract!Init, StreamVerdict
  <1>2. StreamTypeInv /\ VerdictInv /\ VerdictInv' /\ [StreamNext]_allVars
            => [StreamContract!Next]_(StreamContract!contractVars)
    <2> SUFFICES ASSUME StreamTypeInv, VerdictInv, VerdictInv', [StreamNext]_allVars
                 PROVE  [StreamContract!Next]_(StreamContract!contractVars)
      OBVIOUS
    <2>1. ASSUME NEW c \in Calls,
                 \/ Attend(c) /\ UNCHANGED streamVars
                 \/ HandOver(c) \/ Drain(c) \/ CloseStream(c)
          PROVE  [StreamContract!Next]_(StreamContract!contractVars)
      BY <2>1, StreamContractStep
    <2>2. CASE Environment \/ UNCHANGED vars
      <3>1. UNCHANGED callVars
        BY <2>2 DEF Environment, CloseRouter, ResetHealth, Tick, vars
      <3>2. QED
        BY <3>1 DEF callVars, StreamContract!contractVars, StreamVerdict
    <2>3. QED
      BY <2>1, <2>2 DEF StreamNext, Quiet, allVars
  <1>3. QED
    BY <1>1, <1>2, StreamTypeInvariance, VerdictInvariance, PTL
       DEF StreamSpec, ImplementsStreamContract, StreamContract!Spec

-----------------------------------------------------------------------------
(* The accounts of a call, when the restart callback does not raise: its    *)
(* ledger numbers its listed attempts without a gap, and at most one of its *)
(* attempts, the last one, holds a connection.                              *)

\* The stream that served the call: chunks of the provider it credits, and
\* that provider's completion marker if it was readable.
Delivered(c) ==
    /\ stream[c].chunks > 0
    /\ stream[c].completed \/ ~stream[c].recognized
    /\ stream[c].attempt = opened[c]
    /\ opened[c] = Len(attempts[c])
    /\ attempts[c] # <<>>
    /\ LastAttemptOf(c) = [provider |-> stream[c].provider, outcome |-> "success"]

Numbered(c) ==
    /\ Len(ledger[c]) = Len(attempts[c])
    /\ \A i \in 1..Len(ledger[c]) : ledger[c][i].attempt = i

Accounted(c) ==
    /\ pc[c] \in StreamPlaces => opened[c] > 0
    /\ pc[c] \notin StreamPlaces \cup {"done"} => opened[c] = 0
    /\ opened[c] = 0 =>
           live[c] = {} /\ stream[c].attempt = 0 /\ result[c] # "abandoned"
    /\ pc[c] = "streaming" =>
           /\ opened[c] = Len(attempts[c]) + 1
           /\ stream[c].attempt = opened[c]
           /\ live[c] = {opened[c]}
           /\ stream[c].completed => stream[c].chunks > 0
    /\ pc[c] \in {"stream_failed", "restarting", "restart_failed"} =>
           opened[c] = Len(attempts[c]) /\ live[c] = {}
    /\ pc[c] = "stream_served" => Delivered(c) /\ live[c] \subseteq {opened[c]}
    /\ pc[c] = "done" => live[c] = {}
    /\ pc[c] = "done" /\ opened[c] > 0 =>
           /\ result[c] = "abandoned" =>
                  /\ opened[c] = Len(attempts[c]) + 1
                  /\ stream[c].attempt = opened[c]
           /\ result[c] # "abandoned" => opened[c] = Len(attempts[c])
           /\ result[c] = "served" => Delivered(c)

AccountInv == \A c \in Calls : Numbered(c) /\ Accounted(c)

LEMMA AccountFrame ==
    ASSUME NEW d \in Calls, Numbered(d), Accounted(d), SameCall(d)
    PROVE  Numbered(d)' /\ Accounted(d)'
  BY DEF Numbered, Accounted, Delivered, SameCall, LastAttemptOf

\* An event is logged whatever becomes of it, under the attempt's number.
LEMMA NumberedStep ==
    ASSUME TypeOK, NEW c \in Calls, NEW p \in Providers, NEW o \in Outcomes,
           Numbered(c), NoteAttempt(c, p, o),
           RecordMetrics(c, Len(attempts[c]) + 1, p, o)
    PROVE  Numbered(c)' /\ Len(attempts'[c]) = Len(attempts[c]) + 1
  <1> DEFINE n == Len(attempts[c])
  <1>1. PICK fate \in Fates : LogEvent(c, n + 1, p, o, fate)
    BY DEF RecordMetrics, DropLate, WriteRow, WriteFails, Fates
  <1> DEFINE e == [attempt |-> n + 1, provider |-> p, outcome |-> o, fate |-> fate]
  <1>2. ledger[c] \in Seq(Event) /\ ledger'[c] = Append(ledger[c], e)
    BY <1>1 DEF LogEvent, TypeOK
  <1>3. n \in Nat /\ Len(ledger[c]) = n
    BY DEF TypeOK, Numbered
  <1>4. e \in Event
    BY <1>3 DEF Event
  <1>5. /\ Len(ledger'[c]) = n + 1 /\ ledger'[c][n + 1] = e
        /\ \A i \in 1..n : ledger'[c][i] = ledger[c][i]
    BY <1>2, <1>3, <1>4, AppendProperties
  <1>6. Len(attempts'[c]) = n + 1
    BY NoteFacts
  <1>7. \A i \in 1..(n + 1) : ledger'[c][i].attempt = i
    <2> SUFFICES ASSUME NEW i \in 1..(n + 1) PROVE ledger'[c][i].attempt = i
      OBVIOUS
    <2>1. CASE i = n + 1
      BY <1>5, <2>1
    <2>2. CASE i # n + 1
      <3>1. i \in 1..n
        BY <1>3, <2>2
      <3>2. QED
        BY <1>3, <1>5, <3>1 DEF Numbered
    <2>3. QED
      BY <2>1, <2>2
  <1>8. QED
    BY <1>5, <1>6, <1>7 DEF Numbered

LEMMA InvokeAccount ==
    ASSUME TypeInv, NEW c \in Calls, VerdictOK(c), Numbered(c), Accounted(c),
           Attend(c), UNCHANGED streamVars
    PROVE  Numbered(c)' /\ Accounted(c)'
  <1>1. UNCHANGED <<stream, opened, live>>
    BY DEF streamVars
  <1>2. CASE ProviderFails(c) \/ ProviderServes(c)
    <2>1. PICK o \in Outcomes :
            /\ pc[c] = "inflight"
            /\ NoteAttempt(c, Current(c), o)
            /\ RecordMetrics(c, Len(attempts[c]) + 1, Current(c), o)
            /\ pc'[c] = IF o = "success" THEN "served" ELSE "failed"
            /\ UNCHANGED <<ordered, index, result>>
      BY <1>2, InvokeAnswers
    <2>2. Current(c) \in Providers
      BY <2>1, CurrentType
    <2>3. Numbered(c)'
      BY <2>1, <2>2, NumberedStep DEF TypeInv
    <2>4. Accounted(c)'
      BY <1>1, <2>1 DEF Accounted, StreamPlaces
    <2>5. QED
      BY <2>3, <2>4
  <1>3. CASE ~(ProviderFails(c) \/ ProviderServes(c))
    <2>1. attempts' = attempts /\ ledger' = ledger
      BY <1>3, InvokeMoves
    <2>2. Numbered(c)'
      BY <2>1 DEF Numbered
    <2>3. pc[c] \notin StreamPlaces \cup {"done"} /\ opened[c] = 0
      BY <1>3, InvokeMoves DEF Accounted, StreamPlaces
    <2>4. /\ pc'[c] \notin StreamPlaces
          /\ result'[c] # "abandoned"
      BY <1>3, InvokeMoves DEF Accounted, StreamPlaces
    <2>5. Accounted(c)'
      BY <1>1, <2>1, <2>3, <2>4 DEF Accounted, StreamPlaces
    <2>6. QED
      BY <2>2, <2>5
  <1>4. QED
    BY <1>2, <1>3

LEMMA OpenAccount ==
    ASSUME StreamTypeInv, NEW c \in Calls, VerdictOK(c), Numbered(c), Accounted(c),
           HandOver(c) \/ RestartOpens(c)
    PROVE  Numbered(c)' /\ Accounted(c)'
  <1>1. /\ attempts' = attempts /\ ledger' = ledger /\ result' = result
        /\ pc'[c] = "streaming"
    BY DEF HandOver, OpenStream, RestartOpens, MoveTo, StreamTypeInv, StreamTypeOK, TypeOK
  <1>2. Numbered(c)'
    BY <1>1 DEF Numbered
  <1> DEFINE n == Len(attempts[c])
  <1>3. n \in Nat
    BY DEF StreamTypeInv, StreamTypeOK, TypeOK
  <1>4. /\ opened'[c] = n + 1 /\ live'[c] = {n + 1}
        /\ stream'[c].attempt = n + 1 /\ stream'[c].completed = FALSE
    <2>1. CASE HandOver(c)
      BY <2>1 DEF HandOver, NewStream, NoStream, StreamTypeInv, StreamTypeOK
    <2>2. CASE RestartOpens(c)
      <3>1. opened[c] = n /\ live[c] = {}
        BY <2>2 DEF RestartOpens, TakeNext, Accounted
      <3>2. QED
        BY <2>2, <3>1
           DEF RestartOpens, TakeNext, NewStream, NoStream, StreamTypeInv, StreamTypeOK
    <2>3. QED
      BY <2>1, <2>2
  <1>5. Accounted(c)'
    BY <1>1, <1>3, <1>4 DEF Accounted, StreamPlaces
  <1>6. QED
    BY <1>2, <1>5

LEMMA ChunkAccount ==
    ASSUME StreamTypeInv, NEW c \in Calls, Numbered(c), Accounted(c), NextChunk(c)
    PROVE  Numbered(c)' /\ Accounted(c)'
  <1>1. /\ UNCHANGED <<pc, result, attempts, ledger, opened, live>>
        /\ pc[c] = "streaming"
    BY DEF NextChunk, vars, callVars
  <1>2. stream'[c].attempt = stream[c].attempt /\ stream'[c].chunks = stream[c].chunks + 1
    BY DEF NextChunk, StreamTypeInv, StreamTypeOK, StreamRecord
  <1>3. stream[c].chunks \in Nat
    BY DEF StreamTypeInv, StreamTypeOK, StreamRecord
  <1>4. Numbered(c)'
    BY <1>1 DEF Numbered
  <1>5. Accounted(c)'
    BY <1>1, <1>2, <1>3 DEF Accounted, StreamPlaces
  <1>6. QED
    BY <1>4, <1>5

LEMMA RecordAccount ==
    ASSUME StreamTypeInv, NEW c \in Calls, VerdictOK(c), Numbered(c), Accounted(c),
           NextEnds(c) \/ NextDies(c) \/ CloseServed(c) \/ RestartFails(c)
    PROVE  Numbered(c)' /\ Accounted(c)'
  <1> DEFINE n == Len(attempts[c])
  <1>0. TypeInv /\ TypeOK /\ n \in Nat
    BY StreamTypeInvGivesTypeInv DEF TypeInv, TypeOK
  <1>1. PICK p \in Providers, o \in Outcomes,
             place \in {"stream_failed", "stream_served", "restart_failed"} :
            /\ Recorded(c, p, n + 1, o, place)
            /\ opened'[c] = n + 1
            /\ place = "stream_served" =>
                /\ p = stream[c].provider /\ o = "success"
                /\ stream[c].attempt = n + 1
                /\ stream[c].chunks > 0
                /\ stream[c].completed \/ ~stream[c].recognized
                /\ live'[c] \subseteq {n + 1}
            /\ place # "stream_served" => live'[c] = {}
    <2>1. pc[c] = "streaming" =>
            /\ stream[c].provider \in Providers /\ stream[c].attempt = n + 1
            /\ opened[c] = n + 1 /\ live[c] = {n + 1}
            /\ stream[c].completed => stream[c].chunks > 0
            /\ stream[c].chunks \in Nat
      BY DEF StreamTypeInv, StreamTypeOK, StreamLoopInv, StreamPlaces, StreamRecord,
             Accounted
    <2>2. CloseUnderlying(c) /\ pc[c] = "streaming" => live'[c] = {}
      BY <2>1 DEF CloseUnderlying, StreamTypeInv, StreamTypeOK
    <2>3. Categories \subseteq Outcomes /\ "success" \in Outcomes
          /\ "stream_interrupted" \in Outcomes
      BY DEF Outcomes, Categories
    <2>4. CASE NextEnds(c)
      <3>1. CASE /\ Recorded(c, stream[c].provider, stream[c].attempt,
                             "stream_interrupted", "stream_failed")
                 /\ CloseUnderlying(c)
        BY <2>1, <2>2, <2>3, <2>4, <3>1, RecordingSteps
      <3>2. CASE /\ ~Truncated(stream[c])
                 /\ Recorded(c, stream[c].provider, stream[c].attempt,
                             "success", "stream_served")
                 /\ UNCHANGED live
        <4>1. stream[c].chunks > 0 /\ (stream[c].completed \/ ~stream[c].recognized)
          BY <2>1, <2>4, <3>2, RecordingSteps DEF Truncated
        <4>2. QED
          BY <2>1, <2>3, <2>4, <3>2, <4>1, RecordingSteps
      <3>3. QED
        BY <2>4, <3>1, <3>2, RecordingSteps
    <2>5. CASE NextDies(c)
      BY <2>1, <2>2, <2>3, <2>5, RecordingSteps
    <2>6. CASE CloseServed(c)
      BY <2>1, <2>2, <2>3, <2>6, RecordingSteps
    <2>7. CASE RestartFails(c)
      <3>1. TakeNext(c) /\ live' = live /\ \E o \in Categories :
                Recorded(c, Head(remaining[c]), opened[c] + 1, o, "restart_failed")
        BY <2>7, RecordingSteps
      <3>2. opened[c] = n /\ live[c] = {} /\ opened'[c] = opened[c] + 1
        BY <3>1 DEF TakeNext, Accounted, StreamTypeInv, StreamTypeOK
      <3>3. Head(remaining[c]) \in Providers
        BY <3>1, NextProviderType
      <3>4. QED
        BY <2>3, <3>1, <3>2, <3>3
    <2>8. QED
      BY <2>4, <2>5, <2>6, <2>7
  <1>2. Numbered(c)' /\ Len(attempts'[c]) = n + 1
    BY <1>0, <1>1, NumberedStep DEF Recorded
  <1>3. /\ attempts'[c] # <<>>
        /\ LastAttemptOf(c)' = [provider |-> p, outcome |-> o]
    BY <1>0, <1>1, NotedLast DEF Recorded
  <1>4. pc'[c] = place /\ stream' = stream
    BY <1>0, <1>1 DEF Recorded, MoveTo, TypeOK
  <1>5. Accounted(c)'
    <2>1. CASE place = "stream_served"
      <3>1. Delivered(c)'
        BY <1>0, <1>1, <1>2, <1>3, <1>4, <2>1 DEF Delivered
      <3>2. QED
        BY <1>0, <1>1, <1>4, <2>1, <3>1 DEF Accounted, StreamPlaces
    <2>2. CASE place # "stream_served"
      BY <1>0, <1>1, <1>2, <1>4, <2>2 DEF Accounted, StreamPlaces
    <2>3. QED
      BY <2>1, <2>2
  <1>6. QED
    BY <1>2, <1>5

LEMMA SettleAccount ==
    ASSUME StreamTypeInv, NEW c \in Calls, VerdictOK(c), Numbered(c), Accounted(c),
           \/ StreamCallFault(c) \/ ApplyStreamFailure(c) \/ ApplyStreamSuccess(c)
           \/ RestartCallFault(c) \/ ApplyRestartFailure(c) \/ RestartExhausts(c)
           \/ Abandon(c)
    PROVE  Numbered(c)' /\ Accounted(c)'
  <1>1. UNCHANGED <<attempts, ledger, stream, opened>>
    BY StreamMoves
  <1>2. Numbered(c)'
    BY <1>1 DEF Numbered
  <1>3. CloseUnderlying(c) /\ pc[c] \in {"streaming", "stream_served"} => live'[c] = {}
    BY DEF CloseUnderlying, StreamTypeInv, StreamTypeOK, Accounted, Delivered
  <1>4. Delivered(c) => Delivered(c)'
    BY <1>1 DEF Delivered, LastAttemptOf
  <1>5. opened[c] \in Nat /\ opened[c] > 0
    BY StreamMoves DEF Accounted, StreamPlaces, StreamTypeInv, StreamTypeOK
  <1>6. CASE pc[c] = "streaming" /\ pc'[c] = "done" /\ result'[c] = "abandoned"
             /\ CloseUnderlying(c)
    BY <1>1, <1>3, <1>5, <1>6, <1>2 DEF Accounted, StreamPlaces
  <1>7. CASE pc[c] = "stream_served" /\ pc'[c] = "done" /\ result'[c] = "served"
             /\ CloseUnderlying(c)
    <2>1. opened[c] = Len(attempts[c]) /\ Delivered(c)'
      BY <1>4, <1>7 DEF Accounted, Delivered
    <2>2. QED
      BY <1>1, <1>2, <1>3, <1>5, <1>7, <2>1 DEF Accounted, StreamPlaces
  <1>8. CASE /\ pc[c] \in {"stream_failed", "restart_failed", "restarting"}
             /\ pc'[c] \in {"restarting", "done"}
             /\ pc'[c] = "done" => result'[c] \in {"exhausted", "stream_error"}
             /\ UNCHANGED live
    BY <1>1, <1>2, <1>5, <1>8 DEF Accounted, StreamPlaces
  <1>9. QED
    BY <1>6, <1>7, <1>8, StreamMoves

LEMMA AccountInvInductive ==
    ASSUME CallbackMayRaise = FALSE
    PROVE  StreamTypeInv /\ VerdictInv /\ AccountInv /\ [StreamNext]_allVars
               => AccountInv'
  <1> SUFFICES ASSUME StreamTypeInv, VerdictInv, AccountInv, [StreamNext]_allVars
               PROVE  AccountInv'
    OBVIOUS
  <1>1. ASSUME NEW c \in Calls,
               \/ Attend(c) /\ UNCHANGED streamVars
               \/ HandOver(c) \/ Drain(c) \/ CloseStream(c)
        PROVE  AccountInv'
    <2>1. VerdictOK(c) /\ Numbered(c) /\ Accounted(c) /\ TypeInv
      BY StreamTypeInvGivesTypeInv DEF VerdictInv, AccountInv
    <2>2. Numbered(c)' /\ Accounted(c)'
      <3>1. CASE Attend(c) /\ UNCHANGED streamVars
        BY <2>1, <3>1, InvokeAccount
      <3>2. CASE HandOver(c)
        BY <2>1, <3>2, OpenAccount
      <3>3. CASE Drain(c)
        BY <2>1, <3>3, ChunkAccount, RecordAccount, SettleAccount, OpenAccount
           DEF Drain, CallbackRaises
      <3>4. CASE CloseStream(c)
        BY <2>1, <3>4, RecordAccount, SettleAccount DEF CloseStream
      <3>5. QED
        BY <1>1, <3>1, <3>2, <3>3, <3>4
    <2>3. ASSUME NEW d \in Calls, d # c PROVE Numbered(d)' /\ Accounted(d)'
      BY <1>1, <2>3, OtherCalls, AccountFrame DEF AccountInv
    <2>4. QED
      BY <2>2, <2>3 DEF AccountInv
  <1>2. CASE (Environment \/ UNCHANGED vars) /\ UNCHANGED streamVars
    BY <1>2, EnvironmentKeepsCalls, AccountFrame DEF AccountInv
  <1>3. QED
    BY <1>1, <1>2 DEF StreamNext, Quiet, allVars

LEMMA AccountInvariance ==
    ASSUME CallbackMayRaise = FALSE
    PROVE  StreamSpec => []AccountInv
  <1>1. StreamInit => AccountInv
    <2> SUFFICES ASSUME StreamInit, NEW c \in Calls PROVE Numbered(c) /\ Accounted(c)
      BY DEF AccountInv
    <2>1. Numbered(c)
      BY DEF StreamInit, Init, Numbered
    <2>2. Accounted(c)
      BY DEF StreamInit, Init, Accounted, StreamPlaces, NoStream
    <2>3. QED
      BY <2>1, <2>2
  <1>2. QED
    BY <1>1, StreamTypeInvariance, VerdictInvariance, AccountInvInductive, PTL
       DEF StreamSpec

\* No physical attempt leaves two events, through invoke(), iteration, restart
\* and close() together, when on_restart does not raise.
THEOREM OneEventPerAttempt ==
    ASSUME CallbackMayRaise = FALSE
    PROVE  StreamSpec => []AttemptRecordedOnce
  <1>1. AccountInv /\ StreamTypeInv => AttemptRecordedOnce
    <2> SUFFICES ASSUME AccountInv, StreamTypeInv, NEW c \in Calls,
                        NEW i \in DOMAIN ledger[c], NEW j \in DOMAIN ledger[c], i # j
                 PROVE  ledger[c][i].attempt # ledger[c][j].attempt
      BY DEF AttemptRecordedOnce
    <2>1. DOMAIN ledger[c] = 1..Len(ledger[c])
      BY DEF StreamTypeInv, StreamTypeOK, TypeOK
    <2>2. QED
      BY <2>1 DEF AccountInv, Numbered
  <1>2. QED
    BY <1>1, StreamTypeInvariance, AccountInvariance, PTL

\* When a call is over, its events are exactly its adapter calls, but for the
\* stream the consumer closed without an outcome.
THEOREM EveryAttemptAccounted ==
    ASSUME CallbackMayRaise = FALSE
    PROVE  StreamSpec => []AttemptsAccounted
  <1>1. AccountInv /\ StreamTypeInv => AttemptsAccounted
    <2> SUFFICES ASSUME AccountInv, StreamTypeInv, NEW c \in Calls, pc[c] = "done"
                 PROVE  {ledger[c][i].attempt : i \in DOMAIN ledger[c]} =
                            (1..AdapterCalls(c)) \
                                (IF result[c] = "abandoned"
                                 THEN {stream[c].attempt} ELSE {})
      BY DEF AttemptsAccounted
    <2> DEFINE n == Len(attempts[c])
    <2>1. DOMAIN ledger[c] = 1..n /\ n \in Nat /\ opened[c] \in Nat
      BY DEF StreamTypeInv, StreamTypeOK, TypeOK, AccountInv, Numbered
    <2>2. \A i \in 1..n : ledger[c][i].attempt = i
      BY <2>1 DEF AccountInv, Numbered
    <2>3. {ledger[c][i].attempt : i \in DOMAIN ledger[c]} = 1..n
      BY <2>1, <2>2
    <2>4. CASE result[c] = "abandoned"
      <3>1. AdapterCalls(c) = n + 1 /\ stream[c].attempt = n + 1
        BY <2>1, <2>4 DEF AccountInv, Accounted, AdapterCalls
      <3>2. (1..(n + 1)) \ {n + 1} = 1..n
        BY <2>1
      <3> HIDE DEF n
      <3>3. QED
        BY <2>3, <2>4, <3>1, <3>2
    <2>5. CASE result[c] # "abandoned"
      <3>1. AdapterCalls(c) = n
        BY <2>1, <2>5 DEF AccountInv, Accounted, AdapterCalls
      <3>2. QED
        BY <2>3, <2>5, <3>1
    <2>6. QED
      BY <2>4, <2>5
  <1>2. QED
    BY <1>1, StreamTypeInvariance, AccountInvariance, PTL

\* Only the stream being consumed holds a connection, and a call that is over
\* holds none.
THEOREM NoConnectionLeaks ==
    ASSUME CallbackMayRaise = FALSE
    PROVE  StreamSpec => []NoStreamLeaked
  <1>1. AccountInv /\ StreamTypeInv => NoStreamLeaked
    <2> SUFFICES ASSUME AccountInv, StreamTypeInv, NEW c \in Calls
                 PROVE  /\ live[c] \subseteq {stream[c].attempt}
                        /\ pc[c] = "done" => live[c] = {}
      BY DEF NoStreamLeaked
    <2>1. Accounted(c) /\ opened[c] \in Nat /\ pc[c] \in PCs
      BY DEF AccountInv, StreamTypeInv, StreamTypeOK, TypeOK
    <2>2. QED
      BY <2>1 DEF Accounted, Delivered, StreamPlaces, PCs
  <1>2. QED
    BY <1>1, StreamTypeInvariance, AccountInvariance, PTL

\* A call served by a stream saw chunks of the provider it credits, and that
\* provider's completion marker if it was readable.
THEOREM NoSilentTruncation ==
    ASSUME CallbackMayRaise = FALSE
    PROVE  StreamSpec => []ServedMeansFinished
  <1>1. AccountInv /\ VerdictInv => ServedMeansFinished
    <2> SUFFICES ASSUME AccountInv, VerdictInv, NEW c \in Calls,
                        result[c] = "served", opened[c] > 0
                 PROVE  /\ stream[c].chunks > 0
                        /\ stream[c].completed \/ ~stream[c].recognized
                        /\ stream[c].attempt = opened[c]
                        /\ attempts[c][opened[c]] =
                               [provider |-> stream[c].provider, outcome |-> "success"]
      BY DEF ServedMeansFinished
    <2>1. Delivered(c)
      BY DEF AccountInv, Accounted, VerdictInv, VerdictOK
    <2>2. QED
      BY <2>1 DEF Delivered, LastAttemptOf
  <1>2. QED
    BY <1>1, VerdictInvariance, AccountInvariance, PTL

-----------------------------------------------------------------------------
(* Restarts and the order.                                                  *)

\* Nobody that was tried or is being streamed is among what remains.
Ahead(c) ==
    \A k \in DOMAIN remaining[c] :
        /\ stream[c].provider # remaining[c][k]
        /\ \A i \in DOMAIN attempts[c] : attempts[c][i].provider # remaining[c][k]

ForwardOK(c) ==
    /\ pc[c] \in {"start", "select", "inflight", "failed", "served"} =>
           remaining[c] = <<>>
    /\ pc[c] \in {"start", "select"} => attempts[c] = <<>>
    /\ Distinct(ordered[c]) =>
           /\ pc[c] \in {"inflight", "failed", "served"} =>
                  \A i \in DOMAIN attempts[c] :
                      \E j \in 1..index[c] : attempts[c][i].provider = ordered[c][j]
           /\ Ahead(c)
           /\ Distinct(remaining[c])

ForwardInv == \A c \in Calls : ForwardOK(c)

LEMMA ForwardFrame ==
    ASSUME NEW d \in Calls, ForwardOK(d), SameCall(d)
    PROVE  ForwardOK(d)'
  BY DEF ForwardOK, SameCall, Distinct, Ahead

\* What is left of a distinct sequence after its head is distinct and without it.
LEMMA DistinctTail ==
    ASSUME NEW s \in Seq(Providers), s # <<>>, Distinct(s)
    PROVE  /\ Distinct(Tail(s))
           /\ \A k \in DOMAIN Tail(s) : Tail(s)[k] # Head(s)
           /\ \A k \in DOMAIN Tail(s) : k + 1 \in DOMAIN s /\ Tail(s)[k] = s[k + 1]
  <1>1. /\ Len(s) \in Nat /\ Len(s) >= 1 /\ DOMAIN s = 1..Len(s)
        /\ Tail(s) \in Seq(Providers) /\ Len(Tail(s)) = Len(s) - 1
        /\ DOMAIN Tail(s) = 1..(Len(s) - 1)
        /\ \A k \in 1..(Len(s) - 1) : Tail(s)[k] = s[k + 1]
        /\ Head(s) = s[1]
    BY HeadTailProperties, EmptySeq
  <1>2. \A k \in DOMAIN Tail(s) : k + 1 \in DOMAIN s /\ k + 1 # 1 /\ Tail(s)[k] = s[k + 1]
    BY <1>1
  <1>3. 1 \in DOMAIN s
    BY <1>1
  <1>4. \A k \in DOMAIN Tail(s) : Tail(s)[k] # Head(s)
    BY <1>1, <1>2, <1>3 DEF Distinct
  <1>5. \A k, m \in DOMAIN Tail(s) : k # m => k + 1 # m + 1
    BY <1>1
  <1>6. Distinct(Tail(s))
    BY <1>2, <1>5 DEF Distinct
  <1>7. QED
    BY <1>2, <1>4, <1>6

LEMMA InvokeForward ==
    ASSUME TypeInv, NEW c \in Calls, ForwardOK(c), Attend(c), UNCHANGED streamVars
    PROVE  ForwardOK(c)'
  <1>1. remaining' = remaining /\ stream' = stream
    BY DEF streamVars
  <1>2. CASE ProviderFails(c) \/ ProviderServes(c)
    <2>1. PICK o \in Outcomes :
            /\ pc[c] = "inflight"
            /\ NoteAttempt(c, Current(c), o)
            /\ pc'[c] = IF o = "success" THEN "served" ELSE "failed"
            /\ UNCHANGED <<ordered, index, result>>
      BY <1>2, InvokeAnswers
    <2>2. Current(c) \in Providers /\ index[c] \in 1..Len(ordered[c])
      BY <2>1, CurrentType DEF TypeInv, LoopInv
    <2> DEFINE n == Len(attempts[c])
    <2>3. /\ DOMAIN attempts'[c] = 1..(n + 1) /\ DOMAIN attempts[c] = 1..n
          /\ attempts'[c][n + 1] = [provider |-> Current(c), outcome |-> o]
          /\ \A i \in DOMAIN attempts[c] : attempts'[c][i] = attempts[c][i]
      BY <2>1, <2>2, NoteFacts DEF TypeInv
    <2>4. n \in Nat /\ index[c] \in 1..index[c]
      BY <2>2 DEF TypeInv, TypeOK
    <2>5. \A i \in DOMAIN attempts'[c] :
              \/ i \in DOMAIN attempts[c] /\ attempts'[c][i] = attempts[c][i]
              \/ attempts'[c][i].provider = ordered[c][index[c]]
      <3>1. attempts'[c][n + 1].provider = ordered[c][index[c]]
        BY <2>3 DEF Current
      <3>2. \A i \in 1..(n + 1) : i \in 1..n \/ i = n + 1
        BY <2>4
      <3> HIDE DEF n
      <3>3. QED
        BY <2>3, <3>1, <3>2
    <2>6. remaining'[c] = <<>>
      BY <1>1, <2>1 DEF ForwardOK
    <2>7. DOMAIN remaining'[c] = {}
      BY <2>6
    <2>8. Distinct(ordered[c]) =>
            \A i \in DOMAIN attempts'[c] :
                \E j \in 1..index[c] : attempts'[c][i].provider = ordered[c][j]
      BY <2>1, <2>4, <2>5 DEF ForwardOK
    <2>9. pc'[c] \in {"served", "failed"} /\ index' = index /\ ordered' = ordered
      BY <2>1
    <2>10. QED
      BY <2>6, <2>7, <2>8, <2>9 DEF ForwardOK, Ahead, Distinct
  <1>3. CASE ~(ProviderFails(c) \/ ProviderServes(c))
    <2>1. attempts' = attempts
      BY <1>3, InvokeMoves
    <2>2. pc[c] \in {"start", "select", "inflight", "failed", "served"}
      BY <1>3, InvokeMoves
    <2>3. remaining'[c] = <<>> /\ DOMAIN remaining'[c] = {}
      BY <1>1, <2>2 DEF ForwardOK
    <2>4. /\ pc'[c] \in {"start", "select"} => attempts'[c] = <<>>
          /\ pc'[c] \in {"inflight", "failed", "served"} =>
                \/ pc[c] = "select" /\ attempts[c] = <<>>
                \/ pc[c] = "failed"
      BY <1>3, <2>1, InvokeMoves DEF ForwardOK
    <2>5. pc'[c] \in {"inflight", "failed", "served"} /\ Distinct(ordered'[c]) =>
            \A i \in DOMAIN attempts'[c] :
                \E j \in 1..index'[c] : attempts'[c][i].provider = ordered'[c][j]
      <3>1. CASE pc[c] = "failed" /\ pc'[c] = "inflight"
        <4>1. ApplyFailure(c)
          BY <1>3, <3>1
             DEF Attend, EnterInvoke, RefuseClosed, RejectVariants, SelectProviders,
                 NoneEligible, PolicyRaises, FactoryRaises, StopOnCallFault,
                 ApplySuccess, Finish, TypeInv, TypeOK
        <4>2. ordered' = ordered /\ (index'[c] = index[c] \/ index'[c] = index[c] + 1)
          BY <4>1 DEF ApplyFailure, RetryProvider, FallBack, Exhaust, TypeInv, TypeOK
        <4>3. \A j \in 1..index[c] : j \in 1..index'[c]
          BY <4>2 DEF TypeInv, TypeOK
        <4>4. QED
          BY <2>1, <3>1, <4>2, <4>3 DEF ForwardOK
      <3>2. CASE pc[c] = "select" /\ attempts[c] = <<>>
        BY <2>1, <3>2
      <3>3. QED
        BY <1>3, <2>4, <3>1, <3>2, InvokeMoves
    <2>6. QED
      BY <2>3, <2>4, <2>5 DEF ForwardOK, Ahead, Distinct
  <1>4. QED
    BY <1>2, <1>3

\* The rest of a distinct order, behind the position of every attempt.
LEMMA HandOverForward ==
    ASSUME StreamTypeInv, NEW c \in Calls, ForwardOK(c), HandOver(c)
    PROVE  ForwardOK(c)'
  <1>1. /\ pc[c] = "inflight" /\ pc'[c] = "streaming"
        /\ attempts' = attempts /\ ordered' = ordered
        /\ remaining'[c] = Rest(c) /\ stream'[c].provider = Current(c)
    BY DEF HandOver, OpenStream, NewStream, NoStream, StreamTypeInv, StreamTypeOK, TypeOK
  <1>2. /\ ordered[c] \in Seq(Providers) /\ index[c] \in 1..Len(ordered[c])
        /\ DOMAIN ordered[c] = 1..Len(ordered[c])
    BY <1>1 DEF StreamTypeInv, StreamTypeOK, TypeOK, LoopInv
  <1> DEFINE x == index[c]
             n == Len(ordered[c])
  <1>3. /\ DOMAIN Rest(c) = 1..(n - x)
        /\ \A k \in 1..(n - x) : Rest(c)[k] = ordered[c][x + k]
    <2>1. \A i \in (x + 1)..n : ordered[c][i] \in Providers
      BY <1>2, ElementOfSeq
    <2>2. /\ Len(Rest(c)) = IF x + 1 <= n THEN n - (x + 1) + 1 ELSE 0
          /\ \A k \in 1..(n - (x + 1) + 1) : Rest(c)[k] = ordered[c][(x + 1) + k - 1]
      <3>1. x + 1 \in Int /\ n \in Int /\ Rest(c) = SubSeq(ordered[c], x + 1, n)
        BY <1>2 DEF Rest
      <3> HIDE DEF x, n
      <3>2. QED
        BY <2>1, <3>1, SubSeqProperties
    <2>3. \A k \in 1..(n - (x + 1) + 1) : Rest(c)[k] = ordered[c][(x + 1) + k - 1]
      BY <2>2
    <2>4. Rest(c) \in Seq(Providers)
      BY <1>1, StreamTypeInvGivesTypeInv, RestType
    <2>5. Len(Rest(c)) = n - x /\ DOMAIN Rest(c) = 1..(n - x)
      BY <1>2, <2>2, <2>4
    <2>6. \A k \in 1..(n - x) : k \in 1..(n - (x + 1) + 1) /\ (x + 1) + k - 1 = x + k
      BY <1>2
    <2>7. QED
      BY <2>3, <2>5, <2>6
  <1>4. \A k \in 1..(n - x) : x + k \in DOMAIN ordered[c]
    BY <1>2
  <1>5. ASSUME Distinct(ordered[c])
        PROVE  Ahead(c)' /\ Distinct(remaining'[c])
    <2>1. \A j \in 1..x, k \in 1..(n - x) : ordered[c][j] # Rest(c)[k]
      <3>1. \A j \in 1..x, k \in 1..(n - x) : j \in DOMAIN ordered[c] /\ j # x + k
        BY <1>2
      <3>2. QED
        BY <1>3, <1>4, <1>5, <3>1 DEF Distinct
    <2>2. x \in 1..x
      BY <1>2
    <2>3. \A i \in DOMAIN attempts[c] : \E j \in 1..x : attempts[c][i].provider = ordered[c][j]
      BY <1>1, <1>5 DEF ForwardOK
    <2>4. Current(c) = ordered[c][x]
      BY DEF Current
    <2>5. \A k, m \in 1..(n - x) : k # m => x + k # x + m
      BY <1>2
    <2>6. Distinct(Rest(c))
      BY <1>3, <1>4, <1>5, <2>5 DEF Distinct
    <2> HIDE DEF x, n
    <2>7. Ahead(c)'
      BY <1>1, <1>3, <2>1, <2>2, <2>3, <2>4 DEF Ahead
    <2>8. QED
      BY <1>1, <2>6, <2>7
  <1>6. QED
    BY <1>1, <1>5 DEF ForwardOK

\* The stream's steps: an attempt of a provider that is not ahead, the head of
\* what remains taken off, or neither.
LEMMA StreamForward ==
    ASSUME StreamTypeInv, NEW c \in Calls, ForwardOK(c), Drain(c) \/ CloseStream(c)
    PROVE  ForwardOK(c)'
  <1>0. TypeInv /\ TypeOK /\ remaining[c] \in Seq(Providers)
    BY StreamTypeInvGivesTypeInv DEF TypeInv, StreamTypeInv, StreamTypeOK
  <1>1. ASSUME pc'[c] \in StreamPlaces \cup {"done"}, ordered'[c] = ordered[c],
               Distinct(ordered[c]) => Ahead(c)' /\ Distinct(remaining'[c])
        PROVE  ForwardOK(c)'
    BY <1>1 DEF ForwardOK, StreamPlaces
  <1>2. CASE NextChunk(c)
    <2>1. /\ pc'[c] = "streaming" /\ UNCHANGED <<ordered, attempts, remaining>>
          /\ stream'[c].provider = stream[c].provider
      BY <1>2 DEF NextChunk, vars, callVars, StreamTypeInv, StreamTypeOK, StreamRecord
    <2>2. QED
      BY <1>1, <2>1 DEF ForwardOK, Ahead, StreamPlaces
  <1>3. CASE \/ StreamCallFault(c) \/ ApplyStreamFailure(c) \/ ApplyStreamSuccess(c)
             \/ RestartCallFault(c) \/ ApplyRestartFailure(c) \/ RestartExhausts(c)
             \/ Abandon(c)
    <2>1. /\ UNCHANGED <<attempts, stream, remaining>>
          /\ pc'[c] \in {"restarting", "done"}
      BY <1>3, StreamMoves
    <2>2. ordered' = ordered
      BY <1>3 DEF StreamCallFault, ApplyStreamFailure, ApplyStreamSuccess, RestartCallFault,
                  ApplyRestartFailure, RestartExhausts, Abandon, loopVars
    <2>3. QED
      BY <1>1, <2>1, <2>2 DEF ForwardOK, Ahead, StreamPlaces
  <1>4. ASSUME NEW p \in Providers, NEW o \in Outcomes, NoteAttempt(c, p, o)
        PROVE  \A i \in DOMAIN attempts'[c] :
                  \/ i \in DOMAIN attempts[c] /\ attempts'[c][i] = attempts[c][i]
                  \/ attempts'[c][i].provider = p
    <2> DEFINE n == Len(attempts[c])
    <2>1. /\ DOMAIN attempts'[c] = 1..(n + 1) /\ DOMAIN attempts[c] = 1..n
          /\ attempts'[c][n + 1] = [provider |-> p, outcome |-> o]
          /\ \A i \in DOMAIN attempts[c] : attempts'[c][i] = attempts[c][i]
      BY <1>0, <1>4, NoteFacts
    <2>2. n \in Nat
      BY <1>0 DEF TypeOK
    <2>3. \A i \in 1..(n + 1) : i \in 1..n \/ i = n + 1
      BY <2>2
    <2>4. attempts'[c][n + 1].provider = p
      BY <2>1
    <2> HIDE DEF n
    <2>5. QED
      BY <2>1, <2>3, <2>4
  <1>5. Categories \subseteq Outcomes /\ "success" \in Outcomes
        /\ "stream_interrupted" \in Outcomes
    BY DEF Outcomes, Categories
  <1>6. CASE NextEnds(c) \/ NextDies(c) \/ CloseServed(c)
    <2>1. \E o \in Outcomes : \E n, place :
            /\ Recorded(c, stream[c].provider, n, o, place)
            /\ place \in StreamPlaces
      <3>1. CASE NextEnds(c)
        BY <1>5, <3>1, RecordingSteps DEF StreamPlaces
      <3>2. CASE NextDies(c)
        BY <1>5, <3>2, RecordingSteps DEF StreamPlaces
      <3>3. CASE CloseServed(c)
        BY <1>5, <3>3, RecordingSteps DEF StreamPlaces
      <3>4. QED
        BY <1>6, <3>1, <3>2, <3>3
    <2>2. pc[c] = "streaming" /\ remaining' = remaining
      BY <1>6, RecordingSteps
    <2>3. stream[c].provider \in Providers
      BY <2>2 DEF StreamTypeInv, StreamLoopInv, StreamPlaces
    <2>4. /\ pc'[c] \in StreamPlaces /\ ordered' = ordered /\ stream' = stream
          /\ \E o \in Outcomes : NoteAttempt(c, stream[c].provider, o)
      BY <1>0, <2>1 DEF Recorded, MoveTo, loopVars, TypeOK
    <2>5. \A i \in DOMAIN attempts'[c] :
              \/ i \in DOMAIN attempts[c] /\ attempts'[c][i] = attempts[c][i]
              \/ attempts'[c][i].provider = stream[c].provider
      BY <1>4, <2>3, <2>4
    <2>6. Ahead(c) => Ahead(c)'
      BY <2>2, <2>4, <2>5 DEF Ahead
    <2>7. QED
      BY <1>1, <2>2, <2>4, <2>6 DEF ForwardOK
  <1>7. ASSUME TakeNext(c), Distinct(ordered[c])
        PROVE  /\ Distinct(remaining'[c])
               /\ \A k \in DOMAIN remaining'[c] :
                    /\ remaining'[c][k] # Head(remaining[c])
                    /\ remaining'[c][k] # stream[c].provider
                    /\ \A i \in DOMAIN attempts[c] :
                          attempts[c][i].provider # remaining'[c][k]
    <2>1. remaining[c] # <<>> /\ remaining'[c] = Tail(remaining[c])
      BY <1>7 DEF TakeNext, StreamTypeInv, StreamTypeOK
    <2>2. Distinct(remaining[c]) /\ Ahead(c)
      BY <1>7 DEF ForwardOK
    <2>3. /\ Distinct(Tail(remaining[c]))
          /\ \A k \in DOMAIN Tail(remaining[c]) :
                Tail(remaining[c])[k] # Head(remaining[c])
          /\ \A k \in DOMAIN Tail(remaining[c]) :
                /\ k + 1 \in DOMAIN remaining[c]
                /\ Tail(remaining[c])[k] = remaining[c][k + 1]
      BY <1>0, <2>1, <2>2, DistinctTail
    <2>4. QED
      BY <2>1, <2>2, <2>3 DEF Ahead
  <1>8. CASE RestartFails(c)
    <2>1. TakeNext(c) /\ \E o \in Categories :
            Recorded(c, Head(remaining[c]), opened[c] + 1, o, "restart_failed")
      BY <1>8, RecordingSteps
    <2>2. Head(remaining[c]) \in Providers
      BY <2>1, NextProviderType
    <2>3. /\ pc'[c] = "restart_failed" /\ ordered' = ordered /\ stream' = stream
          /\ \E o \in Outcomes : NoteAttempt(c, Head(remaining[c]), o)
      BY <1>0, <1>5, <2>1 DEF Recorded, MoveTo, loopVars, TypeOK
    <2>4. \A i \in DOMAIN attempts'[c] :
              \/ i \in DOMAIN attempts[c] /\ attempts'[c][i] = attempts[c][i]
              \/ attempts'[c][i].provider = Head(remaining[c])
      BY <1>4, <2>2, <2>3
    <2>5. Distinct(ordered[c]) => Ahead(c)' /\ Distinct(remaining'[c])
      BY <1>7, <2>1, <2>3, <2>4 DEF Ahead
    <2>6. QED
      BY <1>1, <2>3, <2>5 DEF StreamPlaces
  <1>9. CASE RestartOpens(c) \/ CallbackRaises(c)
    <2>1. TakeNext(c) /\ pc'[c] = "streaming" /\ UNCHANGED <<ordered, attempts>>
      BY <1>0, <1>9 DEF RestartOpens, CallbackRaises, MoveTo, loopVars, TypeOK
    <2>4. \/ stream'[c].provider = Head(remaining[c])
          \/ stream'[c].provider = stream[c].provider
      <3>1. CASE RestartOpens(c)
        <4>1. stream'[c] = NewStream(opened[c] + 1, Head(remaining[c]))
          BY <3>1 DEF RestartOpens, StreamTypeInv, StreamTypeOK
        <4>2. QED
          BY <4>1 DEF NewStream, NoStream
      <3>2. CASE CallbackRaises(c)
        BY <3>2 DEF CallbackRaises
      <3>3. QED
        BY <1>9, <3>1, <3>2
    <2>2. Distinct(ordered[c]) => Ahead(c)' /\ Distinct(remaining'[c])
      BY <1>7, <2>1, <2>4 DEF Ahead
    <2>3. QED
      BY <1>1, <2>1, <2>2 DEF StreamPlaces
  <1>10. QED
    BY <1>2, <1>3, <1>6, <1>8, <1>9 DEF Drain, CloseStream

\* A stream keeps the order the call was given.
LEMMA StreamKeepsOrder ==
    ASSUME StreamTypeInv, NEW c \in Calls, Drain(c) \/ CloseStream(c)
    PROVE  ordered' = ordered
  <1>1. CASE NextChunk(c)
    BY <1>1 DEF NextChunk, vars, callVars
  <1>2. CASE NextEnds(c) \/ NextDies(c) \/ CloseServed(c) \/ RestartFails(c)
    <2>1. PICK p, n, o, place : Recorded(c, p, n, o, place)
      BY <1>2, RecordingSteps
    <2>2. QED
      BY <2>1 DEF Recorded, loopVars
  <1>3. CASE \/ StreamCallFault(c) \/ ApplyStreamFailure(c) \/ ApplyStreamSuccess(c)
             \/ RestartCallFault(c) \/ ApplyRestartFailure(c) \/ RestartExhausts(c)
             \/ Abandon(c)
    BY <1>3 DEF StreamCallFault, ApplyStreamFailure, ApplyStreamSuccess, RestartCallFault,
                ApplyRestartFailure, RestartExhausts, Abandon, Finish, EndServed, MoveTo,
                loopVars
  <1>4. CASE RestartOpens(c) \/ CallbackRaises(c)
    BY <1>4 DEF RestartOpens, CallbackRaises, MoveTo, loopVars
  <1>5. QED
    BY <1>1, <1>2, <1>3, <1>4 DEF Drain, CloseStream

LEMMA StreamOrdersInvariance == StreamSpec => []OrdersInv
  <1>1. StreamInit => OrdersInv
    BY DEF StreamInit, Init, OrdersInv, Distinct
  <1>2. StreamTypeInv /\ OrdersInv /\ [StreamNext]_allVars => OrdersInv'
    <2> SUFFICES ASSUME StreamTypeInv, OrdersInv, [StreamNext]_allVars PROVE OrdersInv'
      OBVIOUS
    <2>1. ASSUME NEW c \in Calls, Attend(c) \/ HandOver(c) PROVE OrdersInv'
      BY <2>1, StreamTypeInvGivesTypeInv, AttendKeepsOrders DEF HandOver
    <2>2. ASSUME NEW c \in Calls, Drain(c) \/ CloseStream(c) PROVE OrdersInv'
      BY <2>2, StreamKeepsOrder DEF OrdersInv, Distinct
    <2>3. CASE (Environment \/ UNCHANGED vars) /\ UNCHANGED streamVars
      <3>1. ordered' = ordered
        BY <2>3 DEF Environment, CloseRouter, ResetHealth, Tick, vars, callVars
      <3>2. QED
        BY <3>1 DEF OrdersInv, Distinct
    <2>4. QED
      BY <2>1, <2>2, <2>3 DEF StreamNext, Quiet, allVars
  <1>3. QED
    BY <1>1, <1>2, StreamTypeInvariance, PTL DEF StreamSpec

\* A restart only moves forward: what remains has neither been tried nor is it
\* being streamed.
THEOREM RestartsOnlyForward == StreamSpec => []RestartsMoveForward
  <1>1. StreamInit => ForwardInv
    BY DEF StreamInit, Init, ForwardInv, ForwardOK, Ahead, Distinct
  <1>2. StreamTypeInv /\ ForwardInv /\ [StreamNext]_allVars => ForwardInv'
    <2> SUFFICES ASSUME StreamTypeInv, ForwardInv, [StreamNext]_allVars PROVE ForwardInv'
      OBVIOUS
    <2>1. ASSUME NEW c \in Calls,
                 \/ Attend(c) /\ UNCHANGED streamVars
                 \/ HandOver(c) \/ Drain(c) \/ CloseStream(c)
          PROVE  ForwardInv'
      <3>1. ForwardOK(c)'
        BY <2>1, StreamTypeInvGivesTypeInv, InvokeForward, HandOverForward,
           StreamForward DEF ForwardInv
      <3>2. ASSUME NEW d \in Calls, d # c PROVE ForwardOK(d)'
        BY <2>1, <3>2, OtherCalls, ForwardFrame DEF ForwardInv
      <3>3. QED
        BY <3>1, <3>2 DEF ForwardInv
    <2>2. CASE (Environment \/ UNCHANGED vars) /\ UNCHANGED streamVars
      BY <2>2, EnvironmentKeepsCalls, ForwardFrame DEF ForwardInv
    <2>3. QED
      BY <2>1, <2>2 DEF StreamNext, Quiet, allVars
  <1>3. ForwardInv /\ OrdersInv => RestartsMoveForward
    <2> SUFFICES ASSUME ForwardInv, OrdersInv, Policy # "custom",
                        NEW c \in Calls, NEW p \in ToSet(remaining[c])
                 PROVE  /\ stream[c].provider # p
                        /\ \A i \in DOMAIN attempts[c] : attempts[c][i].provider # p
      BY DEF RestartsMoveForward
    <2>1. \E k \in DOMAIN remaining[c] : p = remaining[c][k]
      BY DEF ToSet
    <2>2. QED
      BY <2>1 DEF ForwardInv, ForwardOK, OrdersInv, Ahead
  <1>4. QED
    BY <1>1, <1>2, <1>3, StreamTypeInvariance, StreamOrdersInvariance,
       PTL DEF StreamSpec
=============================================================================
