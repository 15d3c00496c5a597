----------------------------- MODULE RouterStream ----------------------------
(***************************************************************************)
(* router.py: RouterStream, composed with the calls of RouterInvoke on one *)
(* router.  A call whose adapter answers with a stream is handed over to a *)
(* RouterStream; what follows runs in the consumer's loop, interleaved     *)
(* with every other call.  A stream is consumed by one thread, so its      *)
(* steps are sequential, and again one action spans one critical section   *)
(* of the router's lock.  RouterStream._closed is pc = "done".             *)
(*                                                                         *)
(* Physical attempts are numbered per call in the order in which the       *)
(* adapters were called; opened is that number, and live holds the         *)
(* attempts whose provider stream has been opened and not been closed.     *)
(***************************************************************************)
EXTENDS RouterInvoke

CONSTANTS
    MaxChunks,          \* bound on the chunks of one provider stream
    FailurePolicies,    \* stream_failure_policy: "restart", "raise" or either
    CallbackMayRaise    \* on_restart is registered and may raise

ASSUME StreamAssumption ==
    /\ MaxChunks \in Nat
    /\ FailurePolicies \subseteq {"restart", "raise"}
    /\ CallbackMayRaise \in BOOLEAN

VARIABLES
    stream,         \* _stream and _provider with what was observed of them
    remaining,      \* _remaining: the providers not tried yet
    restarts,       \* restarts
    opened,         \* adapter calls made so far, including the current one
    live,           \* attempts that hold a provider connection
    failurePolicy   \* _stream_failure_policy, fixed when the router is built

streamVars == <<stream, remaining, restarts, opened, live, failurePolicy>>
allVars == <<vars, streamVars>>

NoStream == [attempt |-> 0, chunks |-> 0, completed |-> FALSE,
             recognized |-> FALSE, provider |-> None]

NewStream(n, p) == [NoStream EXCEPT !.attempt = n, !.provider = p]

StreamRecord ==
    [attempt : Nat, chunks : Nat, completed : BOOLEAN,
     recognized : BOOLEAN, provider : Providers \cup {None}]

StreamTypeOK ==
    /\ TypeOK
    /\ stream \in [Calls -> StreamRecord]
    /\ remaining \in [Calls -> Seq(Providers)]
    /\ restarts \in [Calls -> Nat]
    /\ opened \in [Calls -> Nat]
    /\ live \in [Calls -> SUBSET Nat]
    /\ failurePolicy \in {"restart", "raise"}

StreamInit ==
    /\ Init
    /\ stream = [c \in Calls |-> NoStream]
    /\ remaining = [c \in Calls |-> <<>>]
    /\ restarts = [c \in Calls |-> 0]
    /\ opened = [c \in Calls |-> 0]
    /\ live = [c \in Calls |-> {}]
    /\ failurePolicy \in FailurePolicies

\* What the stream's own steps leave alone of the invoke loop.
loopVars == <<ordered, index, attemptNumber>>

MoveTo(c, place) == pc' = [pc EXCEPT ![c] = place] /\ UNCHANGED result

-----------------------------------------------------------------------------
\* Mutated form: the provider that is being streamed stays in the rest.
RestWithCurrent(c) == SubSeq(ordered[c], index[c], Len(ordered[c]))

Rest(c) == SubSeq(ordered[c], index[c] + 1, Len(ordered[c]))

\* invoke() returns a RouterStream with the rest of the ranked order.
HandOver(c) ==
    /\ OpenStream(c)
    /\ stream' = [stream EXCEPT ![c] = NewStream(Len(attempts[c]) + 1, Current(c))]
    /\ remaining' = [remaining EXCEPT ![c] = Rest(c)]
    /\ opened' = [opened EXCEPT ![c] = Len(attempts[c]) + 1]
    /\ live' = [live EXCEPT ![c] = {Len(attempts[c]) + 1}]
    /\ UNCHANGED <<restarts, failurePolicy>>

-----------------------------------------------------------------------------
(* The consumer's loop.                                                     *)

\* The provider yields a chunk; the wrapper may recognise its shape and may
\* read a completion marker in a shape it recognises.
NextChunk(c) ==
    /\ pc[c] = "streaming"
    /\ stream[c].attempt \in live[c]
    /\ stream[c].chunks < MaxChunks
    /\ \E recognized, completed \in BOOLEAN :
        /\ completed => recognized
        /\ stream' = [stream EXCEPT ![c].chunks = @ + 1,
                                    ![c].recognized = @ \/ recognized,
                                    ![c].completed = @ \/ completed]
    /\ UNCHANGED <<vars, remaining, restarts, opened, live, failurePolicy>>

\* Mutated form: any end without an error is a success.
NeverTruncated(s) == FALSE

\* _judge_clean_end: an end without chunks, or without the marker a readable
\* stream would have carried, is a truncation.
Truncated(s) == s.chunks = 0 \/ (~s.completed /\ s.recognized)

\* Mutated form: the provider's connection is left to the garbage collector.
KeepOpen(c) == UNCHANGED live

CloseUnderlying(c) == live' = [live EXCEPT ![c] = @ \ {stream[c].attempt}]

\* _fail up to and including the metrics of the dead attempt.
FailStream(c, category) ==
    /\ CloseUnderlying(c)
    /\ NoteAttempt(c, stream[c].provider, category)
    /\ RecordMetrics(c, stream[c].attempt, stream[c].provider, category)
    /\ MoveTo(c, "stream_failed")

\* _record_success up to and including the metrics of the served attempt.
ServeStream(c) ==
    /\ NoteAttempt(c, stream[c].provider, "success")
    /\ RecordMetrics(c, stream[c].attempt, stream[c].provider, "success")
    /\ MoveTo(c, "stream_served")

\* The provider's iterator raises StopIteration.
NextEnds(c) ==
    /\ pc[c] = "streaming"
    /\ IF Truncated(stream[c])
       THEN FailStream(c, "stream_interrupted")
       ELSE ServeStream(c) /\ UNCHANGED live
    /\ UNCHANGED <<health, now, closed, rotation, resets, loopVars,
                   stream, remaining, restarts, opened, failurePolicy>>

\* The provider's iterator raises an error.
NextDies(c) ==
    /\ pc[c] = "streaming"
    /\ \E e \in Errors : FailStream(c, CategorizeError(e))
    /\ UNCHANGED <<health, now, closed, rotation, resets, loopVars,
                   stream, remaining, restarts, opened, failurePolicy>>

\* Mutated form: the stream is not marked as closed once it is recorded.
LeaveUsable(c) == MoveTo(c, "streaming")

EndServed(c) == Finish(c, "served")

\* The health section of a success, at the end of the stream.
ApplyStreamSuccess(c) ==
    /\ pc[c] = "stream_served"
    /\ health' = [health EXCEPT ![stream[c].provider] = RecordSuccess(@)]
    /\ CloseUnderlying(c)
    /\ EndServed(c)
    /\ UNCHANGED <<now, closed, connected, rotation, metricsWarned, metricsRecovered,
                   resets, ledger, attempts, loopVars,
                   stream, remaining, restarts, opened, failurePolicy>>

\* close(): a marker already seen is a served call, anything else leaves no
\* trace.
CloseServed(c) ==
    /\ pc[c] = "streaming"
    /\ stream[c].completed
    /\ CloseUnderlying(c)
    /\ ServeStream(c)
    /\ UNCHANGED <<health, now, closed, rotation, resets, loopVars,
                   stream, remaining, restarts, opened, failurePolicy>>

Abandon(c) ==
    /\ pc[c] = "streaming"
    /\ ~stream[c].completed
    /\ CloseUnderlying(c)
    /\ Finish(c, "abandoned")
    /\ UNCHANGED <<routerVars, ledger, attempts, loopVars,
                   stream, remaining, restarts, opened, failurePolicy>>

-----------------------------------------------------------------------------
(* _fail after its metrics, and the restart loop.                           *)

\* Mutated form: a fault of the call restarts on the next provider.
StreamFaultRestarts(c) ==
    /\ pc[c] = "stream_failed"
    /\ LastOutcome(c) \in StopCategories
    /\ MoveTo(c, "restarting")
    /\ UNCHANGED <<routerVars, ledger, attempts, loopVars, streamVars>>

\* A fault of the call: health stays, the provider's own error is raised.
StreamCallFault(c) ==
    /\ pc[c] = "stream_failed"
    /\ LastOutcome(c) \in StopCategories
    /\ Finish(c, "stream_error")
    /\ UNCHANGED <<routerVars, ledger, attempts, loopVars, streamVars>>

LastProvider(c) == attempts[c][Len(attempts[c])].provider

BlameLast(c) ==
    health' = [health EXCEPT ![LastProvider(c)] = FailHealth(@, LastOutcome(c))]

ApplyStreamFailure(c) ==
    /\ pc[c] = "stream_failed"
    /\ LastOutcome(c) \notin StopCategories
    /\ BlameLast(c)
    /\ \/ failurePolicy = "raise" /\ Finish(c, "stream_error")
       \/ failurePolicy = "restart" /\ MoveTo(c, "restarting")
    /\ UNCHANGED <<now, closed, connected, rotation, metricsWarned, metricsRecovered,
                   resets, ledger, attempts, loopVars, streamVars>>

\* The next occurrence of the order is consumed, whatever comes of it.
TakeNext(c) ==
    /\ pc[c] = "restarting"
    /\ remaining[c] # <<>>
    /\ remaining' = [remaining EXCEPT ![c] = Tail(@)]
    /\ opened' = [opened EXCEPT ![c] = @ + 1]

\* The adapter or the factory raises, or the adapter answers with a whole
\* response, which _reject_non_stream counts as a failure of kind unknown.
RestartFails(c) ==
    /\ TakeNext(c)
    /\ \E category \in {CategorizeError(e) : e \in Errors} \cup {"unknown"} :
        /\ NoteAttempt(c, Head(remaining[c]), category)
        /\ RecordMetrics(c, opened[c] + 1, Head(remaining[c]), category)
    /\ MoveTo(c, "restart_failed")
    /\ UNCHANGED <<health, now, closed, rotation, resets, loopVars,
                   stream, restarts, live, failurePolicy>>

RestartCallFault(c) ==
    /\ pc[c] = "restart_failed"
    /\ LastOutcome(c) \in StopCategories
    /\ Finish(c, "exhausted")
    /\ UNCHANGED <<routerVars, ledger, attempts, loopVars, streamVars>>

ApplyRestartFailure(c) ==
    /\ pc[c] = "restart_failed"
    /\ LastOutcome(c) \notin StopCategories
    /\ BlameLast(c)
    /\ MoveTo(c, "restarting")
    /\ UNCHANGED <<now, closed, connected, rotation, metricsWarned, metricsRecovered,
                   resets, ledger, attempts, loopVars, streamVars>>

\* Mutated form: with nothing left to try, the loop goes round once more.
RestartSpins(c) ==
    /\ pc[c] = "restarting"
    /\ remaining[c] = <<>>
    /\ UNCHANGED allVars

RestartExhausts(c) ==
    /\ pc[c] = "restarting"
    /\ remaining[c] = <<>>
    /\ Finish(c, "exhausted")
    /\ UNCHANGED <<routerVars, ledger, attempts, loopVars, streamVars>>

\* The restart is announced and the new stream replaces the dead one.
RestartOpens(c) ==
    /\ TakeNext(c)
    /\ restarts' = [restarts EXCEPT ![c] = @ + 1]
    /\ live' = [live EXCEPT ![c] = @ \cup {opened[c] + 1}]
    /\ stream' = [stream EXCEPT ![c] = NewStream(opened[c] + 1, Head(remaining[c]))]
    /\ MoveTo(c, "streaming")
    /\ UNCHANGED <<routerVars, ledger, attempts, loopVars, failurePolicy>>

\* on_restart raises: its exception reaches the consumer before the new stream
\* was stored, and the RouterStream stays usable on the dead one.
CallbackRaises(c) ==
    /\ CallbackMayRaise
    /\ stream[c].chunks > 0
    /\ TakeNext(c)
    /\ restarts' = [restarts EXCEPT ![c] = @ + 1]
    /\ live' = [live EXCEPT ![c] = @ \cup {opened[c] + 1}]
    /\ MoveTo(c, "streaming")
    /\ UNCHANGED <<routerVars, ledger, attempts, loopVars, stream, failurePolicy>>

-----------------------------------------------------------------------------
Drain(c) ==
    \/ NextChunk(c) \/ NextEnds(c) \/ NextDies(c)
    \/ StreamCallFault(c) \/ ApplyStreamFailure(c) \/ ApplyStreamSuccess(c)
    \/ RestartFails(c) \/ RestartCallFault(c) \/ ApplyRestartFailure(c)
    \/ RestartExhausts(c) \/ RestartOpens(c) \/ CallbackRaises(c)

CloseStream(c) == CloseServed(c) \/ Abandon(c)

StreamNext ==
    \/ \E c \in Calls : Attend(c) /\ UNCHANGED streamVars
    \/ \E c \in Calls : HandOver(c) \/ Drain(c) \/ CloseStream(c)
    \/ Environment /\ UNCHANGED streamVars
    \/ Quiet /\ UNCHANGED streamVars

StreamSpec == StreamInit /\ [][StreamNext]_allVars

\* The threads of invoke() run, provider streams end or fail, and the consumer
\* keeps iterating: it does not have to close a stream.
StreamFairness ==
    \A c \in Calls :
        WF_allVars((Attend(c) /\ UNCHANGED streamVars) \/ HandOver(c) \/ Drain(c))

FairStreamSpec == StreamSpec /\ StreamFairness

-----------------------------------------------------------------------------
(* Properties.                                                              *)

\* One physical attempt leaves at most one metrics event, through every path
\* of invoke(), iteration, restart and close().
AttemptRecordedOnce ==
    \A c \in Calls : \A i, j \in DOMAIN ledger[c] :
        i # j => ledger[c][i].attempt # ledger[c][j].attempt

AdapterCalls(c) == IF opened[c] > 0 THEN opened[c] ELSE Len(attempts[c])

\* When a call has ended, every adapter call it made is accounted for by an
\* event, except the stream the consumer closed without an outcome.
AttemptsAccounted ==
    \A c \in Calls : pc[c] = "done" =>
        {ledger[c][i].attempt : i \in DOMAIN ledger[c]} =
            (1..AdapterCalls(c)) \
                (IF result[c] = "abandoned" THEN {stream[c].attempt} ELSE {})

\* Only the stream being consumed holds a provider connection, and none does
\* once the call has ended.
NoStreamLeaked ==
    \A c \in Calls :
        /\ live[c] \subseteq {stream[c].attempt}
        /\ pc[c] = "done" => live[c] = {}

\* No silent truncation: a call served by a stream saw chunks of the provider
\* it credits, and that provider's completion marker if it was readable.
ServedMeansFinished ==
    \A c \in Calls : result[c] = "served" /\ opened[c] > 0 =>
        /\ stream[c].chunks > 0
        /\ stream[c].completed \/ ~stream[c].recognized
        /\ stream[c].attempt = opened[c]
        /\ attempts[c][opened[c]] = [provider |-> stream[c].provider, outcome |-> "success"]

\* A restart only moves forward in the ranked order: what remains has neither
\* been tried nor is it being streamed.
RestartsMoveForward ==
    Policy # "custom" =>
        \A c \in Calls : \A p \in ToSet(remaining[c]) :
            /\ stream[c].provider # p
            /\ \A i \in DOMAIN attempts[c] : attempts[c][i].provider # p

\* A stream that merely opened is no success: a provider's failures are
\* forgiven only at the end of a call it served, or by a reset.
OpeningForgivesNothing ==
    [][\A p \in Providers :
        health'[p].consecutiveFailures < health[p].consecutiveFailures =>
            \/ resets' # resets
            \/ \E c \in Calls :
                /\ pc'[c] = "done" /\ pc[c] # "done"
                /\ result'[c] = "served"
                /\ attempts[c][Len(attempts[c])] = [provider |-> p, outcome |-> "success"]
      ]_allVars

StreamVerdict(c) ==
    CASE result[c] \in {"closed", "rejected", "no_eligible"} -> "refused"
      [] result[c] = "served" -> "served"
      [] result[c] \in {"exhausted", "raised", "config_error", "stream_error"} -> "failed"
      [] result[c] = "abandoned" -> "handed_over"
      [] OTHER -> "open"

StreamContract == INSTANCE FallbackContract
    WITH tried <- attempts, verdict <- [c \in Calls |-> StreamVerdict(c)]

\* The caller's contract holds for the whole life of a stream: iterating it is
\* still the same call.
ImplementsStreamContract == StreamContract!Spec

\* A consumer that keeps iterating reaches the end of its stream.
EveryStreamEnds == \A c \in Calls : <>(pc[c] = "done")
=============================================================================
