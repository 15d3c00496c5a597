------------------------------- MODULE Adapter -------------------------------
(***************************************************************************)
(* adapters/: the default adapter of one provider, which the router caches *)
(* and lets every thread call without a lock.  An invoke() resolves the    *)
(* API key anew, reuses or rebuilds the SDK client, dispatches, and may    *)
(* hand out a wrapped stream.                                              *)
(*                                                                         *)
(* Each access to the two shared fields _client and _client_api_key is an  *)
(* action of its own.  The test of _client_for reads both, but _client is  *)
(* never None again once it is set, so reading them at one instant allows  *)
(* the same outcomes.  A client is known by the key it was built with.     *)
(***************************************************************************)
EXTENDS Integers, FiniteSets

CONSTANTS
    Callers,            \* threads that call this adapter
    Protocol,           \* "chat" or "responses": which wrapper it uses
    RotateAnytime,      \* whether a key may change while a call picks a client
    MaxKey,             \* bound on the keys the provider ever issues
    MaxCalls,           \* bound on the calls of one thread
    MaxStreamEvents     \* bound on the events of one stream

ASSUME AdapterAssumption ==
    /\ IsFiniteSet(Callers)
    /\ Protocol \in {"chat", "responses"}
    /\ RotateAnytime \in BOOLEAN
    /\ MaxKey \in Nat \ {0} /\ MaxCalls \in Nat /\ MaxStreamEvents \in Nat

VARIABLES
    issued,         \* the newest key
    key,            \* what resolve_api_key would return now; NoKey if it raises
    client,         \* the key of the cached client, NoKey without one
    clientKey,      \* _client_api_key
    builds,         \* clients built so far, by their key
    place,          \* where each thread is
    resolved,       \* the api_key local of its call
    sent,           \* the key of the client its call went out with
    calls,          \* calls it has begun
    events,         \* events its stream has yielded
    completed, recognized   \* the flags of its stream wrapper

keyVars == <<issued, key>>
cacheVars == <<client, clientKey, builds>>
requestVars == <<resolved, sent, calls>>
wrapVars == <<events, completed, recognized>>
adapterVars == <<keyVars, cacheVars, place, requestVars, wrapVars>>

NoKey == 0
Keys == 1..MaxKey
Picking == {"check", "build", "mark", "fetch"}
AdapterPlaces == Picking \cup {"idle", "dispatch", "streaming", "ended", "dead"}

AdapterTypeOK ==
    /\ issued \in Keys
    /\ key \in {NoKey, issued}
    /\ client \in Keys \cup {NoKey} /\ clientKey \in Keys \cup {NoKey}
    /\ builds \in [Keys -> Nat]
    /\ place \in [Callers -> AdapterPlaces]
    /\ resolved \in [Callers -> Keys \cup {NoKey}]
    /\ sent \in [Callers -> Keys \cup {NoKey}]
    /\ calls \in [Callers -> Nat] /\ events \in [Callers -> Nat]
    /\ completed \in [Callers -> BOOLEAN] /\ recognized \in [Callers -> BOOLEAN]
    /\ \A t \in Callers : place[t] \in Picking => resolved[t] \in Keys

AdapterInit ==
    /\ issued = 1
    /\ key = 1
    /\ client = NoKey
    /\ clientKey = NoKey
    /\ builds = [k \in Keys |-> 0]
    /\ place = [t \in Callers |-> "idle"]
    /\ resolved = [t \in Callers |-> NoKey]
    /\ sent = [t \in Callers |-> NoKey]
    /\ calls = [t \in Callers |-> 0]
    /\ events = [t \in Callers |-> 0]
    /\ completed = [t \in Callers |-> FALSE]
    /\ recognized = [t \in Callers |-> FALSE]

MoveTo(t, p) == place' = [place EXCEPT ![t] = p]

-----------------------------------------------------------------------------
(* The environment variable that holds the key.                             *)

KeyMayChange == RotateAnytime \/ \A t \in Callers : place[t] \notin Picking

CorrectKey ==
    /\ KeyMayChange
    /\ issued < MaxKey
    /\ issued' = issued + 1
    /\ key' = issued + 1
    /\ UNCHANGED <<cacheVars, place, requestVars, wrapVars>>

RemoveKey ==
    /\ KeyMayChange
    /\ key # NoKey
    /\ key' = NoKey
    /\ UNCHANGED <<issued, cacheVars, place, requestVars, wrapVars>>

-----------------------------------------------------------------------------
(* _client_for.                                                             *)

\* Mutated form: whatever the environment holds is taken for a key.
ResolveUnchecked(t) ==
    /\ place[t] = "idle"
    /\ calls[t] < MaxCalls
    /\ calls' = [calls EXCEPT ![t] = @ + 1]
    /\ resolved' = [resolved EXCEPT ![t] = key]
    /\ MoveTo(t, "check")
    /\ UNCHANGED <<keyVars, cacheVars, sent, wrapVars>>

Resolve(t) ==
    /\ place[t] = "idle"
    /\ calls[t] < MaxCalls
    /\ key # NoKey
    /\ calls' = [calls EXCEPT ![t] = @ + 1]
    /\ resolved' = [resolved EXCEPT ![t] = key]
    /\ MoveTo(t, "check")
    /\ UNCHANGED <<keyVars, cacheVars, sent, wrapVars>>

\* The SDK is not installed, or the key vanished after the eligibility filter
\* saw it: the call fails before it looks at the cached client.
FailsEarly(t) ==
    /\ place[t] = "idle"
    /\ calls[t] < MaxCalls
    /\ calls' = [calls EXCEPT ![t] = @ + 1]
    /\ UNCHANGED <<keyVars, cacheVars, place, resolved, sent, wrapVars>>

\* Mutated form: a client is kept whatever key it was built with.
CheckPresenceOnly(t) ==
    /\ place[t] = "check"
    /\ MoveTo(t, IF client = NoKey THEN "build" ELSE "fetch")
    /\ UNCHANGED <<keyVars, cacheVars, requestVars, wrapVars>>

Check(t) ==
    /\ place[t] = "check"
    /\ MoveTo(t, IF client = NoKey \/ resolved[t] # clientKey THEN "build" ELSE "fetch")
    /\ UNCHANGED <<keyVars, cacheVars, requestVars, wrapVars>>

Build(t) ==
    /\ place[t] = "build"
    /\ client' = resolved[t]
    /\ builds' = [builds EXCEPT ![resolved[t]] = @ + 1]
    /\ MoveTo(t, "mark")
    /\ UNCHANGED <<keyVars, clientKey, requestVars, wrapVars>>

\* Mutated form: the key of the new client is not remembered.
MarkForgotten(t) ==
    /\ place[t] = "mark"
    /\ MoveTo(t, "fetch")
    /\ UNCHANGED <<keyVars, cacheVars, requestVars, wrapVars>>

Mark(t) ==
    /\ place[t] = "mark"
    /\ clientKey' = resolved[t]
    /\ MoveTo(t, "fetch")
    /\ UNCHANGED <<keyVars, client, builds, requestVars, wrapVars>>

\* return self._client reads the field once more.
Fetch(t) ==
    /\ place[t] = "fetch"
    /\ sent' = [sent EXCEPT ![t] = client]
    /\ MoveTo(t, "dispatch")
    /\ UNCHANGED <<keyVars, cacheVars, resolved, calls, wrapVars>>

-----------------------------------------------------------------------------
(* Dispatch and the stream wrappers.                                        *)

\* A whole response is returned, or the dispatch raises.
Respond(t) ==
    /\ place[t] = "dispatch"
    /\ MoveTo(t, "idle")
    /\ UNCHANGED <<keyVars, cacheVars, requestVars, wrapVars>>

WrapStream(t) ==
    /\ place[t] = "dispatch"
    /\ MoveTo(t, "streaming")
    /\ events' = [events EXCEPT ![t] = 0]
    /\ completed' = [completed EXCEPT ![t] = FALSE]
    /\ recognized' = [recognized EXCEPT ![t] = FALSE]
    /\ UNCHANGED <<keyVars, cacheVars, requestVars>>

\* What a wrapper makes of the kinds of events its protocol has.  A chat chunk
\* may carry no choices, choices, or a finish reason; a Responses event may be
\* none of the API's own, progress, or one of its terminal events.
EventKinds ==
    IF Protocol = "chat" THEN {"foreign", "progress", "finish"}
                         ELSE {"foreign", "progress", "finish", "failed"}

\* Mutated form: the marker is read before the shape is recognised.
ObserveMarkerFirst(t, kind) ==
    /\ recognized' = [recognized EXCEPT ![t] = @ \/ kind \in {"progress", "failed"}]
    /\ completed' = [completed EXCEPT ![t] = @ \/ kind = "finish"]

Observe(t, kind) ==
    /\ recognized' = [recognized EXCEPT ![t] = @ \/ kind # "foreign"]
    /\ completed' = [completed EXCEPT ![t] = @ \/ kind = "finish"]

\* The SDK yields an event; a Responses failure event is raised instead of
\* being handed on.
StreamEvent(t) ==
    /\ place[t] = "streaming"
    /\ events[t] < MaxStreamEvents
    /\ \E kind \in EventKinds :
        /\ Observe(t, kind)
        /\ IF kind = "failed"
           THEN MoveTo(t, "dead") /\ UNCHANGED events
           ELSE events' = [events EXCEPT ![t] = @ + 1] /\ UNCHANGED place
    /\ UNCHANGED <<keyVars, cacheVars, requestVars>>

\* The SDK's iterator stops or raises.
StreamStops(t) ==
    /\ place[t] = "streaming"
    /\ \E p \in {"ended", "dead"} : MoveTo(t, p)
    /\ UNCHANGED <<keyVars, cacheVars, requestVars, wrapVars>>

CloseStream(t) ==
    /\ place[t] \in {"streaming", "ended", "dead"}
    /\ MoveTo(t, "idle")
    /\ UNCHANGED <<keyVars, cacheVars, requestVars, wrapVars>>

\* All threads have made their calls.
Rest ==
    /\ \A t \in Callers : place[t] = "idle" /\ calls[t] = MaxCalls
    /\ UNCHANGED adapterVars

Call(t) ==
    \/ Resolve(t) \/ FailsEarly(t) \/ Check(t) \/ Build(t) \/ Mark(t) \/ Fetch(t)
    \/ Respond(t) \/ WrapStream(t)
    \/ StreamEvent(t) \/ StreamStops(t) \/ CloseStream(t)

AdapterNext ==
    \/ \E t \in Callers : Call(t)
    \/ CorrectKey \/ RemoveKey
    \/ Rest

AdapterSpec == AdapterInit /\ [][AdapterNext]_adapterVars

-----------------------------------------------------------------------------
\* A corrected key takes effect: as long as no key changes while a call picks
\* its client, no call goes out with a key older than the one it resolved.
KeyTakesEffect ==
    ~RotateAnytime =>
        \A t \in Callers : place[t] = "dispatch" => sent[t] >= resolved[t]

\* The next call would use the key in force: while no call picks a client, the
\* cached one is filed under the current key only if it was built with it.
\* Two interleaved rebuilds refute this when a key may change between them:
\* the old client stays cached under the new key, and later calls reuse it.
NextCallUsesKey ==
    (\A t \in Callers : place[t] \notin Picking) =>
        (key # NoKey /\ clientKey = key => client = key)

\* How far clients are reused: per key, at most one client is built for each
\* thread, however many calls the threads make.  Only threads that meet in
\* _client_for while no client of that key is filed yet build more than one.
ClientsReused ==
    ~RotateAnytime => \A k \in Keys : builds[k] <= Cardinality(Callers)

\* One client per key: the cached client is rebuilt only when the key changes.
\* Two first calls that run at once, or two calls after a correction, refute this.
OneClientPerKey ==
    ~RotateAnytime => \A k \in Keys : builds[k] <= 1

Phase(t) ==
    CASE place[t] = "streaming" -> "open"
      [] place[t] \in {"ended", "dead"} -> place[t]
      [] OTHER -> "none"

Wrapper == INSTANCE NormalizedStream
               WITH Threads <- Callers, phase <- [t \in Callers |-> Phase(t)]

\* The wrappers provide the stream contract the router consumes.
ImplementsNormalizedStream == Wrapper!Spec
=============================================================================
