--------------------------- MODULE NormalizedStream --------------------------
(***************************************************************************)
(* What the router relies on when an adapter answers with a stream         *)
(* (adapters/base.py): a stream is open until it ends, dies or is closed;  *)
(* its two flags only rise, while it is open; and a marker is never seen   *)
(* in a shape that was not recognised.  RouterStream consumes exactly      *)
(* this, module Adapter provides it.                                       *)
(***************************************************************************)
EXTENDS Naturals

CONSTANT Threads

VARIABLES
    phase,          \* per consumer: "none", "open", "ended" or "dead"
    completed,      \* the completed property
    recognized      \* the recognized property

streamVars == <<phase, completed, recognized>>

Init ==
    /\ phase = [t \in Threads |-> "none"]
    /\ completed = [t \in Threads |-> FALSE]
    /\ recognized = [t \in Threads |-> FALSE]

Open(t) ==
    /\ phase[t] = "none"
    /\ phase' = [phase EXCEPT ![t] = "open"]
    /\ completed' = [completed EXCEPT ![t] = FALSE]
    /\ recognized' = [recognized EXCEPT ![t] = FALSE]

\* __next__ returns (the stream stays open) or raises (it dies or ends).
Advance(t, next) ==
    /\ phase[t] = "open"
    /\ phase' = [phase EXCEPT ![t] = next]
    /\ \E r, c \in BOOLEAN :
        /\ c => r \/ recognized[t]
        /\ next = "ended" => ~r /\ ~c
        /\ recognized' = [recognized EXCEPT ![t] = @ \/ r]
        /\ completed' = [completed EXCEPT ![t] = @ \/ c]

Close(t) ==
    /\ phase[t] # "none"
    /\ phase' = [phase EXCEPT ![t] = "none"]
    /\ UNCHANGED <<completed, recognized>>

Next ==
    \E t \in Threads :
        \/ Open(t) \/ Close(t)
        \/ \E next \in {"open", "ended", "dead"} : Advance(t, next)

Spec == Init /\ [][Next]_streamVars
=============================================================================
