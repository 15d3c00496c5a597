--------------------------- MODULE FallbackContract --------------------------
(***************************************************************************)
(* What a caller of the router may rely on, without locks, health, metrics *)
(* or policies: one call tries providers one after the other, a success or *)
(* a fault of the call itself is its last try, and its verdict agrees with *)
(* what was tried.                                                         *)
(***************************************************************************)
EXTENDS ErrorCategory, Sequences

CONSTANTS Calls, Providers

VARIABLES
    tried,      \* per call, the finished tries: [provider, outcome]
    verdict     \* per call: "open", "refused", "served", "failed" or "handed_over"

contractVars == <<tried, verdict>>

Final(outcome) == outcome \in StopCategories \cup {"success"}

Ended(c) == tried[c] # <<>> /\ Final(tried[c][Len(tried[c])].outcome)
Succeeded(c) == tried[c] # <<>> /\ tried[c][Len(tried[c])].outcome = "success"

Init ==
    /\ tried = [c \in Calls |-> <<>>]
    /\ verdict = [c \in Calls |-> "open"]

Try(c) ==
    /\ verdict[c] = "open"
    /\ ~Ended(c)
    /\ \E p \in Providers, o \in Categories \cup {"success"} :
        tried' = [tried EXCEPT ![c] = Append(@, [provider |-> p, outcome |-> o])]
    /\ UNCHANGED verdict

Conclude(c, v) ==
    /\ verdict[c] = "open"
    /\ verdict' = [verdict EXCEPT ![c] = v]
    /\ UNCHANGED tried

Refuse(c) == tried[c] = <<>> /\ Conclude(c, "refused")
Serve(c) == Succeeded(c) /\ Conclude(c, "served")
Fail(c) == ~Succeeded(c) /\ Conclude(c, "failed")

\* The caller receives a stream that is still to be judged.
HandOver(c) == ~Ended(c) /\ Conclude(c, "handed_over")

Next == \E c \in Calls : Try(c) \/ Refuse(c) \/ Serve(c) \/ Fail(c) \/ HandOver(c)

Spec == Init /\ [][Next]_contractVars
=============================================================================
