----------------------------- MODULE MetricsLog ------------------------------
(***************************************************************************)
(* What a metrics store promises to the callers that record attempts in    *)
(* it, whatever the backend: the rows of one call land together or not at  *)
(* all, a call that returns has landed, and what has landed stays.  A call *)
(* that raises may have landed, because an answer can be lost after a      *)
(* commit; the router does not record such an attempt again.               *)
(***************************************************************************)
CONSTANTS
    Batches,        \* the calls of record_attempt and record_attempts
    RowsOf(_)       \* the rows of each

VARIABLES
    log,            \* the rows in the database
    reply           \* what each call has been told

LogInit ==
    /\ log = {}
    /\ reply = [b \in Batches |-> "none"]

Tell(b, what) == reply' = [reply EXCEPT ![b] = what]

Ask(b) ==
    /\ reply[b] = "none"
    /\ Tell(b, "open")
    /\ UNCHANGED log

Store(b) ==
    /\ reply[b] \in {"none", "open"}
    /\ log' = log \cup RowsOf(b)
    /\ Tell(b, "stored")

Fail(b) ==
    /\ reply[b] = "open"
    /\ log' \in {log, log \cup RowsOf(b)}
    /\ Tell(b, "failed")

LogNext == \E b \in Batches : Ask(b) \/ Store(b) \/ Fail(b)

LogSpec == LogInit /\ [][LogNext]_<<log, reply>>
=============================================================================
