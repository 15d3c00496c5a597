---------------------------- MODULE ErrorCategory ----------------------------
(***************************************************************************)
(* errors.py: the classification of a failed provider call.  Every other   *)
(* module decides by these sets: which failure stops the whole call, which *)
(* one may be retried on the same provider, which one counts toward a      *)
(* bench.                                                                  *)
(***************************************************************************)
EXTENDS Integers

Categories ==
    {"timeout", "rate_limit", "auth", "server_error", "connection",
     "stream_interrupted", "bad_request", "invalid_operation", "unknown"}

\* The call itself is broken: no other provider is tried and no health changes.
StopCategories == {"bad_request", "invalid_operation"}

\* The router never retries these on the same provider, whatever the policy says.
NoRetryCategories == StopCategories \cup {"auth", "rate_limit"}

\* These add one to consecutive_failures.
CountedCategories ==
    {"timeout", "server_error", "connection", "stream_interrupted", "unknown"}

\* What the built-in SameProviderRetryPolicy is willing to retry.
RetryableCategories == {"timeout", "connection", "server_error"}

-----------------------------------------------------------------------------
(* An exception is [kind, code]: its class and, for the two classes that    *)
(* carry one, the HTTP status or the family of the Responses error code.    *)

HttpCategory(status) ==
    CASE status = 429          -> "rate_limit"
      [] status \in {401, 403} -> "auth"
      [] status = 408          -> "timeout"
      [] status >= 500         -> "server_error"
      [] status \in {400, 422} -> "bad_request"
      [] OTHER                 -> "unknown"

\* The code strings of each arm share one representative: the arms are disjoint.
ResponsesCategory(code) ==
    CASE code = "rate_limit_exceeded" -> "rate_limit"
      [] code = "server_error"        -> "server_error"
      [] code = "request_timeout"     -> "timeout"
      [] code = "invalid_prompt"      -> "bad_request"
      [] OTHER                        -> "unknown"

\* The isinstance chain of categorize_error, first match first.
CategorizeError(exc) ==
    CASE exc.kind = "operation"          -> "invalid_operation"
      [] exc.kind = "timeout"            -> "timeout"
      [] exc.kind = "connection"         -> "connection"
      [] exc.kind = "stream_interrupted" -> "stream_interrupted"
      [] exc.kind = "responses"          -> ResponsesCategory(exc.code)
      [] exc.kind = "http"               -> HttpCategory(exc.code)
      [] OTHER                           -> "unknown"
=============================================================================
