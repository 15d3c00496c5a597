---------------------------- MODULE MCRouterInvoke ---------------------------
(* Small instances of RouterInvoke for TLC.                                 *)
EXTENDS RouterInvoke

CONSTANTS p1, p2, p3

OneProvider == <<p1>>
TwoProviders == <<p1, p2>>
ThreeProviders == <<p1, p2, p3>>

Http(status) == [kind |-> "http", code |-> status]
Raise(kind) == [kind |-> kind, code |-> 0]

\* One exception per rule of the fallback loop: auth, rate limit, a counted
\* failure that may be retried, and a fault of the call.
RuleErrors == {Http(401), Http(429), Http(503), Http(400)}
ProviderErrors == {Http(401), Http(429), Http(503)}
RetryErrors == {Raise("timeout"), Http(404), Http(429), Raise("operation")}

CallSymmetry == Permutations(Calls)
=============================================================================
