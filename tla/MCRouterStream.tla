---------------------------- MODULE MCRouterStream ---------------------------
(* Small instances of RouterStream for TLC.                                 *)
EXTENDS RouterStream

CONSTANTS p1, p2, p3

OneProvider == <<p1>>
TwoProviders == <<p1, p2>>
ThreeProviders == <<p1, p2, p3>>

Http(status) == [kind |-> "http", code |-> status]
Raise(kind) == [kind |-> kind, code |-> 0]

\* A provider that drops the connection, and a fault of the call.
DropOrFault == {Raise("connection"), Http(400)}
DropOnly == {Raise("connection")}
DropOrAuth == {Raise("connection"), Http(401)}

CallSymmetry == Permutations(Calls)
=============================================================================
