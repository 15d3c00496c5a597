---------------------------- MODULE MCComponents -----------------------------
(***************************************************************************)
(* The parts beside the router for TLC: the metrics file, the PostgreSQL   *)
(* store, the ranking of providers and an adapter share no state with each *)
(* other, so one part, chosen at the start, runs while the others stay as  *)
(* they began.                                                             *)
(***************************************************************************)
EXTENDS LocalStorage, PostgresStore, Ranking, Adapter, TLC

CONSTANTS
    Parts,              \* the parts to consider
    p1, p2, p3, batch1, batch2

VARIABLE part

componentVars == <<part, localVars, pgVars, rankingVars, adapterVars>>

\* The fixed initial state of a part that does not run.
LocalRests ==
    /\ LocalInit
    /\ backend = (CHOOSE b \in Backends : TRUE) /\ target = Absent
PgRests == PgInit /\ usage = "serial" /\ remote = "none"
RankingRests == RankingInit /\ policy = (CHOOSE p \in RankingPolicies : TRUE)

ComponentsInit ==
    /\ part \in Parts
    /\ IF part = "local" THEN LocalInit ELSE LocalRests
    /\ IF part = "postgres" THEN PgInit ELSE PgRests
    /\ IF part = "ranking" THEN RankingInit ELSE RankingRests
    /\ AdapterInit

ComponentsNext ==
    \/ part = "local" /\ LocalNext /\ UNCHANGED <<part, pgVars, rankingVars, adapterVars>>
    \/ part = "postgres" /\ PgNext /\ UNCHANGED <<part, localVars, rankingVars, adapterVars>>
    \/ part = "ranking" /\ RankingNext /\ UNCHANGED <<part, localVars, pgVars, adapterVars>>
    \/ part = "adapter" /\ AdapterNext /\ UNCHANGED <<part, localVars, pgVars, rankingVars>>

ComponentsSpec == ComponentsInit /\ [][ComponentsNext]_componentVars

\* A batch of two statements and one of a single statement.
ChunksValue == (batch1 :> 2) @@ (batch2 :> 1)

ConfiguredValue == <<p1, p2, p3>>

Policy(sticky, ranked, decay, scope, weights) ==
    [sticky |-> sticky, ranked |-> ranked, decay |-> decay, scope |-> scope,
     weights |-> weights]

\* Round robin, a sticky provider before it, and scores over it: flat and
\* decaying, of one scope and of all, and with one of the two weights at 0.
PoliciesValue ==
    {Policy(<<>>, FALSE, FALSE, "current", <<1, 1>>),
     Policy(<<p3>>, FALSE, FALSE, "current", <<1, 1>>),
     Policy(<<>>, TRUE, FALSE, "current", <<1, 1>>),
     Policy(<<>>, TRUE, TRUE, "all", <<0, 1>>),
     Policy(<<p3>>, TRUE, TRUE, "current", <<1, 1>>)}

HappeningsValue ==
    ({"same"} \X {"fast", "slow", "empty", "rate_limit", "timeout"})
        \cup {<<"other_scope", "fast">>, <<"other", "fast">>}

\* The stores are also the threads of the PostgreSQL store and of the adapter.
ComponentsSymmetry == Permutations(Stores) \cup Permutations(Rows)
=============================================================================
