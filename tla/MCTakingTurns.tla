--------------------------- MODULE MCTakingTurns ---------------------------
(* The bounds of the model-checking run of TakingTurns: one GPU of size 3  *)
(* for two LLMs of size 2 and backends of size 1 and 2, so that an LLM     *)
(* fits beside the small backend only, and neither LLM beside the other.   *)
EXTENDS TakingTurns, TLC

CONSTANTS g1, a, b, x, y, r1, r2

MCRoom == g1 :> 3
MCPlan == a :> (g1 :> 2) @@ b :> (g1 :> 2)
MCOn == x :> g1 @@ y :> g1
MCReserved == x :> 1 @@ y :> 2
MCMayLock == {{}, {x}}

\* The LLMs are alike, so the first request may as well be for a.
MCMayWant == [c \in Actors |->
    IF c = r1 THEN {a} ELSE IF c \in Requests THEN LLMs ELSE Backends]
=============================================================================
