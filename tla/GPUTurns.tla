------------------------------ MODULE GPUTurns ------------------------------
(***************************************************************************)
(* What the GPU queue promises its users, whatever its data structures: a  *)
(* user asks for a set of GPUs, is granted all of them in one step or none *)
(* of them, and gives them all back.  Two users never have the same GPU,   *)
(* and an ordinary user is granted nothing that a user with priority (an   *)
(* LLM measurement) wants or has.  GenQueue implements it.                 *)
(***************************************************************************)
CONSTANTS GPUs, Users, Prior    \* Prior: the users with priority

VARIABLES wants, has    \* the GPUs a user waits for, and those it was granted

vars == <<wants, has>>

Nothing == [u \in Users |-> {}]

Init == wants = Nothing /\ has = Nothing

\* Some users that want GPUs, w, are granted them while the others have h.
Grant(w, h) == \E granted \in SUBSET {u \in Users : w[u] # {}} :
    /\ has' = [u \in Users |-> IF u \in granted THEN w[u] ELSE h[u]]
    /\ wants' = [u \in Users |-> IF u \in granted THEN {} ELSE w[u]]
    /\ \A u \in granted : \A v \in Users \ {u} : w[u] \cap has'[v] = {}
    /\ \A u \in granted \ Prior : \A p \in Prior : w[u] \cap wants'[p] = {}

Ask(u, S) ==
    /\ wants[u] = {} /\ has[u] = {}
    /\ Grant([wants EXCEPT ![u] = S], has)

Withdraw(u) == wants[u] # {} /\ Grant([wants EXCEPT ![u] = {}], has)

GiveBack(u) == has[u] # {} /\ Grant(wants, [has EXCEPT ![u] = {}])

Next ==
    \/ \E u \in Users :
          (\E S \in (SUBSET GPUs) \ {{}} : Ask(u, S)) \/ Withdraw(u) \/ GiveBack(u)
    \/ Grant(wants, has)

Spec == Init /\ [][Next]_vars
=============================================================================
