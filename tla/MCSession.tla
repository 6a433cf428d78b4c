----------------------------- MODULE MCSession -----------------------------
(* A session that dials the access point again and again; one whose token   *)
(* two callers use, with and without forced calls and restarts of the       *)
(* process after any step.                                                  *)
EXTENDS Session
Sends(S) == sends = [t \in Types |-> IF t = "accesspoint" THEN S ELSE {1}]
MCInit ==
    /\ \/ does = {"lookups"} /\ Sends(0 .. MaxLen) /\ rotates = TRUE
       \/ does = {"tokens"} /\ Sends({1})
       \/ does = {"tokens", "forces", "restarts"} /\ Sends({1}) /\ rotates = TRUE
    /\ Init
MCSpec == MCInit /\ [][Next]_vars /\ Fairness

(* One behaviour each for what does not hold.                               *)
Doing(D)     == does = D /\ Sends({MaxLen}) /\ Init
OutageInit   == Doing({"lookups"})
OutageSpec   == OutageInit /\ [][Next]_vars
ForcedInit   == Doing({"tokens", "forces"})
ForcedSpec   == ForcedInit /\ [][Next]_vars
RestartInit  == Doing({"tokens", "restarts"})
RestartSpec  == RestartInit /\ [][Next]_vars
FailureInit  == Doing({})
FailureSpec  == FailureInit /\ [][Next]_vars
=============================================================================
