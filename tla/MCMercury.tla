----------------------------- MODULE MCMercury -----------------------------
(* Three calls that get in each other's way, over a topic "t" and a         *)
(* wildcard "w" that covers it.                                             *)
EXTENDS Mercury
MCCovers == [u \in {"t", "w"} |-> IF u = "w" THEN {"t"} ELSE {}]
MCInit   == /\ Init
            /\ op[1] = "sub" /\ op[3] = "unsub"
            /\ \/ op[2] = "sub" /\ uri = <<"t", "t", "t">>
               \/ op[2] = "sub" /\ uri = <<"t", "w", "w">>
               \/ op[2] = "do" /\ uri = <<"w", "t", "w">>
MCSpec == MCInit /\ [][Next]_vars /\ Fairness
=============================================================================
