--------------------------- MODULE MCController ---------------------------
(* The messages of the dealer and the volume calls are each explored up to *)
(* their bound, and together one of each.                                  *)
EXTENDS Controller
MCInit == /\ Init
          /\ setsLeft = 0 \/ offersLeft = 0 \/ (setsLeft = 1 /\ offersLeft = 1)
MCSpec == MCInit /\ [][Next]_vars /\ Fairness
=============================================================================
