---------------------------- MODULE MCCommands ----------------------------
(* Either one caller that calls any command, while the playback moves, or   *)
(* two that set the repeat mode at the same time by the connect-state route.*)
EXTENDS Commands
MCInit ==
    /\ \/ mayCall = [c \in Callers |-> IF c = "a" THEN Asks ELSE {}]
       \/ /\ mayCall = [c \in Callers |-> {[kind |-> "repeat", device |-> NoDevice]}]
          /\ useWebApi = FALSE /\ connected = TRUE /\ active = "d"
    /\ Init
    /\ playing = "d" /\ active # "e" /\ repeat = FlagsOf("off")
MCSpec == MCInit /\ [][Next]_vars /\ Fairness
=============================================================================
