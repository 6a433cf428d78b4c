------------------------- MODULE ReceiverContract -------------------------
(***************************************************************************)
(* What a push connection promises to the code that registered a receiver  *)
(* channel with it: Dealer.ReceiveMessage / ReceiveRequest hand out such   *)
(* channels.  A channel is registered, messages are handed over only while *)
(* it is open, and it is closed at most once and only after the connection *)
(* object was closed.  In Go a hand-over on a closed channel and a second  *)
(* close both panic, so the absence of such steps is the absence of        *)
(* crashes.                                                                *)
(***************************************************************************)
CONSTANT Receivers          \* the receiver channels that may be registered

VARIABLES chan,             \* chan[r]: the life cycle of r's channel
          cons,             \* cons[r]: what the goroutine reading r does
          everClosed        \* has Close been called on the connection object

vars == <<chan, cons, everClosed>>

Init == /\ chan = [r \in Receivers |-> "none"]
        /\ cons = [r \in Receivers |-> "idle"]
        /\ everClosed = FALSE

Register(r) == /\ chan[r] = "none"
               /\ chan' = [chan EXCEPT ![r] = "open"]
               /\ UNCHANGED <<cons, everClosed>>

HandOver(r) == /\ chan[r] = "open"
               /\ cons[r] = "idle"
               /\ cons' = [cons EXCEPT ![r] = "busy"]
               /\ UNCHANGED <<chan, everClosed>>

Finish(r) == /\ cons[r] = "busy"
             /\ cons' = [cons EXCEPT ![r] = "idle"]
             /\ UNCHANGED <<chan, everClosed>>

Leave(r) == /\ cons' = [cons EXCEPT ![r] = "gone"]
            /\ UNCHANGED <<chan, everClosed>>

Close == /\ everClosed' = TRUE
         /\ UNCHANGED <<chan, cons>>

CloseChannels(S) == /\ everClosed
                    /\ \A r \in S : chan[r] = "open"
                    /\ chan' = [r \in Receivers |-> IF r \in S THEN "closed" ELSE chan[r]]
                    /\ UNCHANGED <<cons, everClosed>>

Next == \/ \E r \in Receivers : Register(r) \/ HandOver(r) \/ Finish(r) \/ Leave(r)
        \/ Close
        \/ \E S \in SUBSET Receivers : CloseChannels(S)

Spec == Init /\ [][Next]_vars
============================================================================
