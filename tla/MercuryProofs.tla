--------------------------- MODULE MercuryProofs ---------------------------
(***************************************************************************)
(* Proofs about Mercury for any calls, URIs, wildcards and bounds: that the *)
(* table of pending calls and the registry of subscriptions are exact, and  *)
(* that Unsubscribe alone can make recvLoop panic.                          *)
(***************************************************************************)
EXTENDS Mercury, TLAPS

(* What the panic of recvLoop needs: somebody who closes a channel.        *)
NobodyUnsubscribes == \A c \in Calls : op[c] # "unsub"

\* Each place of a call, with what it has of a subscription by then.
SubscriberInv ==
    /\ \A c \in Calls :
         /\ subCh[c] = "none" => buffered[c] = 0
         /\ pc[c] = "append" => op[c] = "sub"
         /\ pc[c] = "remove" => op[c] = "unsub"
         /\ subCh[c] # "none" => op[c] = "sub" /\ pc[c] = "ok"
    /\ \A c \in snap : subCh[c] # "none"
    /\ loop = "event" <=> snap # {} /\ loop # "panic"

OpenInv == NobodyUnsubscribes => Running /\ \A c \in Calls : subCh[c] # "closed"

IInv == TypeOK /\ PendingExact /\ RegisteredIffOpen /\ SubscriberInv /\ OpenInv

\* A subscription channel is closed by an Unsubscribe of its own URI only, not
\* of a wildcard over it or of a topic under it, and is then closed for good;
\* events reach it only while it is open (Unsubscribe, handlePacket).
Life(k) ==
    /\ subCh'[k] = "closed" =>
         \/ subCh[k] = "closed"
         \/ \E d \in Calls : op[d] = "unsub" /\ uri[d] = uri[k] /\ pc[d] = "remove"
    /\ subCh[k] = "closed" => subCh'[k] = "closed"
    /\ buffered'[k] > buffered[k] => subCh[k] = "open"

ClosedByItsUnsubscribe == [][\A c \in Calls : Life(c)]_vars

-----------------------------------------------------------------------------
(* Every packet that the server sends has the shape of a packet, and the    *)
(* rest of a queue of packets is one.                                       *)
LEMMA PacketsStay ==
    /\ \A q \in Seq(Packets) : q # <<>> => Head(q) \in Packets /\ Tail(q) \in Seq(Packets)
    /\ \A q \in Seq(Packets) : \A p \in Packets : Append(q, p) \in Seq(Packets)
OBVIOUS

(* Every step keeps the types.                                             *)
LEMMA TypeStep == TypeOK /\ [Next]_vars => TypeOK'
<1> SUFFICES ASSUME TypeOK, [Next]_vars PROVE TypeOK'
  OBVIOUS
<1> USE MercuryAssumption DEF TypeOK, CallStates, callVars, subVars, serverVars
<1>1. ASSUME NEW c \in Calls, Begin(c) PROVE TypeOK'
  BY <1>1 DEF Begin, Goto
<1>2. ASSUME NEW c \in Calls, SendOk(c) PROVE TypeOK'
  BY <1>2 DEF SendOk, Goto
<1>3. ASSUME NEW c \in Calls, SendError(c) PROVE TypeOK'
  BY <1>3 DEF SendError, Return, Goto
<1>4. ASSUME NEW c \in Calls, TakeReply(c) PROVE TypeOK'
  <2>1. pc' \in [Calls -> CallStates] /\ pending' \subseteq Calls
    BY <1>4 DEF TakeReply, Return, Goto, Statuses
  <2>2. resp' \in [Calls -> {"none"} \cup Statuses]
    BY <1>4 DEF TakeReply
  <2>3. QED
    BY <1>4, <2>1, <2>2 DEF TakeReply
<1>5. ASSUME NEW c \in Calls, ContextDone(c) PROVE TypeOK'
  BY <1>5 DEF ContextDone, Return, Goto
<1>6. ASSUME NEW c \in Calls, SeeStopped(c) PROVE TypeOK'
  BY <1>6 DEF SeeStopped, Return, Goto
<1>7. ASSUME NEW c \in Calls, AppendSub(c) PROVE TypeOK'
  BY <1>7 DEF AppendSub, Return, Goto
<1>8. ASSUME NEW c \in Calls, RemoveSubs(c) PROVE TypeOK'
  BY <1>8 DEF RemoveSubs, Return, Goto
<1>9. ASSUME NEW c \in Calls, TakeEvent(c) PROVE TypeOK'
  BY <1>9 DEF TakeEvent
<1>10. ASSUME NEW c \in Calls, Answer(c) PROVE TypeOK'
  <2>1. PICK s \in Statuses : wire' = Append(wire, [kind |-> "reply", call |-> c, status |-> s])
    BY <1>10 DEF Answer
  <2>2. wire' \in Seq(Packets)
    BY <2>1, PacketsStay DEF Packets
  <2>3. srvSubs' \subseteq Uris
    BY <1>10 DEF Answer
  <2>4. QED
    BY <1>10, <2>2, <2>3 DEF Answer
<1>11. ASSUME NEW t \in Topics, Push(t) PROVE TypeOK'
  <2>1. wire' \in Seq(Packets)
    BY <1>11, PacketsStay DEF Push, Packets
  <2>2. QED
    BY <1>11, <2>1 DEF Push
<1>12. CASE LoopEnds
  BY <1>12 DEF LoopEnds
<1>13. CASE HandleReply
  <2>1. Head(wire) \in Packets /\ Tail(wire) \in Seq(Packets)
    BY <1>13, PacketsStay DEF HandleReply
  <2>2. Head(wire).status \in Statuses
    BY <1>13, <2>1 DEF HandleReply, Packets
  <2>3. resp' \in [Calls -> {"none"} \cup Statuses]
    BY <1>13, <2>2 DEF HandleReply
  <2>4. QED
    BY <1>13, <2>1, <2>3 DEF HandleReply
<1>14. CASE HandleEvent
  <2>1. Head(wire) \in Packets /\ Tail(wire) \in Seq(Packets)
    BY <1>14, PacketsStay DEF HandleEvent
  <2>2. Head(wire).topic \in Uris
    BY <1>14, <2>1 DEF HandleEvent, Packets
  <2>3. snap' \subseteq Calls /\ loop' \in {"recv", "event"}
    BY <1>14, <2>2 DEF HandleEvent
  <2>4. QED
    BY <1>14, <2>1, <2>3 DEF HandleEvent
<1>15. ASSUME NEW c \in Calls, SendEvent(c) PROVE TypeOK'
  BY <1>15 DEF SendEvent
<1>16. CASE Close
  BY <1>16 DEF Close
<1>17. CASE ApCloses
  BY <1>17 DEF ApCloses
<1>18. CASE UNCHANGED vars
  BY <1>18 DEF vars
<1>19. QED
  BY <1>1, <1>2, <1>3, <1>4, <1>5, <1>6, <1>7, <1>8, <1>9, <1>10, <1>11, <1>12, <1>13, <1>14, <1>15, <1>16, <1>17, <1>18 DEF Next, CallStep, LoopStep

(* Type correctness: every variable keeps its shape in every step.         *)
THEOREM TypeCorrect == Spec => []TypeOK
<1>1. Init => TypeOK
  <2> SUFFICES ASSUME Init PROVE TypeOK
    OBVIOUS
  <2>1. buffered \in [Calls -> 0 .. ChanCap] /\ events \in 0 .. MaxEvents
    BY MercuryAssumption DEF Init
  <2>2. wire \in Seq(Packets) /\ subs \in [Uris -> SUBSET Calls]
    BY DEF Init
  <2>3. pc \in [Calls -> CallStates]
    BY DEF Init, CallStates
  <2>4. QED
    BY <2>1, <2>2, <2>3 DEF Init, TypeOK
<1>2. QED
  BY <1>1, TypeStep, PTL DEF Spec

-----------------------------------------------------------------------------
(* A call enters c.pending when it begins; every way out takes it off.     *)
LEMMA PendingStep == TypeOK /\ PendingExact /\ [Next]_vars => PendingExact'
<1> SUFFICES ASSUME TypeOK, PendingExact, [Next]_vars PROVE PendingExact'
  OBVIOUS
<1> USE DEF TypeOK, PendingExact, InFlight, callVars, subVars, serverVars
<1>1. ASSUME NEW c \in Calls, Begin(c) PROVE PendingExact'
  BY <1>1 DEF Begin, Goto
<1>2. ASSUME NEW c \in Calls, SendOk(c) PROVE PendingExact'
  BY <1>2 DEF SendOk, Goto
<1>3. ASSUME NEW c \in Calls, SendError(c) PROVE PendingExact'
  BY <1>3 DEF SendError, Return, Goto
<1>4. ASSUME NEW c \in Calls, TakeReply(c) PROVE PendingExact'
  BY <1>4 DEF TakeReply, Return, Goto, Statuses
<1>5. ASSUME NEW c \in Calls, ContextDone(c) PROVE PendingExact'
  BY <1>5 DEF ContextDone, Return, Goto
<1>6. ASSUME NEW c \in Calls, SeeStopped(c) PROVE PendingExact'
  BY <1>6 DEF SeeStopped, Return, Goto
<1>7. ASSUME NEW c \in Calls, AppendSub(c) PROVE PendingExact'
  BY <1>7 DEF AppendSub, Return, Goto
<1>8. ASSUME NEW c \in Calls, RemoveSubs(c) PROVE PendingExact'
  BY <1>8 DEF RemoveSubs, Return, Goto
<1>9. ASSUME NEW c \in Calls, TakeEvent(c) PROVE PendingExact'
  BY <1>9 DEF TakeEvent
<1>10. ASSUME NEW c \in Calls, Answer(c) PROVE PendingExact'
  BY <1>10 DEF Answer
<1>11. ASSUME NEW t \in Topics, Push(t) PROVE PendingExact'
  BY <1>11 DEF Push
<1>12. CASE LoopEnds
  BY <1>12 DEF LoopEnds
<1>13. CASE HandleReply
  BY <1>13 DEF HandleReply
<1>14. CASE HandleEvent
  BY <1>14 DEF HandleEvent
<1>15. ASSUME NEW c \in Calls, SendEvent(c) PROVE PendingExact'
  BY <1>15 DEF SendEvent
<1>16. CASE Close
  BY <1>16 DEF Close
<1>17. CASE ApCloses
  BY <1>17 DEF ApCloses
<1>18. CASE UNCHANGED vars
  BY <1>18 DEF vars
<1>19. QED
  BY <1>1, <1>2, <1>3, <1>4, <1>5, <1>6, <1>7, <1>8, <1>9, <1>10, <1>11, <1>12, <1>13, <1>14, <1>15, <1>16, <1>17, <1>18 DEF Next, CallStep, LoopStep

(* c.pending holds exactly the calls that have not returned.               *)
THEOREM PendingExactHolds == Spec => []PendingExact
<1>1. Init => PendingExact
  BY DEF Init, PendingExact, InFlight
<1>2. QED
  BY <1>1, PendingStep, TypeCorrect, PTL DEF Spec

-----------------------------------------------------------------------------
(* The registry and the channels change together, under subsLock.          *)
LEMMA RegisteredStep == TypeOK /\ RegisteredIffOpen /\ [Next]_vars => RegisteredIffOpen'
<1> SUFFICES ASSUME TypeOK, RegisteredIffOpen, [Next]_vars PROVE RegisteredIffOpen'
  OBVIOUS
<1> USE DEF TypeOK, RegisteredIffOpen, callVars, subVars, serverVars
<1>1. ASSUME NEW c \in Calls, Begin(c) PROVE RegisteredIffOpen'
  BY <1>1 DEF Begin, Goto
<1>2. ASSUME NEW c \in Calls, SendOk(c) PROVE RegisteredIffOpen'
  BY <1>2 DEF SendOk, Goto
<1>3. ASSUME NEW c \in Calls, SendError(c) PROVE RegisteredIffOpen'
  BY <1>3 DEF SendError, Return, Goto
<1>4. ASSUME NEW c \in Calls, TakeReply(c) PROVE RegisteredIffOpen'
  BY <1>4 DEF TakeReply, Return, Goto
<1>5. ASSUME NEW c \in Calls, ContextDone(c) PROVE RegisteredIffOpen'
  BY <1>5 DEF ContextDone, Return, Goto
<1>6. ASSUME NEW c \in Calls, SeeStopped(c) PROVE RegisteredIffOpen'
  BY <1>6 DEF SeeStopped, Return, Goto
<1>7. ASSUME NEW c \in Calls, AppendSub(c) PROVE RegisteredIffOpen'
  BY <1>7 DEF AppendSub, Return, Goto
<1>8. ASSUME NEW c \in Calls, RemoveSubs(c) PROVE RegisteredIffOpen'
  BY <1>8 DEF RemoveSubs, Return, Goto
<1>9. ASSUME NEW c \in Calls, TakeEvent(c) PROVE RegisteredIffOpen'
  BY <1>9 DEF TakeEvent
<1>10. ASSUME NEW c \in Calls, Answer(c) PROVE RegisteredIffOpen'
  BY <1>10 DEF Answer
<1>11. ASSUME NEW t \in Topics, Push(t) PROVE RegisteredIffOpen'
  BY <1>11 DEF Push
<1>12. CASE LoopEnds
  BY <1>12 DEF LoopEnds
<1>13. CASE HandleReply
  BY <1>13 DEF HandleReply
<1>14. CASE HandleEvent
  BY <1>14 DEF HandleEvent
<1>15. ASSUME NEW c \in Calls, SendEvent(c) PROVE RegisteredIffOpen'
  BY <1>15 DEF SendEvent
<1>16. CASE Close
  BY <1>16 DEF Close
<1>17. CASE ApCloses
  BY <1>17 DEF ApCloses
<1>18. CASE UNCHANGED vars
  BY <1>18 DEF vars
<1>19. QED
  BY <1>1, <1>2, <1>3, <1>4, <1>5, <1>6, <1>7, <1>8, <1>9, <1>10, <1>11, <1>12, <1>13, <1>14, <1>15, <1>16, <1>17, <1>18 DEF Next, CallStep, LoopStep

(* A subscription channel is in the registry, under its URI, exactly as     *)
(* long as it is open.                                                      *)
THEOREM RegisteredIffOpenHolds == Spec => []RegisteredIffOpen
<1>1. Init => RegisteredIffOpen
  BY DEF Init, RegisteredIffOpen
<1>2. QED
  BY <1>1, RegisteredStep, TypeCorrect, PTL DEF Spec

-----------------------------------------------------------------------------
(* A subscription belongs to a Subscribe that has returned, and the         *)
(* snapshot of handlePacket has no others.                                  *)
LEMMA SubscriberStep ==
    TypeOK /\ RegisteredIffOpen /\ SubscriberInv /\ [Next]_vars => SubscriberInv'
<1> SUFFICES ASSUME TypeOK, RegisteredIffOpen, SubscriberInv, [Next]_vars PROVE SubscriberInv'
  OBVIOUS
<1> USE MercuryAssumption DEF TypeOK, RegisteredIffOpen, SubscriberInv, callVars, subVars, serverVars
<1>1. ASSUME NEW c \in Calls, Begin(c) PROVE SubscriberInv'
  BY <1>1 DEF Begin, Goto
<1>2. ASSUME NEW c \in Calls, SendOk(c) PROVE SubscriberInv'
  BY <1>2 DEF SendOk, Goto
<1>3. ASSUME NEW c \in Calls, SendError(c) PROVE SubscriberInv'
  BY <1>3 DEF SendError, Return, Goto
<1>4. ASSUME NEW c \in Calls, TakeReply(c) PROVE SubscriberInv'
  <2>1. pc[c] = "waiting" /\ UNCHANGED <<op, subVars, loop, snap>>
    BY <1>4 DEF TakeReply
  <2>2. \E s \in CallStates : pc' = [pc EXCEPT ![c] = s] /\ (s = "append" => op[c] = "sub") /\ (s = "remove" => op[c] = "unsub")
    BY <1>4 DEF TakeReply, Return, Goto, Statuses, CallStates
  <2>3. QED
    BY <2>1, <2>2
<1>5. ASSUME NEW c \in Calls, ContextDone(c) PROVE SubscriberInv'
  BY <1>5 DEF ContextDone, Return, Goto
<1>6. ASSUME NEW c \in Calls, SeeStopped(c) PROVE SubscriberInv'
  BY <1>6 DEF SeeStopped, Return, Goto
<1>7. ASSUME NEW c \in Calls, AppendSub(c) PROVE SubscriberInv'
  BY <1>7 DEF AppendSub, Return, Goto
<1>8. ASSUME NEW c \in Calls, RemoveSubs(c) PROVE SubscriberInv'
  BY <1>8 DEF RemoveSubs, Return, Goto
<1>9. ASSUME NEW c \in Calls, TakeEvent(c) PROVE SubscriberInv'
  BY <1>9 DEF TakeEvent
<1>10. ASSUME NEW c \in Calls, Answer(c) PROVE SubscriberInv'
  BY <1>10 DEF Answer
<1>11. ASSUME NEW t \in Topics, Push(t) PROVE SubscriberInv'
  BY <1>11 DEF Push
<1>12. CASE LoopEnds
  BY <1>12 DEF LoopEnds
<1>13. CASE HandleReply
  BY <1>13 DEF HandleReply
<1>14. CASE HandleEvent
  <2>1. Head(wire).topic \in Uris
    BY <1>14, PacketsStay DEF HandleEvent, Packets
  <2>2. \A s \in snap' : subCh[s] = "open"
    BY <1>14, <2>1 DEF HandleEvent
  <2>3. loop' = IF snap' = {} THEN "recv" ELSE "event"
    BY <1>14 DEF HandleEvent
  <2>4. UNCHANGED <<callVars, subVars>>
    BY <1>14 DEF HandleEvent
  <2>5. QED
    BY <2>2, <2>3, <2>4
<1>15. ASSUME NEW c \in Calls, SendEvent(c) PROVE SubscriberInv'
  BY <1>15 DEF SendEvent
<1>16. CASE Close
  BY <1>16 DEF Close
<1>17. CASE ApCloses
  BY <1>17 DEF ApCloses
<1>18. CASE UNCHANGED vars
  BY <1>18 DEF vars
<1>19. QED
  BY <1>1, <1>2, <1>3, <1>4, <1>5, <1>6, <1>7, <1>8, <1>9, <1>10, <1>11, <1>12, <1>13, <1>14, <1>15, <1>16, <1>17, <1>18 DEF Next, CallStep, LoopStep

(* Without an Unsubscribe no channel is closed, and no send panics.        *)
LEMMA OpenStep == TypeOK /\ SubscriberInv /\ OpenInv /\ [Next]_vars => OpenInv'
<1> SUFFICES ASSUME TypeOK, SubscriberInv, OpenInv, [Next]_vars PROVE OpenInv'
  OBVIOUS
<1> USE DEF TypeOK, SubscriberInv, OpenInv, NobodyUnsubscribes, Running, callVars, subVars, serverVars
<1>1. ASSUME NEW c \in Calls, Begin(c) PROVE OpenInv'
  BY <1>1 DEF Begin, Goto
<1>2. ASSUME NEW c \in Calls, SendOk(c) PROVE OpenInv'
  BY <1>2 DEF SendOk, Goto
<1>3. ASSUME NEW c \in Calls, SendError(c) PROVE OpenInv'
  BY <1>3 DEF SendError, Return, Goto
<1>4. ASSUME NEW c \in Calls, TakeReply(c) PROVE OpenInv'
  BY <1>4 DEF TakeReply, Return, Goto
<1>5. ASSUME NEW c \in Calls, ContextDone(c) PROVE OpenInv'
  BY <1>5 DEF ContextDone, Return, Goto
<1>6. ASSUME NEW c \in Calls, SeeStopped(c) PROVE OpenInv'
  BY <1>6 DEF SeeStopped, Return, Goto
<1>7. ASSUME NEW c \in Calls, AppendSub(c) PROVE OpenInv'
  BY <1>7 DEF AppendSub, Return, Goto
<1>8. ASSUME NEW c \in Calls, RemoveSubs(c) PROVE OpenInv'
  BY <1>8 DEF RemoveSubs, Return, Goto
<1>9. ASSUME NEW c \in Calls, TakeEvent(c) PROVE OpenInv'
  BY <1>9 DEF TakeEvent
<1>10. ASSUME NEW c \in Calls, Answer(c) PROVE OpenInv'
  BY <1>10 DEF Answer
<1>11. ASSUME NEW t \in Topics, Push(t) PROVE OpenInv'
  BY <1>11 DEF Push
<1>12. CASE LoopEnds
  BY <1>12 DEF LoopEnds
<1>13. CASE HandleReply
  BY <1>13 DEF HandleReply
<1>14. CASE HandleEvent
  BY <1>14 DEF HandleEvent
<1>15. ASSUME NEW c \in Calls, SendEvent(c) PROVE OpenInv'
  BY <1>15 DEF SendEvent
<1>16. CASE Close
  BY <1>16 DEF Close
<1>17. CASE ApCloses
  BY <1>17 DEF ApCloses
<1>18. CASE UNCHANGED vars
  BY <1>18 DEF vars
<1>19. QED
  BY <1>1, <1>2, <1>3, <1>4, <1>5, <1>6, <1>7, <1>8, <1>9, <1>10, <1>11, <1>12, <1>13, <1>14, <1>15, <1>16, <1>17, <1>18 DEF Next, CallStep, LoopStep

(* The inductive invariant holds in every reachable state.                 *)
THEOREM MercuryInvariant == Spec => []IInv
<1>1. Init => RegisteredIffOpen /\ SubscriberInv /\ OpenInv
  BY DEF Init, RegisteredIffOpen, SubscriberInv, OpenInv, NobodyUnsubscribes, Running
<1>2. QED
  BY <1>1, SubscriberStep, OpenStep, TypeCorrect, PendingExactHolds, RegisteredIffOpenHolds, PTL
  DEF Spec, IInv

(* Unsubscribe is the only cause of the panic: as long as nobody calls it,  *)
(* Mercury is as safe for concurrent use as its comment says.               *)
THEOREM PanicNeedsUnsubscribe == Spec => [](NobodyUnsubscribes => SafeForConcurrentUse)
<1>1. IInv => (NobodyUnsubscribes => SafeForConcurrentUse)
  BY DEF IInv, OpenInv, SafeForConcurrentUse
<1>2. QED
  BY <1>1, MercuryInvariant, PTL

-----------------------------------------------------------------------------
(* A channel is closed by an Unsubscribe of its own URI, once, and gets     *)
(* events only while it is open.                                            *)
LEMMA LifeStep == ASSUME IInv, [Next]_vars, NEW k \in Calls PROVE Life(k)
<1> USE DEF IInv, TypeOK, RegisteredIffOpen, SubscriberInv, callVars, subVars, serverVars
<1>1. ASSUME NEW c \in Calls, Begin(c) PROVE Life(k)
  BY <1>1 DEF Begin, Goto, Life
<1>2. ASSUME NEW c \in Calls, SendOk(c) PROVE Life(k)
  BY <1>2 DEF SendOk, Goto, Life
<1>3. ASSUME NEW c \in Calls, SendError(c) PROVE Life(k)
  BY <1>3 DEF SendError, Return, Goto, Life
<1>4. ASSUME NEW c \in Calls, TakeReply(c) PROVE Life(k)
  BY <1>4 DEF TakeReply, Return, Goto, Life
<1>5. ASSUME NEW c \in Calls, ContextDone(c) PROVE Life(k)
  BY <1>5 DEF ContextDone, Return, Goto, Life
<1>6. ASSUME NEW c \in Calls, SeeStopped(c) PROVE Life(k)
  BY <1>6 DEF SeeStopped, Return, Goto, Life
<1>7. ASSUME NEW c \in Calls, AppendSub(c) PROVE Life(k)
  BY <1>7 DEF AppendSub, Return, Goto, Life
<1>8. ASSUME NEW c \in Calls, RemoveSubs(c) PROVE Life(k)
  BY <1>8 DEF RemoveSubs, Return, Goto, Life
<1>9. ASSUME NEW c \in Calls, TakeEvent(c) PROVE Life(k)
  BY <1>9 DEF TakeEvent, Life
<1>10. ASSUME NEW c \in Calls, Answer(c) PROVE Life(k)
  BY <1>10 DEF Answer, Life
<1>11. ASSUME NEW t \in Topics, Push(t) PROVE Life(k)
  BY <1>11 DEF Push, Life
<1>12. CASE LoopEnds
  BY <1>12 DEF LoopEnds, Life
<1>13. CASE HandleReply
  BY <1>13 DEF HandleReply, Life
<1>14. CASE HandleEvent
  BY <1>14 DEF HandleEvent, Life
<1>15. ASSUME NEW c \in Calls, SendEvent(c) PROVE Life(k)
  BY <1>15 DEF SendEvent, Life
<1>16. CASE Close
  BY <1>16 DEF Close, Life
<1>17. CASE ApCloses
  BY <1>17 DEF ApCloses, Life
<1>18. CASE UNCHANGED vars
  BY <1>18 DEF vars, Life
<1>19. QED
  BY <1>1, <1>2, <1>3, <1>4, <1>5, <1>6, <1>7, <1>8, <1>9, <1>10, <1>11, <1>12, <1>13, <1>14, <1>15, <1>16, <1>17, <1>18 DEF Next, CallStep, LoopStep

(* The life of a subscription channel, for any calls and URIs.             *)
THEOREM ClosedByItsUnsubscribeHolds == Spec => ClosedByItsUnsubscribe
<1>1. IInv /\ [Next]_vars => \A c \in Calls : Life(c)
  BY LifeStep
<1>2. QED
  BY <1>1, MercuryInvariant, PTL DEF Spec, ClosedByItsUnsubscribe
=============================================================================
