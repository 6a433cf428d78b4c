------------------------- MODULE AccesspointProofs -------------------------
(***************************************************************************)
(* Proofs about Accesspoint for any number of connections, loops,          *)
(* receivers and attempts.                                                 *)
(*                                                                         *)
(* As in DealerProofs the sole reader rests on the order in which recvLoops *)
(* are born (Lineage).  Here a loop is started at the end of an attempt     *)
(* that is under way for whoever holds connMu, so LockInv is needed to say  *)
(* that this holder is a loop which reconnects, and does so still.          *)
(***************************************************************************)
EXTENDS Accesspoint, TLAPS

LockInv ==
    /\ phase # "none" => lock # Free
    /\ \A l \in Loops :
         /\ pc[l] = "connecting" <=> (lock = l /\ phase # "none")
         /\ pc[l] = "unlock" <=> (lock = l /\ phase = "none")

Lineage == \A k, l \in Loops : k < l /\ pc[l] # "unborn" => pc[k] \in {"unlock", "dead"}

ChannelInv ==
    /\ pc[1] = "unborn" => \A r \in Receivers : chan[r] # "closed"
    /\ \A l \in Loops : \A r \in Receivers :
         /\ pc[l] \in Active => chan[r] # "closed"
         /\ pc[l] = "deliver" /\ r \in todo[l] => chan[r] = "open"

StopInv ==
    /\ stop => everClosed
    /\ \A l \in Loops : pc[l] = "closing" => everClosed

SocketInv ==
    /\ phase = "dial" => conn = 0
    /\ \A c \in Conns : c # conn => link[c] \in {"none", "closed"}

IInv == TypeOK /\ LockInv /\ Lineage /\ ChannelInv /\ StopInv /\ SocketInv

-----------------------------------------------------------------------------
(* The initial states are well typed.                                      *)
LEMMA TypeInit == Init => TypeOK
<1> USE AccesspointAssumption DEF Conns, Loops, Receivers, Free, Caller, Phases, TickStates, LoopStates
<1> SUFFICES ASSUME Init PROVE TypeOK
  OBVIOUS
<1>1. conn \in 0 .. MaxConns /\ dialled \in 0 .. MaxConns /\ enc \in 0 .. MaxConns
  BY DEF Init
<1>2. lock \in {Free, Caller} \cup Loops /\ quiet \in 0 .. 2 /\ attempts \in 0 .. MaxAttempts
  BY DEF Init
<1>3. reading \in [Loops -> 0 .. MaxConns] /\ pc \in [Loops -> LoopStates]
  BY DEF Init
<1>4. QED
  BY <1>1, <1>2, <1>3 DEF Init, TypeOK

(* Every step keeps the types.                                             *)
LEMMA TypeStep == TypeOK /\ [Next]_vars => TypeOK'
<1> USE AccesspointAssumption DEF Conns, Loops, Receivers, Free, Caller, Phases, TickStates, Selecting, LoopStates
<1> SUFFICES ASSUME TypeOK, [Next]_vars PROVE TypeOK'
  OBVIOUS
<1> USE DEF TypeOK, stopVars, connVars, tickVars, loopVars, chanVars
<1>1. CASE Connect
  BY <1>1 DEF Connect, TakeLock
<1>2. CASE Close
  BY <1>2 DEF Close, DoClose, CloseLink
<1>3. CASE Drop
  BY <1>3 DEF Drop
<1>4. CASE StartAttempt
  <2>1. link' \in [Conns -> {"none", "open", "silent", "closed"}] /\ conn' \in 0 .. MaxConns
    BY <1>4 DEF StartAttempt, CloseLink
  <2>2. tick' \in TickStates
    BY <1>4 DEF StartAttempt
  <2>3. QED
    BY <1>4, <2>1, <2>2 DEF StartAttempt
<1>5. CASE DialOk
  BY <1>5 DEF DialOk
<1>6. CASE DialFails
  BY <1>6 DEF DialFails
<1>7. CASE ShakeFails
  BY <1>7 DEF ShakeFails
<1>8. CASE TryAgain
  BY <1>8 DEF TryAgain
<1>9. CASE ConnectOk
  BY <1>9 DEF ConnectOk, ShakeOk
<1>10. CASE ConnectFails
  BY <1>10 DEF ConnectFails, Exhausted
<1>11. ASSUME NEW l \in Loops, Reconnected(l) PROVE TypeOK'
  BY <1>11 DEF Reconnected, ShakeOk
<1>12. ASSUME NEW l \in Loops, ReconnectFails(l) PROVE TypeOK'
  BY <1>12 DEF ReconnectFails, Exhausted, Goto
<1>13. CASE TickStop
  BY <1>13 DEF TickStop
<1>14. CASE TickFire
  <2>1. quiet' \in 0 .. 2 /\ tick' \in {"kill", "select"}
    BY <1>14 DEF TickFire
  <2>2. UNCHANGED <<stopVars, connVars, recvStop, tickStop, loopVars, chanVars, crashed>>
    BY <1>14 DEF TickFire
  <2>3. QED
    BY <2>1, <2>2
<1>15. CASE TickKill
  BY <1>15 DEF TickKill, CloseLink
<1>16. ASSUME NEW r \in Receivers, Receive(r) PROVE TypeOK'
  BY <1>16 DEF Receive, Goto
<1>17. ASSUME NEW r \in Receivers, ConsumerDone(r) PROVE TypeOK'
  BY <1>17 DEF ConsumerDone
<1>33. ASSUME NEW r \in Receivers, ConsumerLeaves(r) PROVE TypeOK'
  BY <1>33 DEF ConsumerLeaves
<1>18. ASSUME NEW l \in Loops, LoopTop(l) PROVE TypeOK'
  <2>1. pc' \in [Loops -> LoopStates] /\ reading' \in [Loops -> 0 .. MaxConns]
    BY <1>18 DEF LoopTop, Goto
  <2>2. recvStop' \in BOOLEAN
    BY <1>18 DEF LoopTop
  <2>3. UNCHANGED <<stopVars, connVars, tickStop, tickVars, todo, chanVars, crashed>>
    BY <1>18 DEF LoopTop
  <2>4. QED
    BY <2>1, <2>2, <2>3
<1>19. ASSUME NEW l \in Loops, SendPong(l) PROVE TypeOK'
  <2>1. Goto(l, "top") \/ Goto(l, "exit")
    BY <1>19 DEF SendPong
  <2>2. pc' \in [Loops -> LoopStates]
    BY <2>1 DEF Goto
  <2>3. QED
    BY <1>19, <2>2 DEF SendPong
<1>20. ASSUME NEW l \in Loops, HandOver(l) PROVE TypeOK'
  BY <1>20 DEF HandOver, Goto
<1>21. ASSUME NEW l \in Loops, LoopExit(l) PROVE TypeOK'
  BY <1>21 DEF LoopExit, Goto, CloseLink
<1>22. ASSUME NEW l \in Loops, LoopCheck(l) PROVE TypeOK'
  BY <1>22 DEF LoopCheck, Goto
<1>23. ASSUME NEW l \in Loops, LoopLock(l) PROVE TypeOK'
  BY <1>23 DEF LoopLock, TakeLock, Goto
<1>24. ASSUME NEW l \in Loops, LoopUnlock(l) PROVE TypeOK'
  BY <1>24 DEF LoopUnlock, Goto
<1>25. ASSUME NEW l \in Loops, LoopGiveUp(l) PROVE TypeOK'
  BY <1>25 DEF LoopGiveUp, DoClose, CloseLink, Goto
<1>26. ASSUME NEW l \in Loops, CloseChannels(l) PROVE TypeOK'
  BY <1>26 DEF CloseChannels, Goto
<1>27. ASSUME NEW l \in Loops, ReadError(l) PROVE TypeOK'
  BY <1>27 DEF ReadError, Goto
<1>28. ASSUME NEW l \in Loops, ReadPing(l) PROVE TypeOK'
  BY <1>28 DEF ReadPing, Reads, Goto
<1>29. ASSUME NEW l \in Loops, ReadPongAck(l) PROVE TypeOK'
  BY <1>29 DEF ReadPongAck, Reads, Goto
<1>30. ASSUME NEW l \in Loops, ReadPacket(l) PROVE TypeOK'
  BY <1>30 DEF ReadPacket, Reads, Goto
<1>31. CASE UNCHANGED vars
  BY <1>31 DEF vars
<1>32. QED
  BY <1>1, <1>2, <1>3, <1>4, <1>5, <1>6, <1>7, <1>8, <1>9, <1>10, <1>11, <1>12, <1>13, <1>14, <1>15, <1>16, <1>17, <1>33, <1>18, <1>19, <1>20, <1>21, <1>22, <1>23, <1>24, <1>25, <1>26, <1>27, <1>28, <1>29, <1>30, <1>31 DEF Next, Attempt, ConnectStep, LoopStep, LoopInput, TickStep

(* Type correctness: every variable keeps its shape in every step.         *)
THEOREM TypeCorrect == Spec => []TypeOK
BY TypeInit, TypeStep, PTL DEF Spec

-----------------------------------------------------------------------------
(* An attempt to connect belongs to the holder of connMu, which is a caller *)
(* of Connect or a loop that reconnects.                                    *)
LEMMA LockStep == TypeOK /\ LockInv /\ [Next]_vars => LockInv'
<1> SUFFICES ASSUME TypeOK, LockInv, [Next]_vars PROVE LockInv'
  OBVIOUS
<1> USE AccesspointAssumption DEF TypeOK, LockInv, Loops, Free, Caller, stopVars, connVars, tickVars, loopVars, chanVars
<1>1. CASE Connect
  BY <1>1 DEF Connect, TakeLock
<1>2. CASE Close
  BY <1>2 DEF Close, DoClose, CloseLink
<1>3. CASE Drop
  BY <1>3 DEF Drop
<1>4. CASE StartAttempt
  BY <1>4 DEF StartAttempt, CloseLink
<1>5. CASE DialOk
  BY <1>5 DEF DialOk
<1>6. CASE DialFails
  BY <1>6 DEF DialFails
<1>7. CASE ShakeFails
  BY <1>7 DEF ShakeFails
<1>8. CASE TryAgain
  BY <1>8 DEF TryAgain
<1>9. CASE ConnectOk
  BY <1>9 DEF ConnectOk, ShakeOk
<1>10. CASE ConnectFails
  BY <1>10 DEF ConnectFails, Exhausted
<1>11. ASSUME NEW l \in Loops, Reconnected(l) PROVE LockInv'
  BY <1>11 DEF Reconnected, ShakeOk
<1>12. ASSUME NEW l \in Loops, ReconnectFails(l) PROVE LockInv'
  BY <1>12 DEF ReconnectFails, Exhausted, Goto
<1>13. CASE TickStop
  BY <1>13 DEF TickStop
<1>14. CASE TickFire
  BY <1>14 DEF TickFire
<1>15. CASE TickKill
  BY <1>15 DEF TickKill, CloseLink
<1>16. ASSUME NEW r \in Receivers, Receive(r) PROVE LockInv'
  BY <1>16 DEF Receive, Goto
<1>17. ASSUME NEW r \in Receivers, ConsumerDone(r) PROVE LockInv'
  BY <1>17 DEF ConsumerDone
<1>33. ASSUME NEW r \in Receivers, ConsumerLeaves(r) PROVE LockInv'
  BY <1>33 DEF ConsumerLeaves
<1>18. ASSUME NEW l \in Loops, LoopTop(l) PROVE LockInv'
  BY <1>18 DEF LoopTop, Goto
<1>19. ASSUME NEW l \in Loops, SendPong(l) PROVE LockInv'
  BY <1>19 DEF SendPong, Goto
<1>20. ASSUME NEW l \in Loops, HandOver(l) PROVE LockInv'
  BY <1>20 DEF HandOver, Goto
<1>21. ASSUME NEW l \in Loops, LoopExit(l) PROVE LockInv'
  BY <1>21 DEF LoopExit, Goto, CloseLink
<1>22. ASSUME NEW l \in Loops, LoopCheck(l) PROVE LockInv'
  BY <1>22 DEF LoopCheck, Goto
<1>23. ASSUME NEW l \in Loops, LoopLock(l) PROVE LockInv'
  BY <1>23 DEF LoopLock, TakeLock, Goto
<1>24. ASSUME NEW l \in Loops, LoopUnlock(l) PROVE LockInv'
  BY <1>24 DEF LoopUnlock, Goto
<1>25. ASSUME NEW l \in Loops, LoopGiveUp(l) PROVE LockInv'
  BY <1>25 DEF LoopGiveUp, DoClose, CloseLink, Goto
<1>26. ASSUME NEW l \in Loops, CloseChannels(l) PROVE LockInv'
  BY <1>26 DEF CloseChannels, Goto
<1>27. ASSUME NEW l \in Loops, ReadError(l) PROVE LockInv'
  BY <1>27 DEF ReadError, Goto
<1>28. ASSUME NEW l \in Loops, ReadPing(l) PROVE LockInv'
  BY <1>28 DEF ReadPing, Reads, Goto
<1>29. ASSUME NEW l \in Loops, ReadPongAck(l) PROVE LockInv'
  BY <1>29 DEF ReadPongAck, Reads, Goto
<1>30. ASSUME NEW l \in Loops, ReadPacket(l) PROVE LockInv'
  BY <1>30 DEF ReadPacket, Reads, Goto
<1>31. CASE UNCHANGED vars
  BY <1>31 DEF vars
<1>32. QED
  BY <1>1, <1>2, <1>3, <1>4, <1>5, <1>6, <1>7, <1>8, <1>9, <1>10, <1>11, <1>12, <1>13, <1>14, <1>15, <1>16, <1>17, <1>33, <1>18, <1>19, <1>20, <1>21, <1>22, <1>23, <1>24, <1>25, <1>26, <1>27, <1>28, <1>29, <1>30, <1>31 DEF Next, Attempt, ConnectStep, LoopStep, LoopInput, TickStep

-----------------------------------------------------------------------------
(* A loop that has not let go of the connection may move to any state       *)
(* without disturbing the order of births.                                  *)
LEMMA MoveOn ==
    ASSUME TypeOK, Lineage, NEW l \in Loops, pc[l] \notin {"unborn", "unlock", "dead"},
           NEW s, pc' = [pc EXCEPT ![l] = s]
    PROVE  Lineage'
BY AccesspointAssumption DEF TypeOK, Lineage, Loops

(* Only a loop that reconnects starts a loop, and it lets go at once.      *)
LEMMA LineageStep == TypeOK /\ LockInv /\ Lineage /\ [Next]_vars => Lineage'
<1> SUFFICES ASSUME TypeOK, LockInv, Lineage, [Next]_vars PROVE Lineage'
  OBVIOUS
<1> USE AccesspointAssumption DEF TypeOK, stopVars, connVars, tickVars, loopVars, chanVars
<1>1. CASE Connect
  BY <1>1 DEF Connect, TakeLock, Lineage
<1>2. CASE Close
  BY <1>2 DEF Close, DoClose, CloseLink, Lineage
<1>3. CASE Drop
  BY <1>3 DEF Drop, Lineage
<1>4. CASE StartAttempt
  BY <1>4 DEF StartAttempt, CloseLink, Lineage
<1>5. CASE DialOk
  BY <1>5 DEF DialOk, Lineage
<1>6. CASE DialFails
  BY <1>6 DEF DialFails, Lineage
<1>7. CASE ShakeFails
  BY <1>7 DEF ShakeFails, Lineage
<1>8. CASE TryAgain
  BY <1>8 DEF TryAgain, Lineage
<1>9. CASE ConnectOk
  BY <1>9 DEF ConnectOk, ShakeOk, Lineage
<1>10. CASE ConnectFails
  BY <1>10 DEF ConnectFails, Exhausted, Lineage
<1>11. ASSUME NEW l \in Loops, Reconnected(l) PROVE Lineage'
  <2>1. pc[l] = "connecting" /\ l + 1 \in Loops /\ pc' = [pc EXCEPT ![l] = "unlock", ![l + 1] = "top"]
    BY <1>11 DEF Reconnected, ShakeOk, LockInv, Loops
  <2>2. \A m \in Loops : l < m => pc[m] = "unborn"
    BY <2>1 DEF Lineage
  <2>3. QED
    BY <2>1, <2>2 DEF Lineage, Loops
<1>12. ASSUME NEW l \in Loops, ReconnectFails(l) PROVE Lineage'
  <2>1. pc[l] = "connecting"
    BY <1>12 DEF ReconnectFails, Exhausted, LockInv
  <2>2. QED
    BY <1>12, <2>1, MoveOn DEF ReconnectFails, Goto
<1>13. CASE TickStop
  BY <1>13 DEF TickStop, Lineage
<1>14. CASE TickFire
  BY <1>14 DEF TickFire, Lineage
<1>15. CASE TickKill
  BY <1>15 DEF TickKill, CloseLink, Lineage
<1>16. ASSUME NEW r \in Receivers, Receive(r) PROVE Lineage'
  BY <1>16 DEF Receive, Goto, Lineage, Loops
<1>17. ASSUME NEW r \in Receivers, ConsumerDone(r) PROVE Lineage'
  BY <1>17 DEF ConsumerDone, Lineage
<1>33. ASSUME NEW r \in Receivers, ConsumerLeaves(r) PROVE Lineage'
  BY <1>33 DEF ConsumerLeaves, Lineage
<1>18. ASSUME NEW l \in Loops, LoopTop(l) PROVE Lineage'
  BY <1>18, MoveOn DEF LoopTop, Goto
<1>19. ASSUME NEW l \in Loops, SendPong(l) PROVE Lineage'
  BY <1>19, MoveOn DEF SendPong, Goto
<1>20. ASSUME NEW l \in Loops, HandOver(l) PROVE Lineage'
  BY <1>20, MoveOn DEF HandOver, Goto
<1>21. ASSUME NEW l \in Loops, LoopExit(l) PROVE Lineage'
  BY <1>21, MoveOn DEF LoopExit, Goto, CloseLink
<1>22. ASSUME NEW l \in Loops, LoopCheck(l) PROVE Lineage'
  BY <1>22, MoveOn DEF LoopCheck, Goto
<1>23. ASSUME NEW l \in Loops, LoopLock(l) PROVE Lineage'
  BY <1>23, MoveOn DEF LoopLock, TakeLock, Goto
<1>24. ASSUME NEW l \in Loops, LoopUnlock(l) PROVE Lineage'
  BY <1>24 DEF LoopUnlock, Goto, Lineage, Loops
<1>25. ASSUME NEW l \in Loops, LoopGiveUp(l) PROVE Lineage'
  BY <1>25, MoveOn DEF LoopGiveUp, DoClose, CloseLink, Goto
<1>26. ASSUME NEW l \in Loops, CloseChannels(l) PROVE Lineage'
  BY <1>26, MoveOn DEF CloseChannels, Goto
<1>27. ASSUME NEW l \in Loops, ReadError(l) PROVE Lineage'
  BY <1>27, MoveOn DEF ReadError, Goto
<1>28. ASSUME NEW l \in Loops, ReadPing(l) PROVE Lineage'
  BY <1>28, MoveOn DEF ReadPing, Reads, Goto
<1>29. ASSUME NEW l \in Loops, ReadPongAck(l) PROVE Lineage'
  BY <1>29, MoveOn DEF ReadPongAck, Reads, Goto
<1>30. ASSUME NEW l \in Loops, ReadPacket(l) PROVE Lineage'
  BY <1>30, MoveOn DEF ReadPacket, Reads, Goto
<1>31. CASE UNCHANGED vars
  BY <1>31 DEF vars, Lineage
<1>32. QED
  BY <1>1, <1>2, <1>3, <1>4, <1>5, <1>6, <1>7, <1>8, <1>9, <1>10, <1>11, <1>12, <1>13, <1>14, <1>15, <1>16, <1>17, <1>33, <1>18, <1>19, <1>20, <1>21, <1>22, <1>23, <1>24, <1>25, <1>26, <1>27, <1>28, <1>29, <1>30, <1>31 DEF Next, Attempt, ConnectStep, LoopStep, LoopInput, TickStep

(* recvLoop's reader is alone: a loop past its birth finds all before it    *)
(* gone.                                                                    *)
LEMMA LineageGivesOneReader == TypeOK /\ Lineage => OneReader
BY DEF TypeOK, Lineage, OneReader, Active, Loops

(* While the first loop is unborn no loop exists.                           *)
LEMMA FirstLoop == TypeOK /\ Lineage /\ pc[1] = "unborn" => \A l \in Loops : pc[l] = "unborn"
<1> SUFFICES ASSUME TypeOK, Lineage, pc[1] = "unborn", NEW l \in Loops PROVE pc[l] = "unborn"
  OBVIOUS
<1>1. 1 \in Loops /\ (l = 1 \/ 1 < l)
  BY AccesspointAssumption DEF Loops
<1>2. QED
  BY <1>1 DEF Lineage

-----------------------------------------------------------------------------
(* Channels are closed by the sole loop, as its last step.                 *)
LEMMA ChannelStep == TypeOK /\ LockInv /\ Lineage /\ ChannelInv /\ [Next]_vars => ChannelInv'
<1> SUFFICES ASSUME TypeOK, LockInv, Lineage, ChannelInv, [Next]_vars PROVE ChannelInv'
  OBVIOUS
<1> OneReader
  BY LineageGivesOneReader
<1> USE AccesspointAssumption DEF TypeOK, ChannelInv, OneReader, Active, LoopStates, stopVars, connVars, tickVars, loopVars, chanVars
<1>1. CASE Connect
  BY <1>1 DEF Connect, TakeLock
<1>2. CASE Close
  BY <1>2 DEF Close, DoClose, CloseLink
<1>3. CASE Drop
  BY <1>3 DEF Drop
<1>4. CASE StartAttempt
  BY <1>4 DEF StartAttempt, CloseLink
<1>5. CASE DialOk
  BY <1>5 DEF DialOk
<1>6. CASE DialFails
  BY <1>6 DEF DialFails
<1>7. CASE ShakeFails
  BY <1>7 DEF ShakeFails
<1>8. CASE TryAgain
  BY <1>8 DEF TryAgain
<1>9. CASE ConnectOk
  BY <1>9 DEF ConnectOk, ShakeOk
<1>10. CASE ConnectFails
  BY <1>10 DEF ConnectFails, Exhausted
<1>11. ASSUME NEW l \in Loops, Reconnected(l) PROVE ChannelInv'
  <2>1. pc[l] = "connecting" /\ l + 1 \in Loops
    BY <1>11 DEF Reconnected, ShakeOk, LockInv, Loops
  <2>2. pc' = [pc EXCEPT ![l] = "unlock", ![l + 1] = "top"] /\ chan' = chan /\ todo' = todo
    BY <1>11 DEF Reconnected, ShakeOk
  <2>3. \A r \in Receivers : chan[r] # "closed"
    BY <2>1
  <2>4. QED
    BY <2>1, <2>2, <2>3
<1>12. ASSUME NEW l \in Loops, ReconnectFails(l) PROVE ChannelInv'
  <2>1. pc[l] = "connecting"
    BY <1>12 DEF ReconnectFails, Exhausted, LockInv
  <2>2. QED
    BY <1>12, <2>1, FirstLoop DEF ReconnectFails, Exhausted, Goto
<1>13. CASE TickStop
  BY <1>13 DEF TickStop
<1>14. CASE TickFire
  BY <1>14 DEF TickFire
<1>15. CASE TickKill
  BY <1>15 DEF TickKill, CloseLink
<1>16. ASSUME NEW r \in Receivers, Receive(r) PROVE ChannelInv'
  BY <1>16, FirstLoop DEF Receive, Goto, Loops
<1>17. ASSUME NEW r \in Receivers, ConsumerDone(r) PROVE ChannelInv'
  BY <1>17 DEF ConsumerDone
<1>33. ASSUME NEW r \in Receivers, ConsumerLeaves(r) PROVE ChannelInv'
  BY <1>33 DEF ConsumerLeaves
<1>18. ASSUME NEW l \in Loops, LoopTop(l) PROVE ChannelInv'
  BY <1>18, FirstLoop DEF LoopTop, Goto
<1>19. ASSUME NEW l \in Loops, SendPong(l) PROVE ChannelInv'
  BY <1>19, FirstLoop DEF SendPong, Goto
<1>20. ASSUME NEW l \in Loops, HandOver(l) PROVE ChannelInv'
  BY <1>20, FirstLoop DEF HandOver, Goto
<1>21. ASSUME NEW l \in Loops, LoopExit(l) PROVE ChannelInv'
  BY <1>21, FirstLoop DEF LoopExit, Goto, CloseLink
<1>22. ASSUME NEW l \in Loops, LoopCheck(l) PROVE ChannelInv'
  BY <1>22, FirstLoop DEF LoopCheck, Goto
<1>23. ASSUME NEW l \in Loops, LoopLock(l) PROVE ChannelInv'
  BY <1>23, FirstLoop DEF LoopLock, TakeLock, Goto
<1>24. ASSUME NEW l \in Loops, LoopUnlock(l) PROVE ChannelInv'
  BY <1>24, FirstLoop DEF LoopUnlock, Goto
<1>25. ASSUME NEW l \in Loops, LoopGiveUp(l) PROVE ChannelInv'
  BY <1>25, FirstLoop DEF LoopGiveUp, DoClose, CloseLink, Goto
<1>26. ASSUME NEW l \in Loops, CloseChannels(l) PROVE ChannelInv'
  BY <1>26, FirstLoop DEF CloseChannels, Goto
<1>27. ASSUME NEW l \in Loops, ReadError(l) PROVE ChannelInv'
  BY <1>27, FirstLoop DEF ReadError, Goto
<1>28. ASSUME NEW l \in Loops, ReadPing(l) PROVE ChannelInv'
  BY <1>28, FirstLoop DEF ReadPing, Reads, Goto
<1>29. ASSUME NEW l \in Loops, ReadPongAck(l) PROVE ChannelInv'
  BY <1>29, FirstLoop DEF ReadPongAck, Reads, Goto
<1>30. ASSUME NEW l \in Loops, ReadPacket(l) PROVE ChannelInv'
  BY <1>30, FirstLoop DEF ReadPacket, Reads, Goto
<1>31. CASE UNCHANGED vars
  BY <1>31 DEF vars
<1>32. QED
  BY <1>1, <1>2, <1>3, <1>4, <1>5, <1>6, <1>7, <1>8, <1>9, <1>10, <1>11, <1>12, <1>13, <1>14, <1>15, <1>16, <1>17, <1>33, <1>18, <1>19, <1>20, <1>21, <1>22, <1>23, <1>24, <1>25, <1>26, <1>27, <1>28, <1>29, <1>30, <1>31 DEF Next, Attempt, ConnectStep, LoopStep, LoopInput, TickStep

(* stop is set by Close alone, and channels are closed only where it was    *)
(* seen set.                                                                *)
LEMMA StopStep == TypeOK /\ LockInv /\ StopInv /\ [Next]_vars => StopInv'
<1> SUFFICES ASSUME TypeOK, LockInv, StopInv, [Next]_vars PROVE StopInv'
  OBVIOUS
<1> USE AccesspointAssumption DEF TypeOK, StopInv, Loops, stopVars, connVars, tickVars, loopVars, chanVars
<1>1. CASE Connect
  BY <1>1 DEF Connect, TakeLock
<1>2. CASE Close
  BY <1>2 DEF Close, DoClose, CloseLink
<1>3. CASE Drop
  BY <1>3 DEF Drop
<1>4. CASE StartAttempt
  BY <1>4 DEF StartAttempt, CloseLink
<1>5. CASE DialOk
  BY <1>5 DEF DialOk
<1>6. CASE DialFails
  BY <1>6 DEF DialFails
<1>7. CASE ShakeFails
  BY <1>7 DEF ShakeFails
<1>8. CASE TryAgain
  BY <1>8 DEF TryAgain
<1>9. CASE ConnectOk
  BY <1>9 DEF ConnectOk, ShakeOk
<1>10. CASE ConnectFails
  BY <1>10 DEF ConnectFails, Exhausted
<1>11. ASSUME NEW l \in Loops, Reconnected(l) PROVE StopInv'
  BY <1>11 DEF Reconnected, ShakeOk
<1>12. ASSUME NEW l \in Loops, ReconnectFails(l) PROVE StopInv'
  BY <1>12 DEF ReconnectFails, Exhausted, Goto
<1>13. CASE TickStop
  BY <1>13 DEF TickStop
<1>14. CASE TickFire
  BY <1>14 DEF TickFire
<1>15. CASE TickKill
  BY <1>15 DEF TickKill, CloseLink
<1>16. ASSUME NEW r \in Receivers, Receive(r) PROVE StopInv'
  BY <1>16 DEF Receive, Goto
<1>17. ASSUME NEW r \in Receivers, ConsumerDone(r) PROVE StopInv'
  BY <1>17 DEF ConsumerDone
<1>33. ASSUME NEW r \in Receivers, ConsumerLeaves(r) PROVE StopInv'
  BY <1>33 DEF ConsumerLeaves
<1>18. ASSUME NEW l \in Loops, LoopTop(l) PROVE StopInv'
  BY <1>18 DEF LoopTop, Goto
<1>19. ASSUME NEW l \in Loops, SendPong(l) PROVE StopInv'
  BY <1>19 DEF SendPong, Goto
<1>20. ASSUME NEW l \in Loops, HandOver(l) PROVE StopInv'
  BY <1>20 DEF HandOver, Goto
<1>21. ASSUME NEW l \in Loops, LoopExit(l) PROVE StopInv'
  BY <1>21 DEF LoopExit, Goto, CloseLink
<1>22. ASSUME NEW l \in Loops, LoopCheck(l) PROVE StopInv'
  BY <1>22 DEF LoopCheck, Goto
<1>23. ASSUME NEW l \in Loops, LoopLock(l) PROVE StopInv'
  BY <1>23 DEF LoopLock, TakeLock, Goto
<1>24. ASSUME NEW l \in Loops, LoopUnlock(l) PROVE StopInv'
  BY <1>24 DEF LoopUnlock, Goto
<1>25. ASSUME NEW l \in Loops, LoopGiveUp(l) PROVE StopInv'
  BY <1>25 DEF LoopGiveUp, DoClose, CloseLink, Goto
<1>26. ASSUME NEW l \in Loops, CloseChannels(l) PROVE StopInv'
  BY <1>26 DEF CloseChannels, Goto
<1>27. ASSUME NEW l \in Loops, ReadError(l) PROVE StopInv'
  BY <1>27 DEF ReadError, Goto
<1>28. ASSUME NEW l \in Loops, ReadPing(l) PROVE StopInv'
  BY <1>28 DEF ReadPing, Reads, Goto
<1>29. ASSUME NEW l \in Loops, ReadPongAck(l) PROVE StopInv'
  BY <1>29 DEF ReadPongAck, Reads, Goto
<1>30. ASSUME NEW l \in Loops, ReadPacket(l) PROVE StopInv'
  BY <1>30 DEF ReadPacket, Reads, Goto
<1>31. CASE UNCHANGED vars
  BY <1>31 DEF vars
<1>32. QED
  BY <1>1, <1>2, <1>3, <1>4, <1>5, <1>6, <1>7, <1>8, <1>9, <1>10, <1>11, <1>12, <1>13, <1>14, <1>15, <1>16, <1>17, <1>33, <1>18, <1>19, <1>20, <1>21, <1>22, <1>23, <1>24, <1>25, <1>26, <1>27, <1>28, <1>29, <1>30, <1>31 DEF Next, Attempt, ConnectStep, LoopStep, LoopInput, TickStep

(* init closes the connection it replaces, so that a dial finds none.      *)
LEMMA SocketStep == TypeOK /\ SocketInv /\ [Next]_vars => SocketInv'
<1> SUFFICES ASSUME TypeOK, SocketInv, [Next]_vars PROVE SocketInv'
  OBVIOUS
<1> USE AccesspointAssumption DEF TypeOK, SocketInv, Conns, stopVars, connVars, tickVars, loopVars, chanVars
<1>1. CASE Connect
  BY <1>1 DEF Connect, TakeLock
<1>2. CASE Close
  BY <1>2 DEF Close, DoClose, CloseLink
<1>3. CASE Drop
  BY <1>3 DEF Drop
<1>4. CASE StartAttempt
  BY <1>4 DEF StartAttempt, CloseLink
<1>5. CASE DialOk
  BY <1>5 DEF DialOk
<1>6. CASE DialFails
  BY <1>6 DEF DialFails
<1>7. CASE ShakeFails
  BY <1>7 DEF ShakeFails
<1>8. CASE TryAgain
  BY <1>8 DEF TryAgain
<1>9. CASE ConnectOk
  BY <1>9 DEF ConnectOk, ShakeOk
<1>10. CASE ConnectFails
  BY <1>10 DEF ConnectFails, Exhausted
<1>11. ASSUME NEW l \in Loops, Reconnected(l) PROVE SocketInv'
  BY <1>11 DEF Reconnected, ShakeOk
<1>12. ASSUME NEW l \in Loops, ReconnectFails(l) PROVE SocketInv'
  BY <1>12 DEF ReconnectFails, Exhausted, Goto
<1>13. CASE TickStop
  BY <1>13 DEF TickStop
<1>14. CASE TickFire
  BY <1>14 DEF TickFire
<1>15. CASE TickKill
  BY <1>15 DEF TickKill, CloseLink
<1>16. ASSUME NEW r \in Receivers, Receive(r) PROVE SocketInv'
  BY <1>16 DEF Receive, Goto
<1>17. ASSUME NEW r \in Receivers, ConsumerDone(r) PROVE SocketInv'
  BY <1>17 DEF ConsumerDone
<1>33. ASSUME NEW r \in Receivers, ConsumerLeaves(r) PROVE SocketInv'
  BY <1>33 DEF ConsumerLeaves
<1>18. ASSUME NEW l \in Loops, LoopTop(l) PROVE SocketInv'
  BY <1>18 DEF LoopTop, Goto
<1>19. ASSUME NEW l \in Loops, SendPong(l) PROVE SocketInv'
  BY <1>19 DEF SendPong, Goto
<1>20. ASSUME NEW l \in Loops, HandOver(l) PROVE SocketInv'
  BY <1>20 DEF HandOver, Goto
<1>21. ASSUME NEW l \in Loops, LoopExit(l) PROVE SocketInv'
  BY <1>21 DEF LoopExit, Goto, CloseLink
<1>22. ASSUME NEW l \in Loops, LoopCheck(l) PROVE SocketInv'
  BY <1>22 DEF LoopCheck, Goto
<1>23. ASSUME NEW l \in Loops, LoopLock(l) PROVE SocketInv'
  BY <1>23 DEF LoopLock, TakeLock, Goto
<1>24. ASSUME NEW l \in Loops, LoopUnlock(l) PROVE SocketInv'
  BY <1>24 DEF LoopUnlock, Goto
<1>25. ASSUME NEW l \in Loops, LoopGiveUp(l) PROVE SocketInv'
  BY <1>25 DEF LoopGiveUp, DoClose, CloseLink, Goto
<1>26. ASSUME NEW l \in Loops, CloseChannels(l) PROVE SocketInv'
  BY <1>26 DEF CloseChannels, Goto
<1>27. ASSUME NEW l \in Loops, ReadError(l) PROVE SocketInv'
  BY <1>27 DEF ReadError, Goto
<1>28. ASSUME NEW l \in Loops, ReadPing(l) PROVE SocketInv'
  BY <1>28 DEF ReadPing, Reads, Goto
<1>29. ASSUME NEW l \in Loops, ReadPongAck(l) PROVE SocketInv'
  BY <1>29 DEF ReadPongAck, Reads, Goto
<1>30. ASSUME NEW l \in Loops, ReadPacket(l) PROVE SocketInv'
  BY <1>30 DEF ReadPacket, Reads, Goto
<1>31. CASE UNCHANGED vars
  BY <1>31 DEF vars
<1>32. QED
  BY <1>1, <1>2, <1>3, <1>4, <1>5, <1>6, <1>7, <1>8, <1>9, <1>10, <1>11, <1>12, <1>13, <1>14, <1>15, <1>16, <1>17, <1>33, <1>18, <1>19, <1>20, <1>21, <1>22, <1>23, <1>24, <1>25, <1>26, <1>27, <1>28, <1>29, <1>30, <1>31 DEF Next, Attempt, ConnectStep, LoopStep, LoopInput, TickStep

-----------------------------------------------------------------------------
(* The inductive invariant holds in every reachable state.                 *)
THEOREM SafetyInvariant == Spec => []IInv
<1>1. Init => IInv
  <2> SUFFICES ASSUME Init PROVE LockInv /\ Lineage /\ ChannelInv /\ StopInv /\ SocketInv
    BY TypeInit DEF IInv
  <2>1. LockInv /\ Lineage
    BY AccesspointAssumption DEF Init, LockInv, Lineage, Loops, Free
  <2>2. ChannelInv
    BY DEF Init, ChannelInv, Active, LoopStates
  <2>3. StopInv /\ SocketInv
    BY DEF Init, StopInv, SocketInv
  <2>4. QED
    BY <2>1, <2>2, <2>3
<1>2. IInv /\ [Next]_vars => IInv'
  BY TypeStep, LockStep, LineageStep, ChannelStep, StopStep, SocketStep DEF IInv
<1>3. QED
  BY <1>1, <1>2, PTL DEF Spec

(* Only one goroutine receives packets and owns the receiver channels,      *)
(* however many reconnections there have been.                              *)
THEOREM OneReaderHolds == Spec => []OneReader
<1>1. IInv => OneReader
  BY LineageGivesOneReader DEF IInv
<1>2. QED
  BY <1>1, SafetyInvariant, PTL

(* No loop ever sends on or closes a closed receiver channel.              *)
THEOREM NoSendOnClosedHolds == Spec => []NoSendOnClosed
<1>1. IInv => NoSendOnClosed
  BY DEF IInv, TypeOK, ChannelInv, NoSendOnClosed, Active, LoopStates
<1>2. QED
  BY <1>1, SafetyInvariant, PTL

(* Every connection that ap.conn no longer holds has been closed, whatever  *)
(* handshakes failed and whoever called Close in between.                   *)
THEOREM NoLeakedConnectionHolds == Spec => []NoLeakedConnection
<1>1. IInv => NoLeakedConnection
  BY DEF IInv, SocketInv, NoLeakedConnection
<1>2. QED
  BY <1>1, SafetyInvariant, PTL

-----------------------------------------------------------------------------
(* Every step is one of the contract or leaves its variables alone.        *)
LEMMA ContractStep == IInv /\ [Next]_vars => [Contract!Next]_(Contract!vars)
<1> SUFFICES ASSUME IInv, [Next]_vars PROVE [Contract!Next]_(Contract!vars)
  OBVIOUS
<1> USE DEF stopVars, connVars, tickVars, loopVars, chanVars
<1>1. CASE Connect
  BY <1>1 DEF Connect, TakeLock, Contract!vars
<1>2. CASE Close
  BY <1>2 DEF Close, DoClose, Contract!Next, Contract!Close
<1>3. CASE Drop
  BY <1>3 DEF Drop, Contract!vars
<1>4. CASE StartAttempt
  BY <1>4 DEF StartAttempt, CloseLink, Contract!vars
<1>5. CASE DialOk
  BY <1>5 DEF DialOk, Contract!vars
<1>6. CASE DialFails
  BY <1>6 DEF DialFails, Contract!vars
<1>7. CASE ShakeFails
  BY <1>7 DEF ShakeFails, Contract!vars
<1>8. CASE TryAgain
  BY <1>8 DEF TryAgain, Contract!vars
<1>9. CASE ConnectOk
  BY <1>9 DEF ConnectOk, ShakeOk, Contract!vars
<1>10. CASE ConnectFails
  BY <1>10 DEF ConnectFails, Exhausted, Contract!vars
<1>11. ASSUME NEW l \in Loops, Reconnected(l) PROVE [Contract!Next]_(Contract!vars)
  BY <1>11 DEF Reconnected, ShakeOk, Contract!vars
<1>12. ASSUME NEW l \in Loops, ReconnectFails(l) PROVE [Contract!Next]_(Contract!vars)
  BY <1>12 DEF ReconnectFails, Exhausted, Goto, Contract!vars
<1>13. CASE TickStop
  BY <1>13 DEF TickStop, Contract!vars
<1>14. CASE TickFire
  BY <1>14 DEF TickFire, Contract!vars
<1>15. CASE TickKill
  BY <1>15 DEF TickKill, CloseLink, Contract!vars
<1>16. ASSUME NEW r \in Receivers, Receive(r) PROVE [Contract!Next]_(Contract!vars)
  BY <1>16 DEF Receive, Contract!Next, Contract!Register
<1>17. ASSUME NEW r \in Receivers, ConsumerDone(r) PROVE [Contract!Next]_(Contract!vars)
  BY <1>17 DEF ConsumerDone, Contract!Next, Contract!Finish
<1>33. ASSUME NEW r \in Receivers, ConsumerLeaves(r) PROVE [Contract!Next]_(Contract!vars)
  BY <1>33 DEF ConsumerLeaves, Contract!Next, Contract!Leave
<1>18. ASSUME NEW l \in Loops, LoopTop(l) PROVE [Contract!Next]_(Contract!vars)
  BY <1>18 DEF LoopTop, Goto, Contract!vars
<1>19. ASSUME NEW l \in Loops, SendPong(l) PROVE [Contract!Next]_(Contract!vars)
  BY <1>19 DEF SendPong, Goto, Contract!vars
<1>20. ASSUME NEW l \in Loops, HandOver(l) PROVE [Contract!Next]_(Contract!vars)
  <2>1. PICK r \in todo[l] : cons[r] = "idle" /\ cons' = [cons EXCEPT ![r] = "busy"]
    BY <1>20 DEF HandOver
  <2>2. r \in Receivers /\ chan[r] = "open"
    BY <1>20, <2>1 DEF HandOver, IInv, ChannelInv, TypeOK
  <2>3. Contract!HandOver(r)
    BY <1>20, <2>1, <2>2 DEF HandOver, Contract!HandOver
  <2>4. QED
    BY <2>2, <2>3 DEF Contract!Next
<1>21. ASSUME NEW l \in Loops, LoopExit(l) PROVE [Contract!Next]_(Contract!vars)
  BY <1>21 DEF LoopExit, Goto, CloseLink, Contract!vars
<1>22. ASSUME NEW l \in Loops, LoopCheck(l) PROVE [Contract!Next]_(Contract!vars)
  BY <1>22 DEF LoopCheck, Goto, Contract!vars
<1>23. ASSUME NEW l \in Loops, LoopLock(l) PROVE [Contract!Next]_(Contract!vars)
  BY <1>23 DEF LoopLock, TakeLock, Goto, Contract!vars
<1>24. ASSUME NEW l \in Loops, LoopUnlock(l) PROVE [Contract!Next]_(Contract!vars)
  BY <1>24 DEF LoopUnlock, Goto, Contract!vars
<1>25. ASSUME NEW l \in Loops, LoopGiveUp(l) PROVE [Contract!Next]_(Contract!vars)
  BY <1>25 DEF LoopGiveUp, DoClose, Contract!Next, Contract!Close
<1>26. ASSUME NEW l \in Loops, CloseChannels(l) PROVE [Contract!Next]_(Contract!vars)
  <2> DEFINE S == {r \in Receivers : chan[r] # "none"}
  <2>1. everClosed /\ \A r \in S : chan[r] = "open"
    BY <1>26 DEF CloseChannels, IInv, StopInv, ChannelInv, TypeOK, Active, LoopStates
  <2>2. chan' = [r \in Receivers |-> IF r \in S THEN "closed" ELSE chan[r]]
    BY <1>26 DEF CloseChannels
  <2>3. Contract!CloseChannels(S)
    BY <1>26, <2>1, <2>2 DEF CloseChannels, Contract!CloseChannels
  <2>4. QED
    BY <2>3 DEF Contract!Next
<1>27. ASSUME NEW l \in Loops, ReadError(l) PROVE [Contract!Next]_(Contract!vars)
  BY <1>27 DEF ReadError, Goto, Contract!vars
<1>28. ASSUME NEW l \in Loops, ReadPing(l) PROVE [Contract!Next]_(Contract!vars)
  BY <1>28 DEF ReadPing, Reads, Goto, Contract!vars
<1>29. ASSUME NEW l \in Loops, ReadPongAck(l) PROVE [Contract!Next]_(Contract!vars)
  BY <1>29 DEF ReadPongAck, Reads, Goto, Contract!vars
<1>30. ASSUME NEW l \in Loops, ReadPacket(l) PROVE [Contract!Next]_(Contract!vars)
  BY <1>30 DEF ReadPacket, Reads, Goto, Contract!vars
<1>31. CASE UNCHANGED vars
  BY <1>31 DEF vars, Contract!vars
<1>32. QED
  BY <1>1, <1>2, <1>3, <1>4, <1>5, <1>6, <1>7, <1>8, <1>9, <1>10, <1>11, <1>12, <1>13, <1>14, <1>15, <1>16, <1>17, <1>33, <1>18, <1>19, <1>20, <1>21, <1>22, <1>23, <1>24, <1>25, <1>26, <1>27, <1>28, <1>29, <1>30, <1>31 DEF Next, Attempt, ConnectStep, LoopStep, LoopInput, TickStep

(* The access point implements the life cycle of ReceiverContract: packets  *)
(* are handed over on open channels only, and channels are closed once and  *)
(* only after Close.                                                        *)
THEOREM ImplementsContract == Spec => KeepsContract
<1>1. Init => Contract!Init
  BY DEF Init, Contract!Init
<1>2. QED
  BY <1>1, ContractStep, SafetyInvariant, PTL DEF Spec, KeepsContract, Contract!Spec
=============================================================================
