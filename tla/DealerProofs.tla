--------------------------- MODULE DealerProofs ---------------------------
(***************************************************************************)
(* Proofs about Dealer for any number of connections, loops and receivers. *)
(*                                                                         *)
(* None of the safety properties is inductive.  They rest on the order in  *)
(* which recvLoops are born (Lineage): a loop exists only when all before  *)
(* it have let go of the socket, because only the holder of connMu starts  *)
(* one.  From it follow the sole reader, and with it what that reader may  *)
(* assume of the receiver channels and of the socket.                      *)
(***************************************************************************)
EXTENDS Dealer, TLAPS

Lineage == \A k, l \in Loops : k < l /\ pc[l] # "unborn" => pc[k] \in {"unlock", "dead"}

ChannelInv ==
    /\ pc[1] = "unborn" => \A r \in Receivers : chan[r] # "closed"
    /\ \A l \in Loops : \A r \in Receivers :
         /\ pc[l] \in Active \ {"closeMsg"} => chan[r] # "closed"
         /\ pc[l] = "closeMsg" /\ r \notin RequestReceivers => chan[r] # "closed"
         /\ pc[l] = "deliver" /\ r \in todo[l] => chan[r] = "open"

StopInv ==
    /\ stop => everClosed
    /\ \A l \in Loops : pc[l] \in {"closeReq", "closeMsg"} => everClosed

SocketInv ==
    ~reopened =>
        /\ lock = Caller => conn = 0
        /\ \A l \in Loops :
             /\ pc[l] # "unborn" => conn # 0
             /\ pc[l] \in {"check", "wantLock", "dialing"} => link[conn] = "closed"
             /\ pc[l] \in {"read", "deliver", "await", "reply"} => reading[l] = conn
        /\ \A c \in Conns : c < conn => link[c] = "closed"

IInv == TypeOK /\ Lineage /\ ChannelInv /\ StopInv

-----------------------------------------------------------------------------
(* The initial states are well typed.                                      *)
LEMMA TypeInit == Init => TypeOK
<1> USE DealerAssumption DEF Conns, Loops, Receivers, Free, Caller, TickStates, Selecting, LoopStates
<1> SUFFICES ASSUME Init PROVE TypeOK
  OBVIOUS
<1>1. conn \in 0 .. MaxConns /\ lock \in {Free, Caller} \cup Loops /\ quiet \in 0 .. 2
  BY DEF Init
<1>2. reading \in [Loops -> 0 .. MaxConns]
  BY DEF Init
<1>3. link \in [Conns -> {"none", "open", "silent", "closed"}] /\ pc \in [Loops -> LoopStates]
  BY DEF Init
<1>4. QED
  BY <1>1, <1>2, <1>3 DEF Init, TypeOK

(* Every step keeps the types.                                             *)
LEMMA TypeStep == TypeOK /\ [Next]_vars => TypeOK'
<1> USE DealerAssumption DEF Conns, Loops, Receivers, Free, Caller, TickStates, Selecting, LoopStates
<1> SUFFICES ASSUME TypeOK, [Next]_vars PROVE TypeOK'
  OBVIOUS
<1> USE DEF TypeOK, connVars, recvVars, vars
<1>1. CASE Connect
  BY <1>1 DEF Connect, FreshChannels
<1>2. CASE ConnectOk
  BY <1>2 DEF ConnectOk, NewConn
<1>3. CASE ConnectFail
  BY <1>3 DEF ConnectFail
<1>4. CASE Close
  BY <1>4 DEF Close, DoClose, CloseLink
<1>5. ASSUME NEW r \in Receivers, Register(r) PROVE TypeOK'
  BY <1>5 DEF Register, Goto
<1>6. ASSUME NEW r \in Receivers, ConsumerDone(r) PROVE TypeOK'
  BY <1>6 DEF ConsumerDone
<1>7. ASSUME NEW r \in Receivers, ConsumerLeaves(r) PROVE TypeOK'
  BY <1>7 DEF ConsumerLeaves
<1>8. CASE Drop
  BY <1>8 DEF Drop
<1>9. ASSUME NEW l \in Loops, LoopTop(l) PROVE TypeOK'
  BY <1>9 DEF LoopTop, Goto
<1>10. ASSUME NEW l \in Loops, ReadError(l) PROVE TypeOK'
  BY <1>10 DEF ReadError, Goto
<1>11. ASSUME NEW l \in Loops, ReadGarbage(l) PROVE TypeOK'
  BY <1>11 DEF ReadGarbage, Goto
<1>12. ASSUME NEW l \in Loops, ReadPong(l) PROVE TypeOK'
  BY <1>12 DEF ReadPong, Goto
<1>13. ASSUME NEW l \in Loops, ReadMessage(l) PROVE TypeOK'
  BY <1>13 DEF ReadMessage, Goto
<1>14. ASSUME NEW l \in Loops, ReadRequest(l) PROVE TypeOK'
  BY <1>14 DEF ReadRequest, Goto
<1>15. ASSUME NEW l \in Loops, HandOver(l) PROVE TypeOK'
  BY <1>15 DEF HandOver, Goto
<1>16. ASSUME NEW l \in Loops, SendReply(l) PROVE TypeOK'
  BY <1>16 DEF SendReply, Goto
<1>17. ASSUME NEW l \in Loops, LoopExit(l) PROVE TypeOK'
  BY <1>17 DEF LoopExit, Goto, CloseLink
<1>18. ASSUME NEW l \in Loops, LoopCheck(l) PROVE TypeOK'
  BY <1>18 DEF LoopCheck, Goto
<1>19. ASSUME NEW l \in Loops, LoopLock(l) PROVE TypeOK'
  BY <1>19 DEF LoopLock, Goto, FreshChannels
<1>20. ASSUME NEW l \in Loops, DialRetry(l) PROVE TypeOK'
  BY <1>20 DEF DialRetry, FreshChannels
<1>21. ASSUME NEW l \in Loops, DialOk(l) PROVE TypeOK'
  BY <1>21 DEF DialOk, NewConn
<1>22. ASSUME NEW l \in Loops, LoopUnlock(l) PROVE TypeOK'
  BY <1>22 DEF LoopUnlock, Goto
<1>23. ASSUME NEW l \in Loops, DialExhausted(l) PROVE TypeOK'
  BY <1>23 DEF DialExhausted, Goto
<1>24. ASSUME NEW l \in Loops, LoopGiveUp(l) PROVE TypeOK'
  BY <1>24 DEF LoopGiveUp, Goto, DoClose, CloseLink
<1>25. ASSUME NEW l \in Loops, CloseRequestChannels(l) PROVE TypeOK'
  BY <1>25 DEF CloseRequestChannels, CloseChannels, Goto
<1>26. ASSUME NEW l \in Loops, CloseMessageChannels(l) PROVE TypeOK'
  BY <1>26 DEF CloseMessageChannels, CloseChannels, Goto
<1>27. CASE TickStop
  BY <1>27 DEF TickStop
<1>28. CASE TickFire
  <2>1. quiet' \in 0 .. 2
    BY <1>28 DEF TickFire
  <2>2. tick' \in {"kill", "ping"}
    BY <1>28 DEF TickFire
  <2>3. UNCHANGED <<connVars, pc, reading, todo, recvVars>>
    BY <1>28 DEF TickFire
  <2>4. QED
    BY <2>1, <2>2, <2>3
<1>29. CASE TickPing
  BY <1>29 DEF TickPing
<1>30. CASE TickPingFailed
  BY <1>30 DEF TickPingFailed
<1>31. CASE TickKill
  BY <1>31 DEF TickKill, CloseLink
<1>32. CASE UNCHANGED vars
  BY <1>32
<1>33. QED
  BY <1>1, <1>2, <1>3, <1>4, <1>5, <1>6, <1>7, <1>8, <1>9, <1>10, <1>11, <1>12, <1>13, <1>14, <1>15, <1>16, <1>17, <1>18, <1>19, <1>20, <1>21, <1>22, <1>23, <1>24, <1>25, <1>26, <1>27, <1>28, <1>29, <1>30, <1>31, <1>32 DEF Next, CallerStep, LoopStep, LoopInput, TickStep

(* Type correctness: every variable keeps its shape in every step.          *)
THEOREM TypeCorrect == Spec => []TypeOK
BY TypeInit, TypeStep, PTL DEF Spec

-----------------------------------------------------------------------------
(* A loop that has not let go of the socket may move to any state without   *)
(* disturbing the order of births.                                          *)
LEMMA MoveOn ==
    ASSUME TypeOK, Lineage, NEW l \in Loops, pc[l] \notin {"unborn", "unlock", "dead"},
           NEW s, pc' = [pc EXCEPT ![l] = s]
    PROVE  Lineage'
BY DealerAssumption DEF TypeOK, Lineage, Loops

(* Only the holder of connMu starts a loop, and it lets go at once.        *)
LEMMA LineageStep == TypeOK /\ Lineage /\ [Next]_vars => Lineage'
<1> SUFFICES ASSUME TypeOK, Lineage, [Next]_vars PROVE Lineage'
  OBVIOUS
<1> USE DealerAssumption DEF TypeOK
<1>1. CASE Connect
  BY <1>1 DEF Connect, Lineage
<1>2. CASE ConnectOk
  BY <1>2 DEF ConnectOk, Lineage
<1>3. CASE ConnectFail
  BY <1>3 DEF ConnectFail, Lineage
<1>4. CASE Close
  BY <1>4 DEF Close, Lineage
<1>5. ASSUME NEW r \in Receivers, Register(r) PROVE Lineage'
  BY <1>5 DEF Register, Goto, Lineage, Loops
<1>6. ASSUME NEW r \in Receivers, ConsumerDone(r) PROVE Lineage'
  BY <1>6 DEF ConsumerDone, Lineage
<1>7. ASSUME NEW r \in Receivers, ConsumerLeaves(r) PROVE Lineage'
  BY <1>7 DEF ConsumerLeaves, Lineage
<1>8. CASE Drop
  BY <1>8 DEF Drop, Lineage
<1>9. ASSUME NEW l \in Loops, LoopTop(l) PROVE Lineage'
  BY <1>9, MoveOn DEF LoopTop, Goto
<1>10. ASSUME NEW l \in Loops, ReadError(l) PROVE Lineage'
  BY <1>10, MoveOn DEF ReadError, Goto
<1>11. ASSUME NEW l \in Loops, ReadGarbage(l) PROVE Lineage'
  BY <1>11, MoveOn DEF ReadGarbage, Goto
<1>12. ASSUME NEW l \in Loops, ReadPong(l) PROVE Lineage'
  BY <1>12, MoveOn DEF ReadPong, Goto
<1>13. ASSUME NEW l \in Loops, ReadMessage(l) PROVE Lineage'
  BY <1>13, MoveOn DEF ReadMessage, Goto
<1>14. ASSUME NEW l \in Loops, ReadRequest(l) PROVE Lineage'
  BY <1>14, MoveOn DEF ReadRequest, Goto
<1>15. ASSUME NEW l \in Loops, HandOver(l) PROVE Lineage'
  BY <1>15, MoveOn DEF HandOver, Goto
<1>16. ASSUME NEW l \in Loops, SendReply(l) PROVE Lineage'
  BY <1>16, MoveOn DEF SendReply, Goto
<1>17. ASSUME NEW l \in Loops, LoopExit(l) PROVE Lineage'
  BY <1>17, MoveOn DEF LoopExit, Goto
<1>18. ASSUME NEW l \in Loops, LoopCheck(l) PROVE Lineage'
  BY <1>18, MoveOn DEF LoopCheck, Goto
<1>19. ASSUME NEW l \in Loops, LoopLock(l) PROVE Lineage'
  BY <1>19, MoveOn DEF LoopLock, Goto
<1>20. ASSUME NEW l \in Loops, DialRetry(l) PROVE Lineage'
  BY <1>20 DEF DialRetry, Lineage
<1>21. ASSUME NEW l \in Loops, DialOk(l) PROVE Lineage'
  <2>1. pc[l] = "dialing" /\ l + 1 \in Loops /\ pc' = [pc EXCEPT ![l] = "unlock", ![l + 1] = "top"]
    BY <1>21 DEF DialOk, Loops
  <2>2. \A m \in Loops : l < m => pc[m] = "unborn"
    BY <2>1 DEF Lineage
  <2>3. QED
    BY <2>1, <2>2 DEF Lineage, Loops
<1>22. ASSUME NEW l \in Loops, LoopUnlock(l) PROVE Lineage'
  BY <1>22 DEF LoopUnlock, Goto, Lineage
<1>23. ASSUME NEW l \in Loops, DialExhausted(l) PROVE Lineage'
  BY <1>23, MoveOn DEF DialExhausted, Goto
<1>24. ASSUME NEW l \in Loops, LoopGiveUp(l) PROVE Lineage'
  BY <1>24, MoveOn DEF LoopGiveUp, Goto
<1>25. ASSUME NEW l \in Loops, CloseRequestChannels(l) PROVE Lineage'
  BY <1>25, MoveOn DEF CloseRequestChannels, Goto
<1>26. ASSUME NEW l \in Loops, CloseMessageChannels(l) PROVE Lineage'
  BY <1>26, MoveOn DEF CloseMessageChannels, Goto
<1>27. CASE TickStop
  BY <1>27 DEF TickStop, Lineage
<1>28. CASE TickFire
  BY <1>28 DEF TickFire, Lineage
<1>29. CASE TickPing
  BY <1>29 DEF TickPing, Lineage
<1>30. CASE TickPingFailed
  BY <1>30 DEF TickPingFailed, Lineage
<1>31. CASE TickKill
  BY <1>31 DEF TickKill, Lineage
<1>32. CASE UNCHANGED vars
  BY <1>32 DEF vars, Lineage
<1>33. QED
  BY <1>1, <1>2, <1>3, <1>4, <1>5, <1>6, <1>7, <1>8, <1>9, <1>10, <1>11, <1>12, <1>13, <1>14, <1>15, <1>16, <1>17, <1>18, <1>19, <1>20, <1>21, <1>22, <1>23, <1>24, <1>25, <1>26, <1>27, <1>28, <1>29, <1>30, <1>31, <1>32 DEF Next, CallerStep, LoopStep, LoopInput, TickStep

(* recvLoop's reader is alone: a loop past its birth finds all before it    *)
(* gone.                                                                    *)
LEMMA LineageGivesOneReader == TypeOK /\ Lineage => OneReader
BY DEF TypeOK, Lineage, OneReader, Active, Loops

-----------------------------------------------------------------------------
(* While the first loop is unborn no loop exists.                           *)
LEMMA FirstLoop == TypeOK /\ Lineage /\ pc[1] = "unborn" => \A l \in Loops : pc[l] = "unborn"
<1> SUFFICES ASSUME TypeOK, Lineage, pc[1] = "unborn", NEW l \in Loops PROVE pc[l] = "unborn"
  OBVIOUS
<1>1. 1 \in Loops /\ (l = 1 \/ 1 < l)
  BY DealerAssumption DEF Loops
<1>2. QED
  BY <1>1 DEF Lineage

(* Channels are closed by the sole loop, and only on its way out.          *)
LEMMA ChannelStep == TypeOK /\ Lineage /\ ChannelInv /\ [Next]_vars => ChannelInv'
<1> SUFFICES ASSUME TypeOK, Lineage, ChannelInv, [Next]_vars PROVE ChannelInv'
  OBVIOUS
<1> OneReader
  BY LineageGivesOneReader
<1> USE DealerAssumption DEF TypeOK, ChannelInv, OneReader, Active, LoopStates
<1>1. CASE Connect
  BY <1>1 DEF Connect, recvVars
<1>2. CASE ConnectOk
  BY <1>2 DEF ConnectOk, recvVars
<1>3. CASE ConnectFail
  BY <1>3 DEF ConnectFail, recvVars
<1>4. CASE Close
  BY <1>4 DEF Close, recvVars
<1>5. ASSUME NEW r \in Receivers, Register(r) PROVE ChannelInv'
  BY <1>5, FirstLoop DEF Register, Goto, Loops
<1>6. ASSUME NEW r \in Receivers, ConsumerDone(r) PROVE ChannelInv'
  BY <1>6 DEF ConsumerDone
<1>7. ASSUME NEW r \in Receivers, ConsumerLeaves(r) PROVE ChannelInv'
  BY <1>7 DEF ConsumerLeaves, recvVars
<1>8. CASE Drop
  BY <1>8 DEF Drop, recvVars
<1>9. ASSUME NEW l \in Loops, LoopTop(l) PROVE ChannelInv'
  BY <1>9, FirstLoop DEF LoopTop, Goto, recvVars
<1>10. ASSUME NEW l \in Loops, ReadError(l) PROVE ChannelInv'
  BY <1>10, FirstLoop DEF ReadError, Goto, recvVars
<1>11. ASSUME NEW l \in Loops, ReadGarbage(l) PROVE ChannelInv'
  BY <1>11, FirstLoop DEF ReadGarbage, Goto, recvVars
<1>12. ASSUME NEW l \in Loops, ReadPong(l) PROVE ChannelInv'
  BY <1>12, FirstLoop DEF ReadPong, Goto, recvVars
<1>13. ASSUME NEW l \in Loops, ReadMessage(l) PROVE ChannelInv'
  BY <1>13, FirstLoop DEF ReadMessage, Goto, recvVars
<1>14. ASSUME NEW l \in Loops, ReadRequest(l) PROVE ChannelInv'
  BY <1>14, FirstLoop DEF ReadRequest, Goto, recvVars
<1>15. ASSUME NEW l \in Loops, HandOver(l) PROVE ChannelInv'
  BY <1>15, FirstLoop DEF HandOver, Goto, recvVars
<1>16. ASSUME NEW l \in Loops, SendReply(l) PROVE ChannelInv'
  BY <1>16, FirstLoop DEF SendReply, Goto, recvVars
<1>17. ASSUME NEW l \in Loops, LoopExit(l) PROVE ChannelInv'
  BY <1>17, FirstLoop DEF LoopExit, Goto, CloseLink, recvVars
<1>18. ASSUME NEW l \in Loops, LoopCheck(l) PROVE ChannelInv'
  BY <1>18, FirstLoop DEF LoopCheck, Goto, recvVars
<1>19. ASSUME NEW l \in Loops, LoopLock(l) PROVE ChannelInv'
  BY <1>19, FirstLoop DEF LoopLock, Goto, FreshChannels, recvVars
<1>20. ASSUME NEW l \in Loops, DialRetry(l) PROVE ChannelInv'
  BY <1>20 DEF DialRetry, recvVars
<1>21. ASSUME NEW l \in Loops, DialOk(l) PROVE ChannelInv'
  <2>1. pc[l] = "dialing" /\ l + 1 \in Loops
    BY <1>21 DEF DialOk, Loops
  <2>2. pc' = [pc EXCEPT ![l] = "unlock", ![l + 1] = "top"] /\ chan' = chan /\ todo' = todo
    BY <1>21 DEF DialOk, recvVars
  <2>3. \A r \in Receivers : chan[r] # "closed"
    BY <2>1
  <2>4. QED
    BY <2>1, <2>2, <2>3
<1>22. ASSUME NEW l \in Loops, LoopUnlock(l) PROVE ChannelInv'
  BY <1>22, FirstLoop DEF LoopUnlock, Goto, recvVars
<1>23. ASSUME NEW l \in Loops, DialExhausted(l) PROVE ChannelInv'
  BY <1>23, FirstLoop DEF DialExhausted, Goto, recvVars
<1>24. ASSUME NEW l \in Loops, LoopGiveUp(l) PROVE ChannelInv'
  BY <1>24, FirstLoop DEF LoopGiveUp, Goto, DoClose, CloseLink, recvVars
<1>25. ASSUME NEW l \in Loops, CloseRequestChannels(l) PROVE ChannelInv'
  BY <1>25, FirstLoop DEF CloseRequestChannels, CloseChannels, Goto, recvVars
<1>26. ASSUME NEW l \in Loops, CloseMessageChannels(l) PROVE ChannelInv'
  BY <1>26, FirstLoop DEF CloseMessageChannels, CloseChannels, Goto, recvVars
<1>27. CASE TickStop
  BY <1>27 DEF TickStop, recvVars
<1>28. CASE TickFire
  BY <1>28 DEF TickFire, recvVars
<1>29. CASE TickPing
  BY <1>29 DEF TickPing, recvVars
<1>30. CASE TickPingFailed
  BY <1>30 DEF TickPingFailed, recvVars
<1>31. CASE TickKill
  BY <1>31 DEF TickKill, recvVars
<1>32. CASE UNCHANGED vars
  BY <1>32 DEF vars
<1>33. QED
  BY <1>1, <1>2, <1>3, <1>4, <1>5, <1>6, <1>7, <1>8, <1>9, <1>10, <1>11, <1>12, <1>13, <1>14, <1>15, <1>16, <1>17, <1>18, <1>19, <1>20, <1>21, <1>22, <1>23, <1>24, <1>25, <1>26, <1>27, <1>28, <1>29, <1>30, <1>31, <1>32 DEF Next, CallerStep, LoopStep, LoopInput, TickStep

(* stop is set by Close alone.                                             *)
LEMMA StopStep == TypeOK /\ StopInv /\ [Next]_vars => StopInv'
<1> SUFFICES ASSUME TypeOK, StopInv, [Next]_vars PROVE StopInv'
  OBVIOUS
<1> USE DealerAssumption DEF TypeOK, StopInv, Loops
<1>1. CASE Connect
  BY <1>1 DEF Connect, FreshChannels, connVars
<1>2. CASE ConnectOk
  BY <1>2 DEF ConnectOk, NewConn, connVars
<1>3. CASE ConnectFail
  BY <1>3 DEF ConnectFail, connVars
<1>4. CASE Close
  BY <1>4 DEF Close, DoClose, CloseLink, connVars
<1>5. ASSUME NEW r \in Receivers, Register(r) PROVE StopInv'
  BY <1>5 DEF Register, Goto, connVars
<1>6. ASSUME NEW r \in Receivers, ConsumerDone(r) PROVE StopInv'
  BY <1>6 DEF ConsumerDone, connVars
<1>7. ASSUME NEW r \in Receivers, ConsumerLeaves(r) PROVE StopInv'
  BY <1>7 DEF ConsumerLeaves, connVars
<1>8. CASE Drop
  BY <1>8 DEF Drop, connVars
<1>9. ASSUME NEW l \in Loops, LoopTop(l) PROVE StopInv'
  BY <1>9 DEF LoopTop, Goto, connVars
<1>10. ASSUME NEW l \in Loops, ReadError(l) PROVE StopInv'
  BY <1>10 DEF ReadError, Goto, connVars
<1>11. ASSUME NEW l \in Loops, ReadGarbage(l) PROVE StopInv'
  BY <1>11 DEF ReadGarbage, Goto, connVars
<1>12. ASSUME NEW l \in Loops, ReadPong(l) PROVE StopInv'
  BY <1>12 DEF ReadPong, Goto, connVars
<1>13. ASSUME NEW l \in Loops, ReadMessage(l) PROVE StopInv'
  BY <1>13 DEF ReadMessage, Goto, connVars
<1>14. ASSUME NEW l \in Loops, ReadRequest(l) PROVE StopInv'
  BY <1>14 DEF ReadRequest, Goto, connVars
<1>15. ASSUME NEW l \in Loops, HandOver(l) PROVE StopInv'
  BY <1>15 DEF HandOver, Goto, connVars
<1>16. ASSUME NEW l \in Loops, SendReply(l) PROVE StopInv'
  BY <1>16 DEF SendReply, Goto, connVars
<1>17. ASSUME NEW l \in Loops, LoopExit(l) PROVE StopInv'
  BY <1>17 DEF LoopExit, Goto, CloseLink, connVars
<1>18. ASSUME NEW l \in Loops, LoopCheck(l) PROVE StopInv'
  BY <1>18 DEF LoopCheck, Goto, connVars
<1>19. ASSUME NEW l \in Loops, LoopLock(l) PROVE StopInv'
  BY <1>19 DEF LoopLock, Goto, FreshChannels, connVars
<1>20. ASSUME NEW l \in Loops, DialRetry(l) PROVE StopInv'
  BY <1>20 DEF DialRetry, FreshChannels, connVars
<1>21. ASSUME NEW l \in Loops, DialOk(l) PROVE StopInv'
  BY <1>21 DEF DialOk, NewConn, connVars
<1>22. ASSUME NEW l \in Loops, LoopUnlock(l) PROVE StopInv'
  BY <1>22 DEF LoopUnlock, Goto, connVars
<1>23. ASSUME NEW l \in Loops, DialExhausted(l) PROVE StopInv'
  BY <1>23 DEF DialExhausted, Goto, connVars
<1>24. ASSUME NEW l \in Loops, LoopGiveUp(l) PROVE StopInv'
  BY <1>24 DEF LoopGiveUp, Goto, DoClose, CloseLink, connVars
<1>25. ASSUME NEW l \in Loops, CloseRequestChannels(l) PROVE StopInv'
  BY <1>25 DEF CloseRequestChannels, CloseChannels, Goto, connVars
<1>26. ASSUME NEW l \in Loops, CloseMessageChannels(l) PROVE StopInv'
  BY <1>26 DEF CloseMessageChannels, CloseChannels, Goto, connVars
<1>27. CASE TickStop
  BY <1>27 DEF TickStop, connVars
<1>28. CASE TickFire
  BY <1>28 DEF TickFire, connVars
<1>29. CASE TickPing
  BY <1>29 DEF TickPing, connVars
<1>30. CASE TickPingFailed
  BY <1>30 DEF TickPingFailed, connVars
<1>31. CASE TickKill
  BY <1>31 DEF TickKill, CloseLink, connVars
<1>32. CASE UNCHANGED vars
  BY <1>32 DEF vars
<1>33. QED
  BY <1>1, <1>2, <1>3, <1>4, <1>5, <1>6, <1>7, <1>8, <1>9, <1>10, <1>11, <1>12, <1>13, <1>14, <1>15, <1>16, <1>17, <1>18, <1>19, <1>20, <1>21, <1>22, <1>23, <1>24, <1>25, <1>26, <1>27, <1>28, <1>29, <1>30, <1>31, <1>32 DEF Next, CallerStep, LoopStep, LoopInput, TickStep

(* The inductive invariant holds in every reachable state.                  *)
THEOREM SafetyInvariant == Spec => []IInv
<1>1. Init => IInv
  <2> SUFFICES ASSUME Init PROVE Lineage /\ ChannelInv /\ StopInv
    BY TypeInit DEF IInv
  <2>1. Lineage
    BY DEF Init, Lineage, Loops
  <2>2. ChannelInv
    BY DEF Init, ChannelInv, Active, LoopStates
  <2>3. StopInv
    BY DEF Init, StopInv
  <2>4. QED
    BY <2>1, <2>2, <2>3
<1>2. IInv /\ [Next]_vars => IInv'
  BY TypeStep, LineageStep, ChannelStep, StopStep DEF IInv
<1>3. QED
  BY <1>1, <1>2, PTL DEF Spec

(* Only one goroutine reads the WebSocket, however many reconnections there *)
(* have been and whatever the caller does.                                  *)
THEOREM OneReaderHolds == Spec => []OneReader
<1>1. IInv => OneReader
  BY LineageGivesOneReader DEF IInv
<1>2. QED
  BY <1>1, SafetyInvariant, PTL

(* recvLoop never sends on a closed receiver channel and never closes one   *)
(* twice.                                                                   *)
THEOREM NoSendOnClosedHolds == Spec => []NoSendOnClosed
<1>1. IInv => NoSendOnClosed
  BY DEF IInv, ChannelInv, NoSendOnClosed, TypeOK, Active, LoopStates
<1>2. QED
  BY <1>1, SafetyInvariant, PTL

-----------------------------------------------------------------------------
(* Without a re-Connect a dial happens only on a closed socket.            *)
LEMMA SocketStep == TypeOK /\ Lineage /\ SocketInv /\ [Next]_vars => SocketInv'
<1> SUFFICES ASSUME TypeOK, Lineage, SocketInv, ~reopened', [Next]_vars PROVE SocketInv'
  BY DEF SocketInv
<1> OneReader
  BY LineageGivesOneReader
<1> USE DealerAssumption DEF TypeOK, SocketInv, OneReader, Active, LoopStates, Conns, Loops, Free, Caller
<1>1. CASE Connect
  BY <1>1 DEF Connect, FreshChannels, connVars
<1>2. CASE ConnectOk
  BY <1>2 DEF ConnectOk, NewConn, connVars
<1>3. CASE ConnectFail
  BY <1>3 DEF ConnectFail, connVars
<1>4. CASE Close
  BY <1>4 DEF Close, DoClose, CloseLink, connVars
<1>5. ASSUME NEW r \in Receivers, Register(r) PROVE SocketInv'
  BY <1>5 DEF Register, Goto, connVars
<1>6. ASSUME NEW r \in Receivers, ConsumerDone(r) PROVE SocketInv'
  BY <1>6 DEF ConsumerDone, connVars
<1>7. ASSUME NEW r \in Receivers, ConsumerLeaves(r) PROVE SocketInv'
  BY <1>7 DEF ConsumerLeaves, connVars
<1>8. CASE Drop
  BY <1>8 DEF Drop, connVars
<1>9. ASSUME NEW l \in Loops, LoopTop(l) PROVE SocketInv'
  BY <1>9 DEF LoopTop, Goto, connVars
<1>10. ASSUME NEW l \in Loops, ReadError(l) PROVE SocketInv'
  BY <1>10 DEF ReadError, Goto, connVars
<1>11. ASSUME NEW l \in Loops, ReadGarbage(l) PROVE SocketInv'
  BY <1>11 DEF ReadGarbage, Goto, connVars
<1>12. ASSUME NEW l \in Loops, ReadPong(l) PROVE SocketInv'
  BY <1>12 DEF ReadPong, Goto, connVars
<1>13. ASSUME NEW l \in Loops, ReadMessage(l) PROVE SocketInv'
  BY <1>13 DEF ReadMessage, Goto, connVars
<1>14. ASSUME NEW l \in Loops, ReadRequest(l) PROVE SocketInv'
  BY <1>14 DEF ReadRequest, Goto, connVars
<1>15. ASSUME NEW l \in Loops, HandOver(l) PROVE SocketInv'
  BY <1>15 DEF HandOver, Goto, connVars
<1>16. ASSUME NEW l \in Loops, SendReply(l) PROVE SocketInv'
  BY <1>16 DEF SendReply, Goto, connVars
<1>17. ASSUME NEW l \in Loops, LoopExit(l) PROVE SocketInv'
  BY <1>17 DEF LoopExit, Goto, CloseLink, connVars
<1>18. ASSUME NEW l \in Loops, LoopCheck(l) PROVE SocketInv'
  BY <1>18 DEF LoopCheck, Goto, connVars
<1>19. ASSUME NEW l \in Loops, LoopLock(l) PROVE SocketInv'
  BY <1>19 DEF LoopLock, Goto, FreshChannels, connVars
<1>20. ASSUME NEW l \in Loops, DialRetry(l) PROVE SocketInv'
  BY <1>20 DEF DialRetry, FreshChannels, connVars
<1>21. ASSUME NEW l \in Loops, DialOk(l) PROVE SocketInv'
  <2>1. /\ pc[l] = "dialing" /\ l + 1 \in Loops
        /\ pc' = [pc EXCEPT ![l] = "unlock", ![l + 1] = "top"]
        /\ lock' = lock /\ reading' = reading /\ reopened' = reopened
    BY <1>21 DEF DialOk
  <2>2. conn' = conn + 1 /\ conn + 1 \in Conns /\ link' = [link EXCEPT ![conn + 1] = "open"]
    BY <1>21 DEF DialOk, NewConn
  <2>3. conn # 0 /\ lock # Caller /\ \A c \in Conns : c <= conn => link[c] = "closed"
    BY <2>1
  <2>4. \A k \in Loops : pc'[k] \notin {"check", "wantLock", "dialing", "read", "deliver", "await", "reply"}
    BY <2>1
  <2>5. \A c \in Conns : c < conn' => link'[c] = "closed"
    BY <2>2, <2>3
  <2>6. conn' # 0 /\ lock' # Caller
    BY <2>1, <2>2, <2>3
  <2>7. QED
    BY <2>4, <2>5, <2>6
<1>22. ASSUME NEW l \in Loops, LoopUnlock(l) PROVE SocketInv'
  BY <1>22 DEF LoopUnlock, Goto, connVars
<1>23. ASSUME NEW l \in Loops, DialExhausted(l) PROVE SocketInv'
  BY <1>23 DEF DialExhausted, Goto, connVars
<1>24. ASSUME NEW l \in Loops, LoopGiveUp(l) PROVE SocketInv'
  BY <1>24 DEF LoopGiveUp, Goto, DoClose, CloseLink, connVars
<1>25. ASSUME NEW l \in Loops, CloseRequestChannels(l) PROVE SocketInv'
  BY <1>25 DEF CloseRequestChannels, CloseChannels, Goto, connVars
<1>26. ASSUME NEW l \in Loops, CloseMessageChannels(l) PROVE SocketInv'
  BY <1>26 DEF CloseMessageChannels, CloseChannels, Goto, connVars
<1>27. CASE TickStop
  BY <1>27 DEF TickStop, connVars
<1>28. CASE TickFire
  BY <1>28 DEF TickFire, connVars
<1>29. CASE TickPing
  BY <1>29 DEF TickPing, connVars
<1>30. CASE TickPingFailed
  BY <1>30 DEF TickPingFailed, connVars
<1>31. CASE TickKill
  BY <1>31 DEF TickKill, CloseLink, connVars
<1>32. CASE UNCHANGED vars
  BY <1>32 DEF vars
<1>33. QED
  BY <1>1, <1>2, <1>3, <1>4, <1>5, <1>6, <1>7, <1>8, <1>9, <1>10, <1>11, <1>12, <1>13, <1>14, <1>15, <1>16, <1>17, <1>18, <1>19, <1>20, <1>21, <1>22, <1>23, <1>24, <1>25, <1>26, <1>27, <1>28, <1>29, <1>30, <1>31, <1>32 DEF Next, CallerStep, LoopStep, LoopInput, TickStep

(* So what is said about sockets holds in every reachable state.           *)
LEMMA SocketInvariant == Spec => []SocketInv
<1>1. Init => SocketInv
  BY DealerAssumption DEF Init, SocketInv, Free, Caller, Conns, Loops
<1>2. IInv /\ SocketInv /\ [Next]_vars => SocketInv'
  BY SocketStep DEF IInv
<1>3. QED
  BY <1>1, <1>2, SafetyInvariant, PTL DEF Spec

(* Until the caller connects again after Close no socket leaks: each        *)
(* connection is closed before the next one is dialled.                     *)
THEOREM NoLeakedConnectionHolds == Spec => []NoLeakedConnection
<1>1. SocketInv => NoLeakedConnection
  BY DEF SocketInv, NoLeakedConnection
<1>2. QED
  BY <1>1, SocketInvariant, PTL

(* And a request is answered on the connection it came from.                *)
THEOREM ReplyOnSameConnectionHolds == Spec => []ReplyOnSameConnection
<1>1. SocketInv => ReplyOnSameConnection
  BY DEF SocketInv, ReplyOnSameConnection
<1>2. QED
  BY <1>1, SocketInvariant, PTL

-----------------------------------------------------------------------------
(* Every step is one of the contract or leaves its variables alone.        *)
LEMMA ContractStep == IInv /\ [Next]_vars => [Contract!Next]_(Contract!vars)
<1> SUFFICES ASSUME IInv, [Next]_vars PROVE [Contract!Next]_(Contract!vars)
  OBVIOUS
<1>1. CASE Connect
  BY <1>1 DEF Connect, FreshChannels, connVars, recvVars, Contract!vars
<1>2. CASE ConnectOk
  BY <1>2 DEF ConnectOk, NewConn, connVars, recvVars, Contract!vars
<1>3. CASE ConnectFail
  BY <1>3 DEF ConnectFail, connVars, recvVars, Contract!vars
<1>4. CASE Close
  BY <1>4 DEF Close, DoClose, recvVars, Contract!Next, Contract!Close
<1>5. ASSUME NEW r \in Receivers, Register(r) PROVE [Contract!Next]_(Contract!vars)
  BY <1>5 DEF Register, connVars, Contract!Next, Contract!Register
<1>6. ASSUME NEW r \in Receivers, ConsumerDone(r) PROVE [Contract!Next]_(Contract!vars)
  BY <1>6 DEF ConsumerDone, connVars, Contract!Next, Contract!Finish
<1>7. ASSUME NEW r \in Receivers, ConsumerLeaves(r) PROVE [Contract!Next]_(Contract!vars)
  BY <1>7 DEF ConsumerLeaves, connVars, Contract!Next, Contract!Leave
<1>8. CASE Drop
  BY <1>8 DEF Drop, connVars, recvVars, Contract!vars
<1>9. ASSUME NEW l \in Loops, LoopTop(l) PROVE [Contract!Next]_(Contract!vars)
  BY <1>9 DEF LoopTop, Goto, connVars, recvVars, Contract!vars
<1>10. ASSUME NEW l \in Loops, ReadError(l) PROVE [Contract!Next]_(Contract!vars)
  BY <1>10 DEF ReadError, Goto, connVars, recvVars, Contract!vars
<1>11. ASSUME NEW l \in Loops, ReadGarbage(l) PROVE [Contract!Next]_(Contract!vars)
  BY <1>11 DEF ReadGarbage, Goto, connVars, recvVars, Contract!vars
<1>12. ASSUME NEW l \in Loops, ReadPong(l) PROVE [Contract!Next]_(Contract!vars)
  BY <1>12 DEF ReadPong, Goto, connVars, recvVars, Contract!vars
<1>13. ASSUME NEW l \in Loops, ReadMessage(l) PROVE [Contract!Next]_(Contract!vars)
  BY <1>13 DEF ReadMessage, Goto, connVars, recvVars, Contract!vars
<1>14. ASSUME NEW l \in Loops, ReadRequest(l) PROVE [Contract!Next]_(Contract!vars)
  BY <1>14 DEF ReadRequest, Goto, connVars, recvVars, Contract!vars
<1>15. ASSUME NEW l \in Loops, HandOver(l) PROVE [Contract!Next]_(Contract!vars)
  <2>1. PICK r \in todo[l] : cons[r] = "idle" /\ cons' = [cons EXCEPT ![r] = "busy"]
    BY <1>15 DEF HandOver
  <2>2. r \in Receivers /\ chan[r] = "open"
    BY <1>15, <2>1 DEF HandOver, IInv, ChannelInv, TypeOK
  <2>3. Contract!HandOver(r)
    BY <1>15, <2>1, <2>2 DEF HandOver, connVars, Contract!HandOver
  <2>4. QED
    BY <2>2, <2>3 DEF Contract!Next
<1>16. ASSUME NEW l \in Loops, SendReply(l) PROVE [Contract!Next]_(Contract!vars)
  BY <1>16 DEF SendReply, Goto, connVars, recvVars, Contract!vars
<1>17. ASSUME NEW l \in Loops, LoopExit(l) PROVE [Contract!Next]_(Contract!vars)
  BY <1>17 DEF LoopExit, Goto, CloseLink, connVars, recvVars, Contract!vars
<1>18. ASSUME NEW l \in Loops, LoopCheck(l) PROVE [Contract!Next]_(Contract!vars)
  BY <1>18 DEF LoopCheck, Goto, connVars, recvVars, Contract!vars
<1>19. ASSUME NEW l \in Loops, LoopLock(l) PROVE [Contract!Next]_(Contract!vars)
  BY <1>19 DEF LoopLock, Goto, FreshChannels, connVars, recvVars, Contract!vars
<1>20. ASSUME NEW l \in Loops, DialRetry(l) PROVE [Contract!Next]_(Contract!vars)
  BY <1>20 DEF DialRetry, FreshChannels, connVars, recvVars, Contract!vars
<1>21. ASSUME NEW l \in Loops, DialOk(l) PROVE [Contract!Next]_(Contract!vars)
  BY <1>21 DEF DialOk, NewConn, connVars, recvVars, Contract!vars
<1>22. ASSUME NEW l \in Loops, LoopUnlock(l) PROVE [Contract!Next]_(Contract!vars)
  BY <1>22 DEF LoopUnlock, Goto, connVars, recvVars, Contract!vars
<1>23. ASSUME NEW l \in Loops, DialExhausted(l) PROVE [Contract!Next]_(Contract!vars)
  BY <1>23 DEF DialExhausted, Goto, connVars, recvVars, Contract!vars
<1>24. ASSUME NEW l \in Loops, LoopGiveUp(l) PROVE [Contract!Next]_(Contract!vars)
  BY <1>24 DEF LoopGiveUp, DoClose, recvVars, Contract!Next, Contract!Close
<1>25. ASSUME NEW l \in Loops, CloseRequestChannels(l) PROVE [Contract!Next]_(Contract!vars)
  <2> DEFINE S == {r \in RequestReceivers : chan[r] # "none"}
  <2>1. everClosed /\ \A r \in S : chan[r] = "open"
    BY <1>25, DealerAssumption DEF CloseRequestChannels, IInv, StopInv, ChannelInv, TypeOK, Active, LoopStates
  <2>2. S \in SUBSET Receivers
    BY DealerAssumption
  <2>3. chan' = [r \in Receivers |-> IF r \in S THEN "closed" ELSE chan[r]]
    BY <1>25, DealerAssumption DEF CloseRequestChannels, CloseChannels
  <2>4. Contract!CloseChannels(S)
    BY <1>25, <2>1, <2>3 DEF CloseRequestChannels, connVars, Contract!CloseChannels
  <2>5. QED
    BY <2>2, <2>4 DEF Contract!Next
<1>26. ASSUME NEW l \in Loops, CloseMessageChannels(l) PROVE [Contract!Next]_(Contract!vars)
  <2> DEFINE S == {r \in Receivers \ RequestReceivers : chan[r] # "none"}
  <2>1. everClosed /\ \A r \in S : chan[r] = "open"
    BY <1>26 DEF CloseMessageChannels, IInv, StopInv, ChannelInv, TypeOK, Active, LoopStates
  <2>2. S \in SUBSET Receivers
    BY DealerAssumption
  <2>3. chan' = [r \in Receivers |-> IF r \in S THEN "closed" ELSE chan[r]]
    BY <1>26, DealerAssumption DEF CloseMessageChannels, CloseChannels
  <2>4. Contract!CloseChannels(S)
    BY <1>26, <2>1, <2>3 DEF CloseMessageChannels, connVars, Contract!CloseChannels
  <2>5. QED
    BY <2>2, <2>4 DEF Contract!Next
<1>27. CASE TickStop
  BY <1>27 DEF TickStop, connVars, recvVars, Contract!vars
<1>28. CASE TickFire
  BY <1>28 DEF TickFire, connVars, recvVars, Contract!vars
<1>29. CASE TickPing
  BY <1>29 DEF TickPing, connVars, recvVars, Contract!vars
<1>30. CASE TickPingFailed
  BY <1>30 DEF TickPingFailed, connVars, recvVars, Contract!vars
<1>31. CASE TickKill
  BY <1>31 DEF TickKill, CloseLink, connVars, recvVars, Contract!vars
<1>32. CASE UNCHANGED vars
  BY <1>32 DEF vars, Contract!vars
<1>33. QED
  BY <1>1, <1>2, <1>3, <1>4, <1>5, <1>6, <1>7, <1>8, <1>9, <1>10, <1>11, <1>12, <1>13, <1>14, <1>15, <1>16, <1>17, <1>18, <1>19, <1>20, <1>21, <1>22, <1>23, <1>24, <1>25, <1>26, <1>27, <1>28, <1>29, <1>30, <1>31, <1>32 DEF Next, CallerStep, LoopStep, LoopInput, TickStep

(* The dealer implements the life cycle of ReceiverContract: messages are   *)
(* handed over on open channels only, and channels are closed once and only *)
(* after Close.                                                             *)
THEOREM ImplementsContract == Spec => KeepsContract
<1>1. Init => Contract!Init
  BY DEF Init, Contract!Init
<1>2. QED
  BY <1>1, ContractStep, SafetyInvariant, PTL DEF Spec, KeepsContract, Contract!Spec
============================================================================
