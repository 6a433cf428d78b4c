---------------------------- MODULE Accesspoint ----------------------------
(***************************************************************************)
(* ap/ap.go: the encrypted TCP connection to an access point.  Connect and *)
(* reconnect run the same attempt (init, dial, handshake) under connMu;    *)
(* recvLoop reads packets and reconnects; pongAckTicker closes a           *)
(* connection that has been silent, without any lock.                      *)
(*                                                                         *)
(* Every step is what one goroutine does between two points at which       *)
(* another may be scheduled, as in Dealer.  Cryptography, the contents of  *)
(* packets and Send, which changes no state here, are left out.            *)
(***************************************************************************)
EXTENDS Integers

CONSTANTS MaxConns,     \* connections ever dialled successfully
          MaxLoops,     \* goroutines that ever run recvLoop
          MaxReceivers, \* calls of Receive
          MaxAttempts,  \* attempts of one Connect (6 in the code) or reconnect
          Leaves        \* may the reader of a receiver channel go away?

Conns     == 1 .. MaxConns
Loops     == 1 .. MaxLoops
Receivers == 1 .. MaxReceivers      \* in the order of registration

ASSUME AccesspointAssumption ==
    /\ MaxConns \in Nat \ {0} /\ MaxLoops \in Nat \ {0} /\ MaxReceivers \in Nat
    /\ MaxAttempts \in Nat \ {0} /\ Leaves \in BOOLEAN

VARIABLES
    stop,       \* ap.stop, which nothing ever clears
    everClosed, \* history: has Close run to its end at least once?
    closedConn, \* history: the connection the last Close found, when there had
                \* been a welcome before it; 0 otherwise
    welcomed,   \* ap.welcome # nil
    conn,       \* ap.conn: 0 is nil, otherwise the number of the connection
    dialled,    \* connections dialled so far
    enc,        \* ap.encConn, by the connection it encrypts
    link,       \* link[c]: "none" | "open" | "silent" (peer gone, no error) | "closed"
    lock,       \* the writer of connMu: Free, Caller or the number of a loop
    phase,      \* how far the lock holder's attempt is; see Phases
    attempts,   \* attempts of the lock holder's back-off
    recvStop,   \* is a token in ap.recvLoopStop?
    tickStop,   \* is a token in ap.pongAckTickerStop?
    tick,       \* where pongAckTicker is; see TickStates
    quiet,      \* ticks since ap.lastPongAck, saturating at 2
    pc,         \* pc[l]: where loop l is; see LoopStates
    reading,    \* reading[l]: the connection whose Read l is blocked in
    todo,       \* todo[l]: receivers l has still to send the packet to
    chan,       \* chan[r]: "none" | "open" | "closed"
    cons,       \* cons[r]: its reader is "idle" | "busy" | "gone"
    crashed     \* a method was called on a nil connection

stopVars == <<stop, everClosed, closedConn>>
connVars == <<welcomed, conn, dialled, enc, link, lock, phase, attempts>>
tickVars == <<tick, quiet>>
loopVars == <<pc, reading, todo>>
chanVars == <<chan, cons>>
vars == <<stopVars, connVars, recvStop, tickStop, tickVars, loopVars, chanVars, crashed>>

Free   == 0
Caller == -1

Phases     == {"none", "init", "dial", "shake", "failed"}
TickStates == {"off", "select", "stale", "staleToken", "kill", "done"}
Selecting  == {"select", "stale", "staleToken"}
LoopStates == {"unborn", "top", "read", "pong", "deliver", "exit", "check",
               "wantLock", "connecting", "unlock", "giveUp", "closing", "dead"}

\* The states in which a loop is the one that reads the connection and owns
\* the receiver channels.
Active == LoopStates \ {"unborn", "unlock", "giveUp", "dead"}

TypeOK ==
    /\ stop \in BOOLEAN /\ everClosed \in BOOLEAN /\ welcomed \in BOOLEAN
    /\ closedConn \in 0 .. MaxConns
    /\ conn \in 0 .. MaxConns /\ dialled \in 0 .. MaxConns /\ enc \in 0 .. MaxConns
    /\ link \in [Conns -> {"none", "open", "silent", "closed"}]
    /\ lock \in {Free, Caller} \cup Loops
    /\ phase \in Phases /\ attempts \in 0 .. MaxAttempts
    /\ recvStop \in BOOLEAN /\ tickStop \in BOOLEAN
    /\ tick \in TickStates /\ quiet \in 0 .. 2
    /\ pc \in [Loops -> LoopStates]
    /\ reading \in [Loops -> 0 .. MaxConns]
    /\ todo \in [Loops -> SUBSET Receivers]
    /\ chan \in [Receivers -> {"none", "open", "closed"}]
    /\ cons \in [Receivers -> {"idle", "busy", "gone"}]
    /\ crashed \in BOOLEAN

Init ==
    /\ stop = FALSE /\ everClosed = FALSE /\ closedConn = 0 /\ welcomed = FALSE
    /\ conn = 0 /\ dialled = 0 /\ enc = 0
    /\ link = [c \in Conns |-> "none"]
    /\ lock = Free /\ phase = "none" /\ attempts = 0
    /\ recvStop = FALSE /\ tickStop = FALSE
    /\ tick = "off" /\ quiet = 0
    /\ pc = [l \in Loops |-> "unborn"]
    /\ reading = [l \in Loops |-> 0]
    /\ todo = [l \in Loops |-> {}]
    /\ chan = [r \in Receivers |-> "none"]
    /\ cons = [r \in Receivers |-> "idle"]
    /\ crashed = FALSE

Goto(l, s) == pc' = [pc EXCEPT ![l] = s]

\* conn.Close: idempotent, but not on nil.
CloseLink(c) == link' = IF c = 0 THEN link ELSE [link EXCEPT ![c] = "closed"]

-----------------------------------------------------------------------------
\* connMu and the attempts that Connect and reconnect make under it.

TakeLock(h) ==
    /\ lock = Free
    /\ lock' = h
    /\ phase' = "init" /\ attempts' = 1

\* Slip: the previous connection is forgotten without being closed.
StartAttemptKeepingOld ==
    /\ phase = "init"
    /\ phase' = "dial"
    /\ conn' = 0
    /\ recvStop' = FALSE /\ tickStop' = FALSE
    /\ tick' = CASE tick = "select" /\ tickStop  -> "staleToken"
                 [] tick = "select" /\ ~tickStop -> "stale"
                 [] OTHER -> tick
    /\ UNCHANGED <<link, stopVars, welcomed, dialled, enc, lock, attempts, quiet, loopVars, chanVars, crashed>>

\* connect and init up to the dial: fresh stop channels, which a ticker that
\* is blocked in its select does not see, and no connection any more.
StartAttempt ==
    /\ phase = "init"
    /\ phase' = "dial"
    /\ CloseLink(conn) /\ conn' = 0
    /\ recvStop' = FALSE /\ tickStop' = FALSE
    /\ tick' = CASE tick = "select" /\ tickStop  -> "staleToken"
                 [] tick = "select" /\ ~tickStop -> "stale"
                 [] OTHER -> tick
    /\ UNCHANGED <<stopVars, welcomed, dialled, enc, lock, attempts, quiet, loopVars, chanVars, crashed>>

\* One of up to six addresses takes the connection.
DialOk ==
    /\ phase = "dial" /\ dialled < MaxConns
    /\ phase' = "shake"
    /\ dialled' = dialled + 1 /\ conn' = dialled + 1
    /\ link' = [link EXCEPT ![dialled + 1] = "open"]
    /\ UNCHANGED <<stopVars, welcomed, enc, lock, attempts, recvStop, tickStop, tickVars, loopVars, chanVars, crashed>>

DialFails ==
    /\ phase = "dial"
    /\ phase' = "failed"
    /\ UNCHANGED <<stopVars, welcomed, conn, dialled, enc, link, lock, attempts, recvStop, tickStop, tickVars, loopVars, chanVars, crashed>>

\* performKeyExchange, solveChallenge and authenticate: an error of the
\* network, before or after encConn was set, or a login that is refused.  The
\* connection stays open.  With a silent peer none of them returns.
ShakeFails ==
    /\ phase = "shake" /\ link[conn] # "silent"
    /\ phase' = "failed"
    /\ enc' \in {enc, conn}
    /\ UNCHANGED <<stopVars, welcomed, conn, dialled, link, lock, attempts, recvStop, tickStop, tickVars, loopVars, chanVars, crashed>>

\* backoff.Retry starts the next attempt.  What the error was makes no
\* difference, even a refused login (the README, other divergences).
TryAgain ==
    /\ phase = "failed" /\ attempts < MaxAttempts
    /\ attempts' = attempts + 1
    /\ phase' = "init"
    /\ UNCHANGED <<stopVars, welcomed, conn, dialled, enc, link, lock, recvStop, tickStop, tickVars, loopVars, chanVars, crashed>>

\* The back-off or the context ran out.
Exhausted(h) ==
    /\ phase = "failed" /\ lock = h
    /\ phase' = "none" /\ lock' = Free
    /\ UNCHANGED <<stopVars, welcomed, conn, dialled, enc, link, attempts, recvStop, tickStop, quiet, tick, reading, todo, chanVars, crashed>>

ShakeOk(h) ==
    /\ phase = "shake" /\ lock = h /\ link[conn] = "open"
    /\ phase' = "none"
    /\ enc' = conn /\ welcomed' = TRUE
    /\ UNCHANGED <<stopVars, conn, dialled, link, attempts, recvStop, tickStop, tickVars, reading, todo, chanVars, crashed>>

Attempt == StartAttempt \/ DialOk \/ DialFails \/ ShakeFails \/ TryAgain

-----------------------------------------------------------------------------
\* The caller

Connect ==
    /\ ~welcomed
    /\ TakeLock(Caller)
    /\ UNCHANGED <<stopVars, welcomed, conn, dialled, enc, link, recvStop, tickStop, tickVars, loopVars, chanVars, crashed>>

ConnectOk == ShakeOk(Caller) /\ lock' = Free /\ UNCHANGED pc

ConnectFails == Exhausted(Caller) /\ UNCHANGED pc

\* Receive: add the channel, and on the first call start recvLoop and
\* pongAckTicker.  The program registers after it connected.
Receive(r) ==
    /\ welcomed
    /\ chan[r] = "none" /\ \A q \in Receivers : q < r => chan[q] # "none"
    /\ chan' = [chan EXCEPT ![r] = "open"]
    /\ IF pc[1] = "unborn"
       THEN Goto(1, "top") /\ tick' = "select" /\ quiet' = 0
       ELSE UNCHANGED <<pc, tick, quiet>>
    /\ UNCHANGED <<stopVars, connVars, recvStop, tickStop, reading, todo, cons, crashed>>

\* Slip: Close does not think of the ticker.
DoCloseForgettingTicker ==
    /\ lock = Free
    /\ stop' = TRUE /\ everClosed' = TRUE
    /\ closedConn' = IF welcomed THEN conn ELSE 0
    /\ recvStop' = (conn # 0 \/ recvStop)
    /\ CloseLink(conn)
    /\ UNCHANGED <<welcomed, conn, dialled, enc, lock, phase, attempts, tickStop>>

\* Close under connMu; without a connection it signals nobody.
DoClose ==
    /\ lock = Free
    /\ stop' = TRUE /\ everClosed' = TRUE
    /\ closedConn' = IF welcomed THEN conn ELSE 0
    /\ recvStop' = (conn # 0 \/ recvStop)
    /\ tickStop' = (conn # 0 \/ tickStop)
    /\ CloseLink(conn)
    /\ UNCHANGED <<welcomed, conn, dialled, enc, lock, phase, attempts>>

\* Slip: Close itself closes the receiver channels.
CloseWithChannels ==
    /\ DoClose
    /\ chan' = [r \in Receivers |-> IF chan[r] = "none" THEN "none" ELSE "closed"]
    /\ UNCHANGED <<tickVars, loopVars, cons, crashed>>

Close == DoClose /\ UNCHANGED <<tickVars, loopVars, chanVars, crashed>>

\* The goroutine that reads channel r comes back to it.
ConsumerDone(r) ==
    /\ cons[r] = "busy"
    /\ cons' = [cons EXCEPT ![r] = "idle"]
    /\ UNCHANGED <<stopVars, connVars, recvStop, tickStop, tickVars, loopVars, chan, crashed>>

\* It returns without draining its channel, as Mercury.Close makes it do.
ConsumerLeaves(r) ==
    /\ Leaves /\ chan[r] # "none" /\ cons[r] # "gone"
    /\ cons' = [cons EXCEPT ![r] = "gone"]
    /\ UNCHANGED <<stopVars, connVars, recvStop, tickStop, tickVars, loopVars, chan, crashed>>

\* The network breaks the connection.
Drop ==
    /\ conn # 0 /\ link[conn] = "open"
    /\ \E s \in {"silent", "closed"} : link' = [link EXCEPT ![conn] = s]
    /\ UNCHANGED <<stopVars, welcomed, conn, dialled, enc, lock, phase, attempts, recvStop, tickStop, tickVars, loopVars, chanVars, crashed>>

-----------------------------------------------------------------------------
\* recvLoop

\* The select at the top, and receivePacket on the current encConn.
LoopTop(l) ==
    /\ pc[l] = "top"
    /\ IF recvStop
       THEN Goto(l, "exit") /\ recvStop' = FALSE /\ UNCHANGED reading
       ELSE Goto(l, "read") /\ reading' = [reading EXCEPT ![l] = enc] /\ UNCHANGED recvStop
    /\ UNCHANGED <<stopVars, connVars, tickStop, tickVars, todo, chanVars, crashed>>

\* receivePacket fails: closed, or a packet whose MAC is wrong.
ReadError(l) ==
    /\ pc[l] = "read" /\ link[reading[l]] # "silent"
    /\ Goto(l, "exit")
    /\ UNCHANGED <<stopVars, connVars, recvStop, tickStop, tickVars, reading, todo, chanVars, crashed>>

Reads(l) == pc[l] = "read" /\ link[reading[l]] = "open"
              /\ UNCHANGED <<stopVars, connVars, recvStop, tickStop, tick, reading, chanVars, crashed>>

ReadPing(l) == Reads(l) /\ Goto(l, "pong") /\ UNCHANGED <<quiet, todo>>

ReadPongAck(l) == Reads(l) /\ Goto(l, "top") /\ quiet' = 0 /\ UNCHANGED todo

\* The receivers registered for the type of the packet, perhaps none.
ReadPacket(l) ==
    /\ Reads(l)
    /\ \E S \in SUBSET {r \in Receivers : chan[r] # "none"} :
         /\ todo' = [todo EXCEPT ![l] = S]
         /\ Goto(l, IF S = {} THEN "top" ELSE "deliver")
    /\ UNCHANGED quiet

\* The answer to a ping goes out on encConn, without connMu.
SendPong(l) ==
    /\ pc[l] = "pong"
    /\ \/ link[enc] # "closed" /\ Goto(l, "top")
       \/ link[enc] # "open" /\ Goto(l, "exit")
    /\ UNCHANGED <<stopVars, connVars, recvStop, tickStop, tickVars, reading, todo, chanVars, crashed>>

\* One unbuffered send: it happens when the reader is at its receive.
HandOver(l) ==
    /\ pc[l] = "deliver"
    /\ \E r \in todo[l] :
         /\ \A q \in todo[l] : r <= q
         /\ cons[r] = "idle"
         /\ cons' = [cons EXCEPT ![r] = "busy"]
         /\ todo' = [todo EXCEPT ![l] = @ \ {r}]
         /\ Goto(l, IF todo[l] = {r} THEN "top" ELSE "deliver")
    /\ UNCHANGED <<stopVars, connVars, recvStop, tickStop, tickVars, reading, chan, crashed>>

\* "Always close": ap.conn is read again, without connMu.
LoopExit(l) ==
    /\ pc[l] = "exit"
    /\ CloseLink(conn)
    /\ crashed' = (conn = 0)
    /\ Goto(l, "check")
    /\ UNCHANGED <<stopVars, welcomed, conn, dialled, enc, lock, phase, attempts, recvStop, tickStop, tickVars, reading, todo, chanVars>>

\* Slip: the test the wrong way round.
LoopCheckNegated(l) ==
    /\ pc[l] = "check"
    /\ Goto(l, IF stop THEN "wantLock" ELSE "closing")
    /\ UNCHANGED <<stopVars, connVars, recvStop, tickStop, tickVars, reading, todo, chanVars, crashed>>

\* The test of ap.stop that decides between shutdown and reconnection.
LoopCheck(l) ==
    /\ pc[l] = "check"
    /\ Goto(l, IF stop THEN "closing" ELSE "wantLock")
    /\ UNCHANGED <<stopVars, connVars, recvStop, tickStop, tickVars, reading, todo, chanVars, crashed>>

LoopLock(l) ==
    /\ pc[l] = "wantLock"
    /\ TakeLock(l)
    /\ Goto(l, "connecting")
    /\ UNCHANGED <<stopVars, welcomed, conn, dialled, enc, link, recvStop, tickStop, tickVars, reading, todo, chanVars, crashed>>

\* reconnect succeeds and starts the next recvLoop, still under connMu.
Reconnected(l) ==
    /\ l < MaxLoops
    /\ ShakeOk(l) /\ UNCHANGED lock
    /\ pc' = [pc EXCEPT ![l] = "unlock", ![l + 1] = "top"]

\* Slip: a continue where the return belongs.
LoopUnlockGoOn(l) ==
    /\ pc[l] = "unlock"
    /\ lock' = Free
    /\ Goto(l, "top")
    /\ UNCHANGED <<stopVars, welcomed, conn, dialled, enc, link, phase, attempts, recvStop, tickStop, tickVars, reading, todo, chanVars, crashed>>

LoopUnlock(l) ==
    /\ pc[l] = "unlock"
    /\ lock' = Free
    /\ Goto(l, "dead")
    /\ UNCHANGED <<stopVars, welcomed, conn, dialled, enc, link, phase, attempts, recvStop, tickStop, tickVars, reading, todo, chanVars, crashed>>

\* reconnect gave up: unlock, Close as any caller would, and return with the
\* receiver channels still open.
ReconnectFails(l) == Exhausted(l) /\ Goto(l, "giveUp")

LoopGiveUp(l) ==
    /\ pc[l] = "giveUp"
    /\ DoClose
    /\ Goto(l, "dead")
    /\ UNCHANGED <<tickVars, reading, todo, chanVars, crashed>>

\* Every channel once, under recvChansLock.
CloseChannels(l) ==
    /\ pc[l] = "closing"
    /\ chan' = [r \in Receivers |-> IF chan[r] = "none" THEN "none" ELSE "closed"]
    /\ Goto(l, "dead")
    /\ UNCHANGED <<stopVars, connVars, recvStop, tickStop, tickVars, reading, todo, cons, crashed>>

-----------------------------------------------------------------------------
\* pongAckTicker

TickStop ==
    /\ \/ tick = "staleToken" /\ UNCHANGED tickStop
       \/ tick = "select" /\ tickStop /\ tickStop' = FALSE
    /\ tick' = "done"
    /\ UNCHANGED <<stopVars, connVars, recvStop, quiet, loopVars, chanVars, crashed>>

\* Slip: the silence limit is never reached.
TickFireNeverExpires ==
    /\ tick \in Selecting
    /\ tick' = "select"
    /\ quiet' = IF quiet = 2 THEN 2 ELSE quiet + 1
    /\ UNCHANGED <<stopVars, connVars, recvStop, tickStop, loopVars, chanVars, crashed>>

\* Slip: the count of silent ticks runs on.
TickFireUncapped ==
    /\ tick \in Selecting
    /\ \/ quiet # 0 /\ tick' = "kill"
       \/ quiet # 2 /\ tick' = "select"
    /\ quiet' = quiet + 1
    /\ UNCHANGED <<stopVars, connVars, recvStop, tickStop, loopVars, chanVars, crashed>>

\* 120 seconds passed.  The silence limit is 120 seconds too: it is over at
\* the second tick after the last pong ack, or at the third when the ticker
\* has just been started or the ack came right at a tick.
TickFire ==
    /\ tick \in Selecting
    /\ \/ quiet # 0 /\ tick' = "kill"
       \/ quiet # 2 /\ tick' = "select"
    /\ quiet' = IF quiet = 2 THEN 2 ELSE quiet + 1
    /\ UNCHANGED <<stopVars, connVars, recvStop, tickStop, loopVars, chanVars, crashed>>

\* Close whatever ap.conn is now, without connMu; in Go a nil one panics.
TickKill ==
    /\ tick = "kill"
    /\ CloseLink(conn)
    /\ crashed' = (conn = 0)
    /\ tick' = "select"
    /\ UNCHANGED <<stopVars, welcomed, conn, dialled, enc, lock, phase, attempts, recvStop, tickStop, quiet, loopVars, chanVars>>

-----------------------------------------------------------------------------
LoopStep(l) ==
    \/ LoopTop(l) \/ SendPong(l) \/ HandOver(l) \/ LoopExit(l) \/ LoopCheck(l)
    \/ LoopLock(l) \/ LoopUnlock(l) \/ LoopGiveUp(l) \/ CloseChannels(l)
    \/ pc[l] = "read" /\ link[reading[l]] = "closed" /\ ReadError(l)

LoopInput(l) == ReadError(l) \/ ReadPing(l) \/ ReadPongAck(l) \/ ReadPacket(l)

\* A step of the attempt that is under way, whoever makes it.
ConnectStep ==
    \/ Attempt \/ ConnectOk \/ ConnectFails
    \/ \E l \in Loops : Reconnected(l) \/ ReconnectFails(l)

TickStep == TickStop \/ TickFire \/ TickKill

Next ==
    /\ ~crashed
    /\ \/ Connect \/ Close \/ Drop \/ ConnectStep \/ TickStep
       \/ \E r \in Receivers : Receive(r) \/ ConsumerDone(r) \/ ConsumerLeaves(r)
       \/ \E l \in Loops : LoopStep(l) \/ LoopInput(l)

Spec == Init /\ [][Next]_vars

\* Goroutines run, timers fire, a dial ends, back-offs are finite, and a reader
\* that has a packet comes back to its channel or, with Leaves, returns for good
\* at any moment.  Nothing is assumed of the peer: a handshake with a silent one
\* does not end by itself.
Fairness ==
    /\ \A l \in Loops : WF_vars(~crashed /\ LoopStep(l))
    /\ WF_vars(~crashed /\ ConnectStep)
    /\ WF_vars(~crashed /\ TickStep) /\ SF_vars(~crashed /\ TickStop)
    /\ \A r \in Receivers : WF_vars(~crashed /\ ConsumerDone(r))

FairSpec == Spec /\ Fairness

-----------------------------------------------------------------------------
\* Properties

\* Only one goroutine receives packets and owns the receiver channels: two
\* would interleave the receive nonces (ap.go recvLoop, reconnect).
OneReader ==
    \A k, l \in Loops : pc[k] \in Active /\ pc[l] \in Active => k = l

\* A loop that is about to send a packet to a receiver channel never finds it
\* closed, and one that is about to close the channels never finds one closed
\* before, however many reconnections and calls of Close there are: both would
\* panic (recvLoop).
NoSendOnClosed ==
    \A l \in Loops :
        /\ pc[l] = "deliver" => \A r \in todo[l] : chan[r] = "open"
        /\ pc[l] = "closing" => \A r \in Receivers : chan[r] # "closed"

\* Every connection but the current one has been closed, also those whose
\* handshake failed half way (init).
NoLeakedConnection == \A c \in Conns : c # conn => link[c] \in {"none", "closed"}

\* The life cycle of the receiver channels (ReceiverContract).
Contract == INSTANCE ReceiverContract
                WITH Receivers <- Receivers, chan <- chan, cons <- cons, everClosed <- everClosed
KeepsContract == Contract!Spec

\* Loop l waits for a reader that has returned to take its packet.
Abandoned(l) ==
    pc[l] = "deliver" /\ \E r \in todo[l] : cons[r] = "gone" /\ \A q \in todo[l] : r <= q

\* A connection that breaks, even silently or in the middle of a later
\* handshake, is replaced by one that works, or the accesspoint gives up, when
\* nobody called Close; only a reader that went away can prevent it.
DropIsRepaired ==
    \A c \in Conns :
        (conn = c /\ link[c] # "open" /\ tick # "off" /\ ~everClosed)
            ~> (\/ conn > c /\ enc = conn /\ lock = Free
                \/ everClosed \/ crashed
                \/ \E l \in Loops : Abandoned(l))

\* What Close leaves behind in the end: a closed connection, no pongAckTicker,
\* no recvLoop.
Ended(l) == pc[l] \in {"unborn", "dead"}
Released == tick \in {"off", "done"} /\ (conn # 0 => link[conn] = "closed")
AllStopped == Released /\ \A l \in Loops : Ended(l)

\* A Close whose connection no reconnection replaces ends everything, in
\* whatever state it finds the goroutines, except a loop that a reader
\* abandoned: session.Close closes mercury first (session.go:310), whose reader
\* of the packets returns without draining its channel.
CloseSettles ==
    <>[](closedConn # 0 /\ conn = closedConn)
        => <>[](Released /\ \A l \in Loops : Ended(l) \/ Abandoned(l)) \/ <>crashed

\* "Close terminates the AP connection and stops all background goroutines"
\* (ap.go:263): also when recvLoop is between its test of ap.stop and the lock
\* of a reconnection (ap.go:373), of a Close that finds a connection.
CloseTerminates == closedConn # 0 ~> (AllStopped \/ crashed)

\* pongAckTicker closes the connection to make recvLoop fail, "hoping for a
\* new connection" (ap.go:428): it survives until there is one.
TickerSurvives == ~crashed
=============================================================================
