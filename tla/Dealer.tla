------------------------------ MODULE Dealer ------------------------------
(***************************************************************************)
(* dealer/dealer.go: one push WebSocket shared by the goroutines that read *)
(* it (recvLoop), keep it alive (pingTicker), replace it when it breaks    *)
(* (reconnect) and the code that calls Connect, Close, ReceiveMessage and  *)
(* ReceiveRequest.                                                         *)
(*                                                                         *)
(* Every step is what one goroutine does between two points at which       *)
(* another may be scheduled: a lock, a channel operation, a read or a      *)
(* write of the socket, and each unsynchronised read of d.stop and d.conn. *)
(* A section under connMu.RLock that only writes to or closes the socket   *)
(* is one step guarded by "no writer holds connMu".                        *)
(***************************************************************************)
EXTENDS Integers

CONSTANTS MaxConns,         \* connections ever dialled successfully
          MaxLoops,         \* goroutines that ever run recvLoop
          MaxReceivers,     \* calls of ReceiveMessage and ReceiveRequest
          RequestReceivers, \* which of those calls are ReceiveRequest
          Leaves            \* may the reader of a receiver channel go away?

Conns     == 1 .. MaxConns
Loops     == 1 .. MaxLoops
Receivers == 1 .. MaxReceivers      \* in the order of registration

ASSUME DealerAssumption ==
    /\ MaxConns \in Nat \ {0} /\ MaxLoops \in Nat \ {0} /\ MaxReceivers \in Nat
    /\ RequestReceivers \subseteq Receivers
    /\ Leaves \in BOOLEAN

VARIABLES
    stop,       \* d.stop
    everClosed, \* history: has Close run to its end at least once?
    reopened,   \* history: has Connect been called again after a Close?
    conn,       \* d.conn: 0 is nil, otherwise the number of the connection
    link,       \* link[c]: "none" | "open" | "silent" (peer gone, no error) | "closed"
    lock,       \* the writer of connMu: Free, Caller or the number of a loop
    recvStop,   \* is a token in d.recvLoopStop?
    tickStop,   \* is a token in d.pingTickerStop?
    tick,       \* where pingTicker is; see TickStates
    quiet,      \* ticks since d.lastPong, saturating at 2
    pc,         \* pc[l]: where loop l is; see LoopStates
    reading,    \* reading[l]: the connection whose Read l is blocked in
    todo,       \* todo[l]: receivers l has still to hand the message to
    chan,       \* chan[r]: "none" | "open" | "closed"
    cons        \* cons[r]: its reader is "idle" | "busy" | "gone"

connVars == <<stop, everClosed, reopened, conn, link, lock, recvStop, tickStop>>
recvVars == <<chan, cons>>
vars == <<stop, everClosed, reopened, conn, link, lock, recvStop, tickStop, tick, quiet,
          pc, reading, todo, chan, cons>>

Free   == 0
Caller == -1

\* "select" blocks on the current pingTickerStop, the two stale states on one
\* that a later connect replaced (without and with a token left in it).
TickStates == {"off", "select", "stale", "staleToken", "kill", "ping", "pingErr", "done"}
Selecting  == {"select", "stale", "staleToken"}

LoopStates == {"unborn", "top", "read", "deliver", "await", "reply", "exit",
               "check", "wantLock", "dialing", "unlock", "giveUp",
               "closeReq", "closeMsg", "dead"}

\* The states in which a loop is the one that reads the socket and owns the
\* receiver channels.
Active == LoopStates \ {"unborn", "unlock", "giveUp", "dead"}

TypeOK ==
    /\ stop \in BOOLEAN /\ everClosed \in BOOLEAN /\ reopened \in BOOLEAN
    /\ conn \in 0 .. MaxConns
    /\ link \in [Conns -> {"none", "open", "silent", "closed"}]
    /\ lock \in {Free, Caller} \cup Loops
    /\ recvStop \in BOOLEAN /\ tickStop \in BOOLEAN
    /\ tick \in TickStates
    /\ quiet \in 0 .. 2
    /\ pc \in [Loops -> LoopStates]
    /\ reading \in [Loops -> 0 .. MaxConns]
    /\ todo \in [Loops -> SUBSET Receivers]
    /\ chan \in [Receivers -> {"none", "open", "closed"}]
    /\ cons \in [Receivers -> {"idle", "busy", "gone"}]

Init ==
    /\ stop = FALSE /\ everClosed = FALSE /\ reopened = FALSE
    /\ conn = 0 /\ link = [c \in Conns |-> "none"]
    /\ lock = Free
    /\ recvStop = FALSE /\ tickStop = FALSE
    /\ tick = "off" /\ quiet = 0
    /\ pc = [l \in Loops |-> "unborn"]
    /\ reading = [l \in Loops |-> 0]
    /\ todo = [l \in Loops |-> {}]
    /\ chan = [r \in Receivers |-> "none"]
    /\ cons = [r \in Receivers |-> "idle"]

-----------------------------------------------------------------------------
\* Helpers

Goto(l, s) == pc' = [pc EXCEPT ![l] = s]

CloseLink(c) == link' = IF c = 0 THEN link ELSE [link EXCEPT ![c] = "closed"]

\* The first lines of connect: fresh stop channels, and stop is cleared.  A
\* ticker that is blocked in its select keeps listening on the old channel.
FreshChannels ==
    /\ stop' = FALSE
    /\ recvStop' = FALSE
    /\ tickStop' = FALSE
    /\ tick' = CASE tick = "select" /\ tickStop  -> "staleToken"
                 [] tick = "select" /\ ~tickStop -> "stale"
                 [] OTHER -> tick

\* The rest of connect when token and dial succeed.
NewConn ==
    /\ conn < MaxConns
    /\ conn' = conn + 1
    /\ link' = [link EXCEPT ![conn + 1] = "open"]

\* Slip: Close signals the goroutines but leaves the socket open.
CloseForgettingSocket ==
    /\ lock = Free
    /\ stop' = TRUE /\ everClosed' = TRUE
    /\ recvStop' = (conn # 0 \/ recvStop)
    /\ tickStop' = (conn # 0 \/ tickStop)
    /\ UNCHANGED <<reopened, conn, link, lock>>

\* The body of Close, under connMu; the two sends never block.
DoClose ==
    /\ lock = Free
    /\ stop' = TRUE /\ everClosed' = TRUE
    /\ recvStop' = (conn # 0 \/ recvStop)
    /\ tickStop' = (conn # 0 \/ tickStop)
    /\ CloseLink(conn)
    /\ UNCHANGED <<reopened, conn, lock>>

-----------------------------------------------------------------------------
\* The caller

\* Slip: without the early return, Connect replaces a live connection.
ConnectAnyway ==
    /\ lock = Free
    /\ lock' = Caller
    /\ reopened' = (reopened \/ (stop /\ conn # 0))
    /\ FreshChannels
    /\ UNCHANGED <<everClosed, conn, link, quiet, pc, reading, todo, recvVars>>

\* Connect takes connMu and clears stop; with an open connection and no stop
\* it changes nothing, which is no step.
Connect ==
    /\ lock = Free
    /\ conn = 0 \/ stop
    /\ lock' = Caller
    /\ reopened' = (reopened \/ (stop /\ conn # 0))
    /\ FreshChannels
    /\ UNCHANGED <<everClosed, conn, link, quiet, pc, reading, todo, recvVars>>

ConnectOk ==
    /\ lock = Caller
    /\ NewConn
    /\ lock' = Free
    /\ UNCHANGED <<stop, everClosed, reopened, recvStop, tickStop, tick, quiet, pc, reading, todo, recvVars>>

ConnectFail ==
    /\ lock = Caller
    /\ lock' = Free
    /\ UNCHANGED <<stop, everClosed, reopened, conn, link, recvStop, tickStop, tick, quiet, pc, reading, todo, recvVars>>

\* ReceiveMessage and ReceiveRequest: add the channel, and on the first call
\* start recvLoop and pingTicker.  The program registers after it connected.
Register(r) ==
    /\ conn # 0
    /\ chan[r] = "none" /\ \A q \in Receivers : q < r => chan[q] # "none"
    /\ chan' = [chan EXCEPT ![r] = "open"]
    /\ IF pc[1] = "unborn"
       THEN Goto(1, "top") /\ tick' = "select" /\ quiet' = 0
       ELSE UNCHANGED <<pc, tick, quiet>>
    /\ UNCHANGED <<connVars, reading, todo, cons>>

\* Slip: Close itself closes the receiver channels.
CloseWithChannels ==
    /\ DoClose
    /\ chan' = [r \in Receivers |-> IF chan[r] = "none" THEN "none" ELSE "closed"]
    /\ UNCHANGED <<tick, quiet, pc, reading, todo, cons>>

Close ==
    /\ DoClose
    /\ UNCHANGED <<tick, quiet, pc, reading, todo, recvVars>>

\* The goroutine that reads channel r is done with the last message; for a
\* request that means it called Reply, which releases the waiting loop.
ConsumerDone(r) ==
    /\ cons[r] = "busy"
    /\ cons' = [cons EXCEPT ![r] = "idle"]
    /\ pc' = [l \in Loops |-> IF r \in RequestReceivers /\ pc[l] = "await" THEN "reply" ELSE pc[l]]
    /\ UNCHANGED <<connVars, tick, quiet, reading, todo, chan>>

\* It returns without draining its channel, as Controller.Close makes it do.
ConsumerLeaves(r) ==
    /\ Leaves /\ chan[r] # "none" /\ cons[r] # "gone"
    /\ cons' = [cons EXCEPT ![r] = "gone"]
    /\ UNCHANGED <<connVars, tick, quiet, pc, reading, todo, chan>>

-----------------------------------------------------------------------------
\* The network

Drop ==
    /\ conn # 0 /\ link[conn] = "open"
    /\ \E s \in {"silent", "closed"} : link' = [link EXCEPT ![conn] = s]
    /\ UNCHANGED <<stop, everClosed, reopened, conn, lock, recvStop, tickStop, tick, quiet, pc, reading, todo, recvVars>>

-----------------------------------------------------------------------------
\* recvLoop

\* The select at the top: take the stop token, or block in d.conn.Read.
LoopTop(l) ==
    /\ pc[l] = "top"
    /\ IF recvStop
       THEN Goto(l, "exit") /\ recvStop' = FALSE /\ UNCHANGED reading
       ELSE Goto(l, "read") /\ reading' = [reading EXCEPT ![l] = conn] /\ UNCHANGED recvStop
    /\ UNCHANGED <<stop, everClosed, reopened, conn, link, lock, tickStop, tick, quiet, todo, recvVars>>

\* Read returns an error once the connection is closed, or bytes that are not
\* JSON arrive: both leave the loop.
ReadError(l) ==
    /\ pc[l] = "read" /\ link[reading[l]] = "closed"
    /\ Goto(l, "exit")
    /\ UNCHANGED <<connVars, tick, quiet, reading, todo, recvVars>>

ReadGarbage(l) ==
    /\ pc[l] = "read" /\ link[reading[l]] = "open"
    /\ Goto(l, "exit")
    /\ UNCHANGED <<connVars, tick, quiet, reading, todo, recvVars>>

ReadPong(l) ==
    /\ pc[l] = "read" /\ link[reading[l]] = "open"
    /\ quiet' = 0
    /\ Goto(l, "top")
    /\ UNCHANGED <<connVars, tick, reading, todo, recvVars>>

\* handleMessage: the registered receivers whose prefix matches.  Messages
\* that nobody wants, and non-text frames, only go back to the top.
ReadMessage(l) ==
    /\ pc[l] = "read" /\ link[reading[l]] = "open"
    /\ \E S \in SUBSET {r \in Receivers \ RequestReceivers : chan[r] # "none"} :
         /\ todo' = [todo EXCEPT ![l] = S]
         /\ Goto(l, IF S = {} THEN "top" ELSE "deliver")
    /\ UNCHANGED <<connVars, tick, quiet, reading, recvVars>>

\* handleRequest: the one receiver registered for the ident.
ReadRequest(l) ==
    /\ pc[l] = "read" /\ link[reading[l]] = "open"
    /\ \E r \in RequestReceivers :
         /\ chan[r] # "none"
         /\ todo' = [todo EXCEPT ![l] = {r}]
    /\ Goto(l, "deliver")
    /\ UNCHANGED <<connVars, tick, quiet, reading, recvVars>>

\* One unbuffered send: it happens when the reader is at its receive.
HandOver(l) ==
    /\ pc[l] = "deliver"
    /\ \E r \in todo[l] :
         /\ \A q \in todo[l] : r <= q
         /\ cons[r] = "idle"
         /\ cons' = [cons EXCEPT ![r] = "busy"]
         /\ todo' = [todo EXCEPT ![l] = @ \ {r}]
         /\ Goto(l, CASE r \in RequestReceivers -> "await"
                      [] r \notin RequestReceivers /\ todo[l] = {r} -> "top"
                      [] OTHER -> "deliver")
    /\ UNCHANGED <<connVars, tick, quiet, reading, chan>>

\* sendReply writes under connMu.RLock; an error is only logged.
SendReply(l) ==
    /\ pc[l] = "reply" /\ lock = Free
    /\ Goto(l, "top")
    /\ UNCHANGED <<connVars, tick, quiet, reading, todo, recvVars>>

\* Slip: only a read error is thought to need a close.
ExitKeepingSocket(l) ==
    /\ pc[l] = "exit"
    /\ Goto(l, "check")
    /\ UNCHANGED <<connVars, tick, quiet, reading, todo, recvVars>>

\* "Always close": d.conn is read again here, without connMu.
LoopExit(l) ==
    /\ pc[l] = "exit"
    /\ CloseLink(conn)
    /\ Goto(l, "check")
    /\ UNCHANGED <<stop, everClosed, reopened, conn, lock, recvStop, tickStop, tick, quiet, reading, todo, recvVars>>

\* Slip: the test the wrong way round.
LoopCheckNegated(l) ==
    /\ pc[l] = "check"
    /\ Goto(l, IF stop THEN "wantLock" ELSE "closeReq")
    /\ UNCHANGED <<connVars, tick, quiet, reading, todo, recvVars>>

\* The test of d.stop that decides between shutdown and reconnection, without
\* connMu.
LoopCheck(l) ==
    /\ pc[l] = "check"
    /\ Goto(l, IF stop THEN "closeReq" ELSE "wantLock")
    /\ UNCHANGED <<connVars, tick, quiet, reading, todo, recvVars>>

\* connMu.Lock and the first attempt of reconnect up to its dial.
LoopLock(l) ==
    /\ pc[l] = "wantLock" /\ lock = Free
    /\ lock' = l
    /\ FreshChannels
    /\ Goto(l, "dialing")
    /\ UNCHANGED <<everClosed, reopened, conn, link, quiet, reading, todo, recvVars>>

\* An attempt fails and backoff.Retry starts the next one.
DialRetry(l) ==
    /\ pc[l] = "dialing"
    /\ FreshChannels
    /\ UNCHANGED <<everClosed, reopened, conn, link, lock, quiet, pc, reading, todo, recvVars>>

\* reconnect succeeds and starts the next recvLoop, still under connMu.
DialOk(l) ==
    /\ pc[l] = "dialing" /\ l < MaxLoops
    /\ NewConn
    /\ quiet' = 0
    /\ pc' = [pc EXCEPT ![l] = "unlock", ![l + 1] = "top"]
    /\ UNCHANGED <<stop, everClosed, reopened, lock, recvStop, tickStop, tick, reading, todo, recvVars>>

\* Slip: without the return, the loop goes on to close the receiver channels.
LoopUnlockNoReturn(l) ==
    /\ pc[l] = "unlock"
    /\ lock' = Free
    /\ Goto(l, "closeReq")
    /\ UNCHANGED <<stop, everClosed, reopened, conn, link, recvStop, tickStop, tick, quiet, reading, todo, recvVars>>

LoopUnlock(l) ==
    /\ pc[l] = "unlock"
    /\ lock' = Free
    /\ Goto(l, "dead")
    /\ UNCHANGED <<stop, everClosed, reopened, conn, link, recvStop, tickStop, tick, quiet, reading, todo, recvVars>>

\* The back-off ran out: unlock, then Close as any caller would, and return
\* with the receiver channels still open.
DialExhausted(l) ==
    /\ pc[l] = "dialing"
    /\ lock' = Free
    /\ Goto(l, "giveUp")
    /\ UNCHANGED <<stop, everClosed, reopened, conn, link, recvStop, tickStop, tick, quiet, reading, todo, recvVars>>

LoopGiveUp(l) ==
    /\ pc[l] = "giveUp"
    /\ DoClose
    /\ Goto(l, "dead")
    /\ UNCHANGED <<tick, quiet, reading, todo, recvVars>>

CloseChannels(S) ==
    chan' = [r \in Receivers |-> IF r \in S /\ chan[r] # "none" THEN "closed" ELSE chan[r]]

CloseRequestChannels(l) ==
    /\ pc[l] = "closeReq"
    /\ CloseChannels(RequestReceivers)
    /\ Goto(l, "closeMsg")
    /\ UNCHANGED <<connVars, tick, quiet, reading, todo, cons>>

CloseMessageChannels(l) ==
    /\ pc[l] = "closeMsg"
    /\ CloseChannels(Receivers \ RequestReceivers)
    /\ Goto(l, "dead")
    /\ UNCHANGED <<connVars, tick, quiet, reading, todo, cons>>

-----------------------------------------------------------------------------
\* pingTicker

TickStop ==
    /\ \/ tick = "staleToken" /\ UNCHANGED tickStop
       \/ tick = "select" /\ tickStop /\ tickStop' = FALSE
    /\ tick' = "done"
    /\ UNCHANGED <<stop, everClosed, reopened, conn, link, lock, recvStop, quiet, pc, reading, todo, recvVars>>

\* Slip: the silence limit is never reached.
TickFireNeverExpires ==
    /\ tick \in Selecting
    /\ tick' = "ping"
    /\ quiet' = IF quiet = 2 THEN 2 ELSE quiet + 1
    /\ UNCHANGED <<connVars, pc, reading, todo, recvVars>>

\* Slip: the count of silent ticks runs on.
TickFireUncapped ==
    /\ tick \in Selecting
    /\ \/ quiet # 0 /\ tick' = "kill"
       \/ quiet # 2 /\ tick' = "ping"
    /\ quiet' = quiet + 1
    /\ UNCHANGED <<connVars, pc, reading, todo, recvVars>>

\* 30 seconds passed.  40 seconds of silence are over at the second tick after
\* the last pong or at the third, depending on when in the period it came.
TickFire ==
    /\ tick \in Selecting
    /\ \/ quiet # 0 /\ tick' = "kill"
       \/ quiet # 2 /\ tick' = "ping"
    /\ quiet' = IF quiet = 2 THEN 2 ELSE quiet + 1
    /\ UNCHANGED <<connVars, pc, reading, todo, recvVars>>

\* Write a ping under connMu.RLock; a silent peer may let it through.
TickPing ==
    /\ tick = "ping" /\ lock = Free
    /\ \/ link[conn] # "closed" /\ tick' = "select"
       \/ link[conn] # "open" /\ tick' = "pingErr"
    /\ UNCHANGED <<connVars, quiet, pc, reading, todo, recvVars>>

TickPingFailed ==
    /\ tick = "pingErr"
    /\ tick' = IF stop THEN "done" ELSE "kill"
    /\ UNCHANGED <<connVars, quiet, pc, reading, todo, recvVars>>

\* Close whatever connection is current once connMu.RLock is granted.
TickKill ==
    /\ tick = "kill" /\ lock = Free
    /\ CloseLink(conn)
    /\ tick' = "select"
    /\ UNCHANGED <<stop, everClosed, reopened, conn, lock, recvStop, tickStop, quiet, pc, reading, todo, recvVars>>

-----------------------------------------------------------------------------
LoopStep(l) ==
    \/ LoopTop(l) \/ ReadError(l) \/ HandOver(l) \/ SendReply(l) \/ LoopExit(l)
    \/ LoopCheck(l) \/ LoopLock(l) \/ DialOk(l) \/ LoopUnlock(l) \/ DialExhausted(l)
    \/ LoopGiveUp(l) \/ CloseRequestChannels(l) \/ CloseMessageChannels(l)

LoopInput(l) ==
    \/ ReadGarbage(l) \/ ReadPong(l) \/ ReadMessage(l) \/ ReadRequest(l) \/ DialRetry(l)

TickStep == TickStop \/ TickFire \/ TickPing \/ TickPingFailed \/ TickKill

CallerStep ==
    \/ Connect \/ ConnectOk \/ ConnectFail \/ Close
    \/ \E r \in Receivers : Register(r) \/ ConsumerDone(r) \/ ConsumerLeaves(r)

Next == \/ CallerStep
        \/ Drop
        \/ \E l \in Loops : LoopStep(l) \/ LoopInput(l)
        \/ TickStep

Spec == Init /\ [][Next]_vars

\* The Go scheduler runs every goroutine that can run, timers fire, a dial
\* ends, and a reader that has a message comes back to its channel or, with
\* Leaves, returns for good at any moment.  select picks at random among the
\* cases that are ready, so a ticker that keeps coming back to a select with a
\* stop token in it takes the token (strong fairness).  Nothing is assumed of
\* the peer or of the code that calls Connect, Close and Receive*.
Fairness ==
    /\ \A l \in Loops : WF_vars(LoopStep(l))
    /\ WF_vars(TickStep) /\ SF_vars(TickStop)
    /\ WF_vars(ConnectOk \/ ConnectFail)
    /\ \A r \in Receivers : WF_vars(ConsumerDone(r))

FairSpec == Spec /\ Fairness

-----------------------------------------------------------------------------
\* Properties

\* Only one goroutine reads the WebSocket and owns the receiver channels,
\* although every reconnection starts a new recvLoop while the old one still
\* runs (dealer.go recvLoop, reconnect): the library forbids two readers.
OneReader ==
    \A k, l \in Loops : pc[k] \in Active /\ pc[l] \in Active => k = l

\* A loop that is about to send to a receiver channel never finds it closed,
\* and a loop that is about to close the channels never finds one closed:
\* both would panic (handleMessage, handleRequest, the end of recvLoop).
NoSendOnClosed ==
    \A l \in Loops :
        /\ pc[l] = "deliver" => \A r \in todo[l] : chan[r] = "open"
        /\ pc[l] = "closeReq" => \A r \in Receivers : chan[r] # "closed"
        /\ pc[l] = "closeMsg" => \A r \in Receivers \ RequestReceivers : chan[r] # "closed"

\* Every connection but the current one has been closed, whichever way it was
\* lost, until the caller connects again after a Close.
NoLeakedConnection ==
    ~reopened => \A c \in Conns : c < conn => link[c] = "closed"

\* The reply to a request goes out on the connection the request came from,
\* although the loop waits for the reader's answer without any lock, until the
\* caller connects again after a Close.
ReplyOnSameConnection ==
    ~reopened => \A l \in Loops : pc[l] \in {"read", "deliver", "await", "reply"} => reading[l] = conn

\* The life cycle of the receiver channels (ReceiverContract).
Contract == INSTANCE ReceiverContract
                WITH Receivers <- Receivers, chan <- chan, cons <- cons, everClosed <- everClosed
KeepsContract == Contract!Spec

\* Loop l waits for a reader that has returned: for one to take the message,
\* or for one to answer the request.  Nothing in the dealer ends that wait.
Abandoned(l) ==
    \/ pc[l] = "deliver" /\ \E r \in todo[l] : cons[r] = "gone" /\ \A q \in todo[l] : r <= q
    \/ pc[l] = "await" /\ \A r \in RequestReceivers : cons[r] # "busy"

\* A connection that breaks, even without any error, is replaced or given up,
\* when nobody called Close; only a reader that went away can prevent it.
DropIsRepaired ==
    \A c \in Conns :
        (conn = c /\ link[c] # "open" /\ tick # "off" /\ ~everClosed)
            ~> (conn > c \/ everClosed \/ \E l \in Loops : Abandoned(l))

\* If stop stays set, the socket is closed, pingTicker ends and so does every
\* loop but one that a reader abandoned.  Readers do go away just before the
\* stop: ConnectResult.Close stops the controller first (quick/connect.go:105),
\* whose loops return without draining their channels.
Ended(l) == pc[l] \in {"unborn", "dead"}
Released == tick \in {"off", "done"} /\ (conn # 0 => link[conn] = "closed")
StopSettles == <>[]stop => <>[](Released /\ \A l \in Loops : Ended(l) \/ Abandoned(l))

\* "Close terminates the dealer connection and stops all background
\* goroutines. All receiver channels will be closed" (dealer.go:180), as long
\* as the caller does not Connect again.
AllStopped == Released /\ \A l \in Loops : Ended(l)
CloseTerminates == everClosed ~> (AllStopped \/ reopened)
============================================================================
