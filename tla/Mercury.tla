------------------------------ MODULE Mercury ------------------------------
(***************************************************************************)
(* mercury/mercury.go: requests, replies and subscriptions multiplexed over *)
(* one access point connection.  Each call of Do, Subscribe or Unsubscribe *)
(* is a goroutine that registers a pending entry, sends, and waits for the *)
(* reply, its context or Close; recvLoop dispatches what arrives.          *)
(*                                                                         *)
(* A call is named by its sequence number: seq is an atomic counter, so no *)
(* two calls share one.  The server is external: it answers requests in    *)
(* any order or never, and pushes events for what is subscribed.           *)
(***************************************************************************)
EXTENDS Integers, Sequences

CONSTANTS Calls,      \* the calls that may be made
          Uris,       \* the URIs they may name
          Covers,     \* Covers[u]: topics that wildcard URI u is a prefix of
          Topics,     \* the URIs the server pushes events for
          ChanCap,    \* capacity of a subscription channel (16 in the code)
          MaxWire,    \* packets on their way to the client
          MaxEvents   \* events the server ever pushes

ASSUME MercuryAssumption ==
    /\ Covers \in [Uris -> SUBSET Topics]
    /\ Topics \subseteq Uris
    /\ ChanCap \in Nat \ {0} /\ MaxWire \in Nat /\ MaxEvents \in Nat

VARIABLES
    pc,        \* pc[c]: where call c is; see CallStates
    op,        \* op[c]: "do" | "sub" | "unsub"
    uri,       \* uri[c]: the URI it names
    pending,   \* the calls with an entry in c.pending
    resp,      \* resp[c]: what its reply channel (capacity 1) holds
    subs,      \* subs[u]: the subscriptions registered under u
    subCh,     \* subCh[c]: the channel Subscribe call c returned
    buffered,  \* buffered[c]: events in that channel
    loop,      \* recvLoop: "recv" | "event" | "done" | "panic"
    snap,      \* subscriptions handlePacket has still to send the event to
    stopped,   \* is stopCh closed?
    apClosed,  \* has the access point closed recvCh?
    asked,     \* requests the server has received and not answered
    srvSubs,   \* URIs the server pushes to this client
    wire,      \* packets from the server, oldest first
    events     \* events pushed so far

callVars   == <<pc, op, uri, pending>>
subVars    == <<subs, subCh, buffered>>
serverVars == <<asked, srvSubs, wire, events>>
vars == <<pc, op, uri, pending, resp, subs, subCh, buffered, loop, snap,
          stopped, apClosed, asked, srvSubs, wire, events>>

CallStates == {"idle", "sending", "waiting", "append", "remove", "ok", "failed", "gaveUp"}
InFlight   == {"sending", "waiting", "append", "remove"}
Statuses   == {"good", "bad"}      \* below 400, from 400 on

Packets == [kind : {"reply"}, call : Calls, status : Statuses]
             \cup [kind : {"event"}, topic : Topics]

TypeOK ==
    /\ pc \in [Calls -> CallStates]
    /\ op \in [Calls -> {"do", "sub", "unsub"}]
    /\ uri \in [Calls -> Uris]
    /\ pending \subseteq Calls
    /\ resp \in [Calls -> {"none"} \cup Statuses]
    /\ subs \in [Uris -> SUBSET Calls]
    /\ subCh \in [Calls -> {"none", "open", "closed"}]
    /\ buffered \in [Calls -> 0 .. ChanCap]
    /\ loop \in {"recv", "event", "done", "panic"}
    /\ snap \subseteq Calls
    /\ stopped \in BOOLEAN /\ apClosed \in BOOLEAN
    /\ asked \subseteq Calls /\ srvSubs \subseteq Uris
    /\ wire \in Seq(Packets)
    /\ events \in 0 .. MaxEvents

Init ==
    /\ pc = [c \in Calls |-> "idle"]
    /\ op \in [Calls -> {"do", "sub", "unsub"}]
    /\ uri \in [Calls -> Uris]
    /\ pending = {}
    /\ resp = [c \in Calls |-> "none"]
    /\ subs = [u \in Uris |-> {}]
    /\ subCh = [c \in Calls |-> "none"]
    /\ buffered = [c \in Calls |-> 0]
    /\ loop = "recv" /\ snap = {}
    /\ stopped = FALSE /\ apClosed = FALSE
    /\ asked = {} /\ srvSubs = {} /\ wire = <<>> /\ events = 0

Running == loop # "panic"       \* a panic ends the whole program

-----------------------------------------------------------------------------
\* Do, Subscribe and Unsubscribe

Goto(c, s) == pc' = [pc EXCEPT ![c] = s]

\* The deferred delete runs on every way out of a call.
Return(c, s) == Goto(c, s) /\ pending' = pending \ {c}

Begin(c) ==
    /\ pc[c] = "idle"
    /\ Goto(c, "sending")
    /\ pending' = pending \cup {c}
    /\ UNCHANGED <<op, uri, resp, subVars, loop, snap, stopped, apClosed, serverVars>>

SendOk(c) ==
    /\ pc[c] = "sending"
    /\ Goto(c, "waiting")
    /\ asked' = asked \cup {c}
    /\ UNCHANGED <<op, uri, pending, resp, subVars, loop, snap, stopped, apClosed, srvSubs, wire, events>>

SendError(c) ==
    /\ pc[c] = "sending"
    /\ Return(c, "failed")
    /\ UNCHANGED <<op, uri, resp, subVars, loop, snap, stopped, apClosed, serverVars>>

\* The reply is there.  Subscribe looks at its status, Do and Unsubscribe
\* take whatever came.
TakeReply(c) ==
    /\ pc[c] = "waiting" /\ resp[c] # "none"
    /\ resp' = [resp EXCEPT ![c] = "none"]
    /\ CASE op[c] = "do" -> Return(c, "ok")
         [] op[c] = "sub" /\ resp[c] = "bad" -> Return(c, "failed")
         [] op[c] = "sub" /\ resp[c] = "good" -> Goto(c, "append") /\ UNCHANGED pending
         [] op[c] = "unsub" -> Goto(c, "remove") /\ UNCHANGED pending
    /\ UNCHANGED <<op, uri, subVars, loop, snap, stopped, apClosed, serverVars>>

\* Slip: an early return without the deferred delete.
ContextDoneNoDelete(c) ==
    /\ pc[c] = "waiting"
    /\ Goto(c, "gaveUp")
    /\ UNCHANGED <<op, uri, pending, resp, subVars, loop, snap, stopped, apClosed, serverVars>>

ContextDone(c) ==
    /\ pc[c] = "waiting"
    /\ Return(c, "gaveUp")
    /\ UNCHANGED <<op, uri, resp, subVars, loop, snap, stopped, apClosed, serverVars>>

\* Slip: the wait does not include stopCh.
SeeStoppedNever(c) ==
    /\ pc[c] = "waiting" /\ stopped /\ resp[c] # "none"
    /\ Return(c, "gaveUp")
    /\ UNCHANGED <<op, uri, resp, subVars, loop, snap, stopped, apClosed, serverVars>>

SeeStopped(c) ==
    /\ pc[c] = "waiting" /\ stopped
    /\ Return(c, "gaveUp")
    /\ UNCHANGED <<op, uri, resp, subVars, loop, snap, stopped, apClosed, serverVars>>

\* The end of Subscribe, under subsLock.
AppendSub(c) ==
    /\ pc[c] = "append"
    /\ subs' = [subs EXCEPT ![uri[c]] = @ \cup {c}]
    /\ subCh' = [subCh EXCEPT ![c] = "open"]
    /\ Return(c, "ok")
    /\ UNCHANGED <<op, uri, resp, buffered, loop, snap, stopped, apClosed, serverVars>>

\* Slip: the map entry is kept.
RemoveSubsKeepEntry(c) ==
    /\ pc[c] = "remove"
    /\ subCh' = [s \in Calls |-> IF s \in subs[uri[c]] THEN "closed" ELSE subCh[s]]
    /\ Return(c, "ok")
    /\ UNCHANGED <<op, uri, resp, subs, buffered, loop, snap, stopped, apClosed, serverVars>>

\* The end of Unsubscribe, under subsLock: every subscription to the URI.
RemoveSubs(c) ==
    /\ pc[c] = "remove"
    /\ subCh' = [s \in Calls |-> IF s \in subs[uri[c]] THEN "closed" ELSE subCh[s]]
    /\ subs' = [subs EXCEPT ![uri[c]] = {}]
    /\ Return(c, "ok")
    /\ UNCHANGED <<op, uri, resp, buffered, loop, snap, stopped, apClosed, serverVars>>

\* The holder of a subscription takes an event out of its channel.
TakeEvent(c) ==
    /\ buffered[c] > 0
    /\ buffered' = [buffered EXCEPT ![c] = @ - 1]
    /\ UNCHANGED <<callVars, resp, subs, subCh, loop, snap, stopped, apClosed, serverVars>>

Close ==
    /\ stopped' = TRUE
    /\ UNCHANGED <<callVars, resp, subVars, loop, snap, apClosed, serverVars>>

-----------------------------------------------------------------------------
\* recvLoop and handlePacket

LoopEnds ==
    /\ loop = "recv"
    /\ stopped \/ (apClosed /\ wire = <<>>)
    /\ loop' = "done"
    /\ UNCHANGED <<callVars, resp, subVars, snap, stopped, apClosed, serverVars>>

\* The send never blocks: a second reply to the same call is dropped, and so
\* is one that finds no entry.
HandleReply ==
    /\ loop = "recv" /\ wire # <<>> /\ Head(wire).kind = "reply"
    /\ LET c == Head(wire).call IN
       resp' = IF c \in pending /\ resp[c] = "none"
               THEN [resp EXCEPT ![c] = Head(wire).status] ELSE resp
    /\ wire' = Tail(wire)
    /\ UNCHANGED <<callVars, subVars, loop, snap, stopped, apClosed, asked, srvSubs, events>>

\* Under subsLock.RLock: the subscriptions to the topic itself, or when there
\* is no such entry those of one wildcard URI that covers it.
HandleEvent ==
    /\ loop = "recv" /\ wire # <<>> /\ Head(wire).kind = "event"
    /\ LET t     == Head(wire).topic
           wild  == {u \in Uris : t \in Covers[u] /\ subs[u] # {}}
       IN  \/ subs[t] # {} /\ snap' = subs[t]
           \/ subs[t] = {} /\ \E u \in wild : snap' = subs[u]
           \/ subs[t] = {} /\ wild = {} /\ snap' = {}
    /\ loop' = IF snap' = {} THEN "recv" ELSE "event"
    /\ wire' = Tail(wire)
    /\ UNCHANGED <<callVars, resp, subVars, stopped, apClosed, asked, srvSubs, events>>

\* Slip: a plain send, which waits for room.
SendEventBlocking(c) ==
    /\ loop = "event" /\ c \in snap
    /\ buffered[c] < ChanCap
    /\ buffered' = [buffered EXCEPT ![c] = @ + 1]
    /\ snap' = snap \ {c}
    /\ loop' = IF subCh[c] = "closed" THEN "panic" ELSE IF snap = {c} THEN "recv" ELSE "event"
    /\ UNCHANGED <<callVars, resp, subs, subCh, stopped, apClosed, serverVars>>

\* Slip: room is counted one too high.
SendEventOverfull(c) ==
    /\ loop = "event" /\ c \in snap
    /\ buffered' = IF buffered[c] <= ChanCap
                   THEN [buffered EXCEPT ![c] = @ + 1] ELSE buffered
    /\ snap' = snap \ {c}
    /\ loop' = IF subCh[c] = "closed" THEN "panic" ELSE IF snap = {c} THEN "recv" ELSE "event"
    /\ UNCHANGED <<callVars, resp, subs, subCh, stopped, apClosed, serverVars>>

\* One send of the event, after the lock was released: dropped if the channel
\* is full, a panic if Unsubscribe has closed it meanwhile.
SendEvent(c) ==
    /\ loop = "event" /\ c \in snap
    /\ buffered' = IF subCh[c] = "open" /\ buffered[c] < ChanCap
                   THEN [buffered EXCEPT ![c] = @ + 1] ELSE buffered
    /\ snap' = snap \ {c}
    /\ loop' = IF subCh[c] = "closed" THEN "panic" ELSE IF snap = {c} THEN "recv" ELSE "event"
    /\ UNCHANGED <<callVars, resp, subs, subCh, stopped, apClosed, serverVars>>

-----------------------------------------------------------------------------
\* The server and the access point (external)

Answer(c) ==
    /\ c \in asked /\ Len(wire) < MaxWire
    /\ \E s \in Statuses :
         /\ wire' = Append(wire, [kind |-> "reply", call |-> c, status |-> s])
         /\ srvSubs' = CASE op[c] = "sub" /\ s = "good" -> srvSubs \cup {uri[c]}
                         [] op[c] = "unsub" -> srvSubs \ {uri[c]}
                         [] OTHER -> srvSubs
    /\ asked' = asked \ {c}
    /\ UNCHANGED <<callVars, resp, subVars, loop, snap, stopped, apClosed, events>>

Push(t) ==
    /\ Len(wire) < MaxWire /\ events < MaxEvents
    /\ \E u \in srvSubs : t = u \/ t \in Covers[u]
    /\ wire' = Append(wire, [kind |-> "event", topic |-> t])
    /\ events' = events + 1
    /\ UNCHANGED <<callVars, resp, subVars, loop, snap, stopped, apClosed, asked, srvSubs>>

ApCloses ==
    /\ apClosed' = TRUE
    /\ UNCHANGED <<callVars, resp, subVars, loop, snap, stopped, serverVars>>

-----------------------------------------------------------------------------
CallStep(c) ==
    \/ Begin(c) \/ SendOk(c) \/ SendError(c) \/ TakeReply(c) \/ ContextDone(c)
    \/ SeeStopped(c) \/ AppendSub(c) \/ RemoveSubs(c) \/ TakeEvent(c)

LoopStep == LoopEnds \/ HandleReply \/ HandleEvent \/ \E c \in Calls : SendEvent(c)

Next ==
    /\ Running
    /\ \/ \E c \in Calls : CallStep(c) \/ Answer(c)
       \/ \E t \in Topics : Push(t)
       \/ LoopStep \/ Close \/ ApCloses

Spec == Init /\ [][Next]_vars

\* Goroutines run on.  Calls may carry a context that never ends, the server
\* need not answer, and subscribers need not read.
Fairness ==
    /\ WF_vars(Running /\ LoopStep)
    /\ \A c \in Calls :
         WF_vars(Running /\ (SendOk(c) \/ SendError(c) \/ TakeReply(c) \/ SeeStopped(c)
                               \/ AppendSub(c) \/ RemoveSubs(c)))

FairSpec == Spec /\ Fairness

-----------------------------------------------------------------------------
\* Properties

\* c.pending holds exactly the calls that have not returned, so neither a
\* timeout nor a failed send leaves an entry behind (Do, Subscribe, Unsubscribe).
PendingExact == pending = {c \in Calls : pc[c] \in InFlight}

\* A channel that Subscribe returned is registered under its URI exactly as
\* long as it is open: no registered channel is closed, so no two calls of
\* Unsubscribe close the same one, and no open channel is forgotten.
RegisteredIffOpen ==
    \A c \in Calls, u \in Uris : c \in subs[u] <=> (subCh[c] = "open" /\ uri[c] = u)

\* A subscriber that stops reading never holds up recvLoop, and with it the
\* replies to everyone else (handlePacket, the select with a default).
SlowSubscriberNeverBlocks == loop = "event" ~> loop # "event"

\* Close releases every call that waits, also one whose context never ends.
CloseReleasesCallers == \A c \in Calls : stopped /\ pc[c] \in InFlight ~> (pc[c] \notin InFlight \/ ~Running)

\* "It is safe for concurrent use" (mercury.go:52): no call makes recvLoop
\* send on a closed subscription channel.
SafeForConcurrentUse == Running
=============================================================================
