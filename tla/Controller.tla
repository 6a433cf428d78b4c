---------------------------- MODULE Controller ----------------------------
(***************************************************************************)
(* controller/controller.go and events.go with the volume of volume.go:    *)
(* the cached cluster that two goroutines write (connectionIdLoop through  *)
(* the answer to RegisterDevice, clusterUpdateLoop through the pushes of   *)
(* the dealer), the event channels, the metadata fetches and Close.        *)
(*                                                                         *)
(* A loop's step is the code between two points at which another goroutine *)
(* can come in: the locks of the cluster, the subscribers and the track.   *)
(* The dealer (dealer.go, module Dealer) offers one message at a time and  *)
(* waits until it is taken.                                                *)
(***************************************************************************)
EXTENDS Volume

CONSTANTS Tracks,     \* track URIs
          NoTrack,    \* a cluster without a track
          Chans,      \* event channels
          ChanCap,    \* defaultEventChanSize
          MaxOffers   \* bound: messages of the dealer

ASSUME ControllerAssumption ==
    /\ NoTrack \notin Tracks
    /\ ChanCap \in Nat \ {0} /\ MaxOffers \in Nat

VARIABLES
    server,      \* the cluster as the backend knows it (external)
    offersLeft,  \* messages that the dealer may still hand over
    offer,       \* the loop whose message the dealer's recvLoop holds out
    proc,        \* proc[l]: where loop l is, and the cluster it works on
    cluster,     \* c.cluster
    registered,  \* c.registered
    lastTrack,   \* c.lastTrackURI
    lastMeta,    \* the track of c.lastMeta
    fetching,    \* fetching[t]: metadata requests for t that are out
    emitting,    \* emitting[t]: fetched and cached, event not emitted yet
    fetched,     \* history: the tracks whose metadata has been asked for
    subs,        \* subs[k]: the channels in the list of c.subs for events k
    chan,        \* chan[c]: "none", "open" or "closed"
    buf,         \* buf[c]: events in channel c
    stopped,     \* c.stopCh is closed
    closing      \* how far Close is

clusterVars == <<server, offersLeft, offer, proc, cluster, registered>>
metaVars    == <<lastTrack, lastMeta, fetching, emitting, fetched>>
subsVars    == <<subs, chan, buf>>
closeVars   == <<stopped, closing>>
vars        == <<volumeVars, clusterVars, metaVars, subsVars, closeVars>>

Kinds      == {"deviceList", "playback", "metadata"}
Loops      == {"connection", "update"}
Clusters   == [active : Devices \cup {NoDevice}, track : Tracks \cup {NoTrack}]
NoCluster  == [active |-> NoDevice, track |-> NoTrack]
LoopStates == {"select", "put", "store", "device", "playback", "track", "done"}

TypeOK ==
    /\ VolumeTypeOK
    /\ server \in Clusters /\ cluster \in Clusters
    /\ offersLeft \in 0..MaxOffers
    /\ offer \in Loops \cup {"none"}
    /\ proc \in [Loops -> [at : LoopStates, cluster : Clusters]]
    /\ registered \in BOOLEAN
    /\ lastTrack \in Tracks \cup {NoTrack} /\ lastMeta \in Tracks \cup {NoTrack}
    /\ fetching \in [Tracks -> 0..MaxOffers] /\ emitting \in [Tracks -> 0..MaxOffers]
    /\ fetched \subseteq Tracks
    /\ subs \in [Kinds -> SUBSET Chans]
    /\ chan \in [Chans -> {"none", "open", "closed"}]
    /\ buf \in [Chans -> 0..ChanCap]
    /\ stopped \in BOOLEAN
    /\ closing \in {"no", "timer", "subscribers", "done"}

Init ==
    /\ VolumeInit
    /\ server = NoCluster /\ cluster = NoCluster
    /\ offersLeft \in 0..MaxOffers
    /\ offer = "none"
    /\ proc = [l \in Loops |-> [at |-> "select", cluster |-> NoCluster]]
    /\ registered = FALSE
    /\ lastTrack = NoTrack /\ lastMeta = NoTrack
    /\ fetching = [t \in Tracks |-> 0] /\ emitting = [t \in Tracks |-> 0]
    /\ fetched = {}
    /\ subs = [k \in Kinds |-> {}]
    /\ chan = [c \in Chans |-> "none"]
    /\ buf = [c \in Chans |-> 0]
    /\ stopped = FALSE /\ closing = "no"

Move(l, s) == proc' = [proc EXCEPT ![l].at = s]

-----------------------------------------------------------------------------
\* The dealer, and what the two loops do with its messages.

Offer(l) ==
    /\ offer = "none" /\ offersLeft > 0
    /\ offer' = l
    /\ offersLeft' = offersLeft - 1
    /\ UNCHANGED <<volumeVars, server, proc, cluster, registered, metaVars, subsVars, closeVars>>

LoopStop(l) ==
    /\ proc[l].at = "select" /\ stopped
    /\ Move(l, "done")
    /\ UNCHANGED <<volumeVars, server, offersLeft, offer, cluster, registered,
                   metaVars, subsVars, closeVars>>

\* The dealer was closed, and with it the channels it hands over on.
ChannelClosed(l) ==
    /\ proc[l].at = "select" /\ offer = "none" /\ offersLeft = 0
    /\ Move(l, "done")
    /\ UNCHANGED <<volumeVars, server, offersLeft, offer, cluster, registered,
                   metaVars, subsVars, closeVars>>

\* A connection message (l = "connection") without its header, or an update
\* that does not decode.
BadMessage(l) ==
    /\ offer = l /\ proc[l].at = "select"
    /\ offer' = "none"
    /\ UNCHANGED <<volumeVars, server, offersLeft, proc, cluster, registered,
                   metaVars, subsVars, closeVars>>

\* handleConnectionMessage: RegisterDevice sends the new id.  (The ids
\* themselves are left out: nothing here depends on their values.)
ConnectionMessage ==
    /\ offer = "connection" /\ proc["connection"].at = "select"
    /\ offer' = "none"
    /\ Move("connection", "put")
    /\ UNCHANGED <<volumeVars, server, offersLeft, cluster, registered,
                   metaVars, subsVars, closeVars>>

\* PutConnectState fails, or answers without a cluster that decodes.
RegisterWithoutCluster(ok) ==
    /\ proc["connection"].at = "put"
    /\ Move("connection", "select")
    /\ registered' = (registered \/ ok)
    /\ UNCHANGED <<volumeVars, server, offersLeft, offer, cluster,
                   metaVars, subsVars, closeVars>>

\* The backend answers with the cluster as it knows it then.
RegisterAnswered ==
    /\ proc["connection"].at = "put"
    /\ proc' = [proc EXCEPT !["connection"] = [at |-> "store", cluster |-> server]]
    /\ UNCHANGED <<volumeVars, server, offersLeft, offer, cluster, registered,
                   metaVars, subsVars, closeVars>>

\* handleClusterUpdate: the backend has changed to s and pushed it.
ClusterUpdate(s) ==
    /\ offer = "update" /\ proc["update"].at = "select"
    /\ offer' = "none"
    /\ server' = s
    /\ proc' = [proc EXCEPT !["update"] = [at |-> "store", cluster |-> s]]
    /\ UNCHANGED <<volumeVars, offersLeft, cluster, registered, metaVars, subsVars, closeVars>>

StoreCluster(l) ==
    /\ proc[l].at = "store"
    /\ cluster' = proc[l].cluster
    /\ Move(l, "device")
    /\ UNCHANGED <<volumeVars, server, offersLeft, offer, registered,
                   metaVars, subsVars, closeVars>>

-----------------------------------------------------------------------------
\* processClusterUpdate.

\* A send that waits for room in the channel.
EmitBlocking(kind) ==
    /\ \A c \in subs[kind] : buf[c] < ChanCap
    /\ buf' = [c \in Chans |-> IF c \in subs[kind] THEN buf[c] + 1 ELSE buf[c]]
\* An event to every subscriber of its kind; a full channel loses it.
Emit(kind) ==
    buf' = [c \in Chans |-> IF c \in subs[kind] /\ buf[c] < ChanCap
                            THEN buf[c] + 1 ELSE buf[c]]

\* An update may come without a cluster, which looks like one without a track
\* and an active device; it has no devices to tell of.
EmitDeviceList(l) ==
    /\ proc[l].at = "device"
    /\ Emit("deviceList") \/ (proc[l].cluster = NoCluster /\ UNCHANGED buf)
    /\ Move(l, "playback")
    /\ UNCHANGED <<volumeVars, server, offersLeft, offer, cluster, registered,
                   metaVars, subs, chan, closeVars>>

\* A cluster without a track may still have a player state.
EmitPlayback(l) ==
    /\ proc[l].at = "playback"
    /\ Emit("playback") \/ (proc[l].cluster.track = NoTrack /\ UNCHANGED buf)
    /\ Move(l, "track")
    /\ UNCHANGED <<volumeVars, server, offersLeft, offer, cluster, registered,
                   metaVars, subs, chan, closeVars>>

TrackChangedByCache(track) == track # NoTrack /\ track # cluster.track
TrackChanged(track) == track # NoTrack /\ track # lastTrack

\* The test under lastTrackMu and the start of the fetch; the loop is
\* then through with its message.
CheckTrack(l) ==
    LET track == proc[l].cluster.track
    IN /\ proc[l].at = "track"
       /\ proc' = [proc EXCEPT ![l] = [at |-> "select", cluster |-> NoCluster]]
       /\ registered' = (registered \/ l = "connection")
       /\ IF TrackChanged(track)
          THEN /\ lastTrack' = track
               /\ fetching' = [fetching EXCEPT ![track] = @ + 1]
               /\ fetched' = fetched \cup {track}
          ELSE UNCHANGED <<lastTrack, fetching, fetched>>
       /\ UNCHANGED <<volumeVars, server, offersLeft, offer, cluster,
                      lastMeta, emitting, subsVars, closeVars>>

\* fetchAndEmitMetadata: the URI names no track, or the request fails.
FetchFails(t) ==
    /\ fetching[t] > 0
    /\ fetching' = [fetching EXCEPT ![t] = @ - 1]
    /\ UNCHANGED <<volumeVars, clusterVars, lastTrack, lastMeta, emitting, fetched,
                   subsVars, closeVars>>

FetchDone(t) ==
    /\ fetching[t] > 0
    /\ fetching' = [fetching EXCEPT ![t] = @ - 1]
    /\ lastMeta' = t
    /\ emitting' = [emitting EXCEPT ![t] = @ + 1]
    /\ UNCHANGED <<volumeVars, clusterVars, lastTrack, fetched, subsVars, closeVars>>

EmitMetadata(t) ==
    /\ emitting[t] > 0
    /\ emitting' = [emitting EXCEPT ![t] = @ - 1]
    /\ Emit("metadata")
    /\ UNCHANGED <<volumeVars, clusterVars, lastTrack, lastMeta, fetching, fetched,
                   subs, chan, closeVars>>

-----------------------------------------------------------------------------
\* The application.

\* SubscribeDeviceList, SubscribePlayback, SubscribeMetadata.
Subscribe(c, kind) ==
    /\ chan[c] = "none"
    /\ chan' = [chan EXCEPT ![c] = "open"]
    /\ subs' = [subs EXCEPT ![kind] = @ \cup {c}]
    /\ UNCHANGED <<volumeVars, clusterVars, metaVars, buf, closeVars>>

ReadEvent(c) ==
    /\ buf[c] > 0
    /\ buf' = [buf EXCEPT ![c] = @ - 1]
    /\ UNCHANGED <<volumeVars, clusterVars, metaVars, subs, chan, closeVars>>

CallSetVolume(percent, deviceId) ==
    /\ SetVolume(percent, deviceId, cluster.active)
    /\ UNCHANGED <<clusterVars, metaVars, subsVars, closeVars>>

VolumeRuns ==
    /\ VolumeStep
    /\ UNCHANGED <<clusterVars, metaVars, subsVars, closeVars>>

CloseForgettingStop ==
    /\ closing = "no"
    /\ closing' = "timer"
    /\ UNCHANGED <<volumeVars, clusterVars, metaVars, subsVars, stopped>>
\* Close, once: the stop channel, the timer, the subscribers.
Close ==
    /\ closing = "no"
    /\ closing' = "timer"
    /\ stopped' = TRUE
    /\ UNCHANGED <<volumeVars, clusterVars, metaVars, subsVars>>

CloseTimer ==
    /\ closing = "timer"
    /\ closing' = "subscribers"
    /\ StopTimer
    /\ UNCHANGED <<setsLeft, setters, pending, firing, debouncing, flushes, asked,
                   clusterVars, metaVars, subsVars, stopped>>

Subscribed == UNION {subs[k] : k \in Kinds}

CloseSubscribersKeepingMetadata ==
    /\ closing = "subscribers"
    /\ closing' = "done"
    /\ chan' = [c \in Chans |-> IF c \in Subscribed THEN "closed" ELSE chan[c]]
    /\ subs' = [k \in Kinds |-> IF k = "metadata" THEN subs[k] ELSE {}]
    /\ UNCHANGED <<buf, volumeVars, clusterVars, metaVars, stopped>>
\* closeAllSubscribers closes the channels and empties the lists.
CloseSubscribers ==
    /\ closing = "subscribers"
    /\ closing' = "done"
    /\ chan' = [c \in Chans |-> IF c \in Subscribed THEN "closed" ELSE chan[c]]
    /\ subs' = [k \in Kinds |-> {}]
    /\ UNCHANGED <<buf, volumeVars, clusterVars, metaVars, stopped>>

-----------------------------------------------------------------------------
LoopStep(l) ==
    \/ StoreCluster(l) \/ EmitDeviceList(l) \/ EmitPlayback(l) \/ CheckTrack(l)
Receive(l) ==
    \/ BadMessage(l)
    \/ l = "connection" /\ ConnectionMessage
    \/ l = "update" /\ \E s \in Clusters : ClusterUpdate(s)
Register == RegisterAnswered \/ \E ok \in BOOLEAN : RegisterWithoutCluster(ok)
Fetch(t) == FetchFails(t) \/ FetchDone(t)
Application ==
    \/ \E c \in Chans : ReadEvent(c) \/ \E k \in Kinds : Subscribe(c, k)
    \/ \E p \in Percents, d \in Devices \cup {NoDevice} : CallSetVolume(p, d)
    \/ Close

Next ==
    \/ \E l \in Loops : Offer(l) \/ LoopStop(l) \/ ChannelClosed(l) \/ Receive(l) \/ LoopStep(l)
    \/ Register
    \/ \E t \in Tracks : Fetch(t) \/ EmitMetadata(t)
    \/ Application \/ VolumeRuns \/ CloseTimer \/ CloseSubscribers

\* Goroutines that can run do so, timers fire, requests end (10 s at most).
\* Nothing is assumed of the dealer, of the readers of the events or of the
\* application.
Fairness ==
    /\ \A l \in Loops : WF_vars(LoopStop(l)) /\ WF_vars(Receive(l)) /\ WF_vars(LoopStep(l))
    /\ WF_vars(Register)
    /\ \A t \in Tracks : WF_vars(Fetch(t)) /\ WF_vars(EmitMetadata(t))
    /\ WF_vars(VolumeRuns) /\ WF_vars(CloseTimer) /\ WF_vars(CloseSubscribers)

Spec     == Init /\ [][Next]_vars
FairSpec == Spec /\ Fairness

-----------------------------------------------------------------------------
\* Every channel in a subscriber list is open, so no emission, not even that
\* of a fetch that outlives Close, sends on a closed channel (events.go:162-198
\* against closeAllSubscribers).
ListedIsOpen == \A c \in Subscribed : chan[c] = "open"

\* When no message is being processed, the metadata of the track that the
\* cache shows has been asked for, in whatever order the two loops stored
\* their clusters and made their tests (events.go:241-252).
ShownTrackIsFetched ==
    (\A l \in Loops : proc[l].at \in {"select", "put", "done"})
        => cluster.track \in fetched \cup {NoTrack}

\* A message that the dealer holds out is taken and worked off, or the
\* controller has been closed: registration, fetches and slow subscribers do
\* not hold up the loops, and with them the dealer's only reader
\* (controller.go:243-256, 404-416, events.go:162-198).
OfferIsTaken ==
    \A l \in Loops :
        (offer = l) ~> \/ offer # l /\ proc[l].at \in {"select", "done"}
                       \/ stopped

\* After Close both background goroutines end, whatever they were doing.
CloseEndsLoops == (closing # "no") ~> (\A l \in Loops : proc[l].at = "done")

\* A debounced volume is taken by a flush, although calls, firings and
\* flushes overlap; only Close may drop it.
VolumeIsTaken == debouncing ~> (~debouncing \/ closing # "no")

\* What a flush sends, volume and target, is what one call asked for.
SentAsAsked == \A i \in DOMAIN flushes : flushes[i] \in asked

\* "GetTrackMetadata returns the cached rich metadata for the currently
\* playing track" (events.go:407): once nothing is in progress, the cached
\* metadata is not that of another track.
MetadataOfCurrentTrack ==
    ((\A l \in Loops : proc[l].at \in {"select", "done"})
        /\ (\A t \in Tracks : fetching[t] = 0))
    => lastMeta \in {cluster.track, NoTrack}
=============================================================================
