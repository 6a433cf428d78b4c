------------------------- MODULE ControllerProofs -------------------------
(***************************************************************************)
(* Proofs about Volume and Controller for any devices, tracks, channels    *)
(* and bounds: the conversions of the volume, the three safety properties, *)
(* each with the invariant that carries it, and type correctness, which    *)
(* takes an account of the calls and the messages.                         *)
(***************************************************************************)
EXTENDS Controller, FiniteSetTheorems, SequenceTheorems, TLAPS

\* A percentage set by SetVolume (volume.go:44-50) is shown again by
\* DeviceInfo (events.go:270), or one less, because both truncate; and 100 is
\* the full volume, 0 silence.
THEOREM PercentReadsBack ==
    /\ \A p \in 0..100 : p - ShownVolume(ConnectVolume(p)) \in {0, 1}
    /\ ConnectVolume(0) = 0 /\ ConnectVolume(100) = 65535
  BY SMTT(30) DEF ShownVolume, ConnectVolume, Clamp, MaxVolume, Int32Product

-----------------------------------------------------------------------------
(* Subscribers: what is in a list is open, since a channel enters a list   *)
(* once, when it is made, and Close empties the lists as it closes.        *)

ChanInv ==
    /\ chan \in [Chans -> {"none", "open", "closed"}]
    /\ subs \in [Kinds -> SUBSET Chans]
    /\ ListedIsOpen

\* Every step keeps it; only Subscribe and CloseSubscribers touch it.
LEMMA ChanStep == ChanInv /\ [Next]_vars => ChanInv'
<1> SUFFICES ASSUME ChanInv, [Next]_vars PROVE ChanInv'
  OBVIOUS
<1> USE DEF ChanInv, ListedIsOpen, Subscribed
<1>1. ASSUME NEW c \in Chans, NEW k \in Kinds, Subscribe(c, k) PROVE ChanInv'
  BY <1>1 DEF Subscribe
<1>2. CASE CloseSubscribers
  BY <1>2 DEF CloseSubscribers
<1>3. CASE UNCHANGED <<subs, chan>>
  BY <1>3
<1>4. ASSUME NEW l \in Loops, Offer(l) \/ LoopStop(l) \/ ChannelClosed(l) \/ Receive(l) \/ LoopStep(l)
      PROVE UNCHANGED <<subs, chan>>
  BY <1>4 DEF Offer, LoopStop, ChannelClosed, Receive, BadMessage, ConnectionMessage, ClusterUpdate,
       LoopStep, StoreCluster, EmitDeviceList, EmitPlayback, CheckTrack, subsVars
<1>5. ASSUME Register \/ CloseTimer \/ VolumeRuns PROVE UNCHANGED <<subs, chan>>
  BY <1>5 DEF Register, RegisterAnswered, RegisterWithoutCluster, CloseTimer, VolumeRuns, subsVars
<1>6. ASSUME NEW t \in Tracks, Fetch(t) \/ EmitMetadata(t) PROVE UNCHANGED <<subs, chan>>
  BY <1>6 DEF Fetch, FetchFails, FetchDone, EmitMetadata, subsVars
<1>7. ASSUME Application PROVE ChanInv'
  BY <1>1, <1>3, <1>7 DEF Application, ReadEvent, CallSetVolume, Close, subsVars
<1>8. QED
  BY <1>2, <1>3, <1>4, <1>5, <1>6, <1>7 DEF Next, vars, subsVars

\* No emission ever sends on a closed channel (events.go:162-216).
THEOREM ListedIsOpenHolds == Spec => []ListedIsOpen
<1>1. Init => ChanInv
  BY DEF Init, ChanInv, ListedIsOpen, Subscribed
<1>2. ChanInv => ListedIsOpen
  BY DEF ChanInv
<1> QED BY <1>1, <1>2, ChanStep, PTL DEF Spec

-----------------------------------------------------------------------------
(* Tracks: a loop that has stored its cluster has still to test its track; *)
(* until then, and only then, the track of the cache may not have been     *)
(* fetched.                                                                *)

TrackInv ==
    /\ proc \in [Loops -> [at : LoopStates, cluster : Clusters]]
    /\ server \in Clusters /\ cluster \in Clusters
    /\ lastTrack \in fetched \cup {NoTrack}
    /\ \/ cluster.track \in fetched \cup {NoTrack}
       \/ \E l \in Loops : /\ proc[l].at \in {"device", "playback", "track"}
                           /\ proc[l].cluster.track = cluster.track

trackVars == <<server, cluster, proc, lastTrack, fetched>>

\* Every step keeps it, whichever loop takes it.
LEMMA TrackStep == TrackInv /\ [Next]_vars => TrackInv'
<1> SUFFICES ASSUME TrackInv, [Next]_vars PROVE TrackInv'
  OBVIOUS
<1> USE DEF TrackInv, Loops, LoopStates, Clusters, NoCluster
<1>1. ASSUME NEW l \in Loops, LoopStop(l) \/ ChannelClosed(l) PROVE TrackInv'
  BY <1>1 DEF LoopStop, ChannelClosed, Move, metaVars
<1>2. ASSUME NEW l \in Loops, Receive(l) PROVE TrackInv'
  BY <1>2 DEF Receive, BadMessage, ConnectionMessage, ClusterUpdate, Move, metaVars
<1>3. CASE Register
  BY <1>3 DEF Register, RegisterAnswered, RegisterWithoutCluster, Move, metaVars
<1>4. ASSUME NEW l \in Loops, StoreCluster(l) PROVE TrackInv'
  BY <1>4 DEF StoreCluster, Move, metaVars
<1>5. ASSUME NEW l \in Loops, EmitDeviceList(l) \/ EmitPlayback(l) PROVE TrackInv'
  BY <1>5 DEF EmitDeviceList, EmitPlayback, Move, metaVars
<1>6. ASSUME NEW l \in Loops, CheckTrack(l) PROVE TrackInv'
  BY <1>6 DEF CheckTrack, TrackChanged
<1>7. CASE UNCHANGED trackVars
  BY <1>7 DEF trackVars
<1>8. ASSUME NEW l \in Loops, Offer(l) PROVE UNCHANGED trackVars
  BY <1>8 DEF Offer, metaVars, trackVars
<1>9. ASSUME NEW t \in Tracks, Fetch(t) \/ EmitMetadata(t) PROVE UNCHANGED trackVars
  BY <1>9 DEF Fetch, FetchFails, FetchDone, EmitMetadata, clusterVars, trackVars
<1>10. ASSUME Application \/ VolumeRuns \/ CloseTimer \/ CloseSubscribers PROVE UNCHANGED trackVars
  BY <1>10 DEF Application, Subscribe, ReadEvent, CallSetVolume, Close, VolumeRuns, CloseTimer,
       CloseSubscribers, clusterVars, metaVars, trackVars
<1>11. CASE UNCHANGED vars
  BY <1>7, <1>11 DEF vars, clusterVars, metaVars, trackVars
<1>12. QED
  BY <1>1, <1>2, <1>3, <1>4, <1>5, <1>6, <1>7, <1>8, <1>9, <1>10, <1>11 DEF Next, LoopStep

\* However the two loops interleave (controller.go:379-391, 427-440), the
\* metadata of the track that the cache shows has been asked for once both
\* are through.
THEOREM ShownTrackIsFetchedHolds == Spec => []ShownTrackIsFetched
<1>1. Init => TrackInv
  BY DEF Init, TrackInv, Loops, LoopStates, Clusters, NoCluster
<1>2. TrackInv => ShownTrackIsFetched
  BY DEF TrackInv, ShownTrackIsFetched
<1> QED BY <1>1, <1>2, TrackStep, PTL DEF Spec

-----------------------------------------------------------------------------
(* Volume: whoever arms the timer has recorded a command that was asked    *)
(* for, and what is recorded later replaces it whole.                      *)

CommandInv ==
    /\ \A s \in setters : s.command \in asked
    /\ timer # "nil" => pending \in asked
    /\ firing \in Nat /\ (firing > 0 => timer # "nil")
    /\ flushes \in Seq(asked)

(* A send that ends is one less in progress.                               *)
LEMMA RemoveAtShortens ==
    ASSUME NEW S, NEW s \in Seq(S), NEW i \in DOMAIN s
    PROVE  RemoveAt(s, i) \in Seq(S) /\ Len(RemoveAt(s, i)) = Len(s) - 1
<1>1. SubSeq(s, 1, i-1) \in Seq(S) /\ SubSeq(s, i+1, Len(s)) \in Seq(S)
  OBVIOUS
<1>2. Len(SubSeq(s, 1, i-1)) = i - 1 /\ Len(SubSeq(s, i+1, Len(s))) = Len(s) - i
  OBVIOUS
<1> DEFINE a == SubSeq(s, 1, i-1)
           b == SubSeq(s, i+1, Len(s))
<1>3. RemoveAt(s, i) = a \o b
  BY DEF RemoveAt
<1>4. a \in Seq(S) /\ b \in Seq(S) /\ Len(a) = i - 1 /\ Len(b) = Len(s) - i
  BY <1>1, <1>2
<1> HIDE DEF a, b
<1>5. a \o b \in Seq(S) /\ Len(a \o b) = Len(a) + Len(b)
  BY <1>4, ConcatProperties
<1>6. QED
  BY <1>3, <1>4, <1>5

(* Only SetVolume, the timer and Close touch the volume.                    *)
LEMMA VolumeOnly ==
    [Next]_vars =>
        \/ \E p \in Percents, d \in Devices \cup {NoDevice} : CallSetVolume(p, d)
        \/ VolumeStep \/ CloseTimer \/ UNCHANGED volumeVars
<1>1. ASSUME NEW l \in Loops, Offer(l) \/ LoopStop(l) \/ ChannelClosed(l) \/ Receive(l) \/ LoopStep(l)
      PROVE UNCHANGED volumeVars
  BY <1>1 DEF Offer, LoopStop, ChannelClosed, Receive, BadMessage, ConnectionMessage, ClusterUpdate,
       LoopStep, StoreCluster, EmitDeviceList, EmitPlayback, CheckTrack
<1>2. ASSUME Register \/ CloseSubscribers PROVE UNCHANGED volumeVars
  BY <1>2 DEF Register, RegisterAnswered, RegisterWithoutCluster, CloseSubscribers
<1>3. ASSUME NEW t \in Tracks, Fetch(t) \/ EmitMetadata(t) PROVE UNCHANGED volumeVars
  BY <1>3 DEF Fetch, FetchFails, FetchDone, EmitMetadata
<1>4. CASE Application
  BY <1>4 DEF Application, Subscribe, ReadEvent, Close
<1>5. QED
  BY <1>1, <1>2, <1>3, <1>4 DEF Next, vars, VolumeRuns

\* Every step keeps it: asked only grows, and pending is assigned whole.
LEMMA CommandStep == CommandInv /\ [Next]_vars => CommandInv'
<1> SUFFICES ASSUME CommandInv, [Next]_vars PROVE CommandInv'
  OBVIOUS
<1> USE DEF CommandInv
<1>1. ASSUME NEW p \in Percents, NEW d \in Devices \cup {NoDevice}, CallSetVolume(p, d)
      PROVE CommandInv'
  BY <1>1 DEF CallSetVolume, SetVolume
<1>2. ASSUME NEW s \in setters, Debounce(s) PROVE CommandInv'
  BY <1>2 DEF Debounce
<1>3. CASE TimerFires
  BY <1>3 DEF TimerFires
<1>4. CASE FlushVolume
  BY <1>4 DEF FlushVolume
<1>5. ASSUME NEW i \in DOMAIN flushes, SendVolumeNow(i) PROVE CommandInv'
  BY <1>5, RemoveAtShortens DEF SendVolumeNow
<1>6. CASE CloseTimer
  BY <1>6 DEF CloseTimer, StopTimer
<1>7. CASE UNCHANGED volumeVars
  BY <1>7 DEF volumeVars
<1>8. QED
  BY <1>1, <1>2, <1>3, <1>4, <1>5, <1>6, <1>7, VolumeOnly DEF VolumeStep

\* A flush never sends the volume of one call to the target of another
\* (volume.go:54-65 against 77-91).
THEOREM SentAsAskedHolds == Spec => []SentAsAsked
<1>1. Init => CommandInv
  BY DEF Init, VolumeInit, CommandInv
<1>2. CommandInv => SentAsAsked
  BY DEF CommandInv, SentAsAsked
<1> QED BY <1>1, <1>2, CommandStep, PTL DEF Spec

-----------------------------------------------------------------------------
(* Types.  Nothing in the code bounds the goroutines that fire, send and   *)
(* fetch; what does is that a call of SetVolume accounts for one of them   *)
(* at a time, and so does a message of the dealer.                         *)

Armed   == IF timer = "armed" THEN 1 ELSE 0
Offered == IF offer = "none" THEN 0 ELSE 1
Busy    == [l \in Loops |-> IF proc[l].at \in {"select", "done"} THEN 0 ELSE 1]
Messages == offersLeft + Offered + Busy["connection"] + Busy["update"]

\* A call is still to come, before volumeMu, in the timer, in a goroutine
\* that the timer has started, or being sent; it may also have been dropped.
CallInv ==
    /\ setsLeft \in Nat /\ firing \in Nat
    /\ IsFiniteSet(setters)
    /\ setters \subseteq [call : 1..MaxSets, command : Commands]
    /\ pending \in Commands /\ flushes \in Seq(Commands) /\ asked \subseteq Commands
    /\ timer \in {"nil", "armed", "idle"}
    /\ setsLeft + Cardinality(setters) + Armed + firing + Len(flushes) <= MaxSets

\* A message is still to come, held out, being worked off by a loop, or has
\* become a fetch.
MessageInv ==
    /\ offersLeft \in Nat
    /\ offer \in Loops \cup {"none"}
    /\ proc \in [Loops -> [at : LoopStates, cluster : Clusters]]
    /\ server \in Clusters /\ cluster \in Clusters
    /\ lastTrack \in Tracks \cup {NoTrack} /\ lastMeta \in Tracks \cup {NoTrack}
    /\ fetched \subseteq Tracks
    /\ fetching \in [Tracks -> Nat] /\ emitting \in [Tracks -> Nat]
    /\ Messages <= MaxOffers
    /\ \A t \in Tracks : Messages + fetching[t] + emitting[t] <= MaxOffers

EventInv ==
    /\ subs \in [Kinds -> SUBSET Chans]
    /\ chan \in [Chans -> {"none", "open", "closed"}]
    /\ buf \in [Chans -> 0..ChanCap]

FlagInv ==
    /\ debouncing \in BOOLEAN /\ registered \in BOOLEAN /\ stopped \in BOOLEAN
    /\ closing \in {"no", "timer", "subscribers", "done"}

(* The volume of a command is one of connect-state, of any percentage.     *)
LEMMA ConnectVolumeType == \A p \in Percents : ConnectVolume(p) \in 0..MaxVolume
<1>1. ASSUME NEW p \in Percents PROVE Int32Product(p) \in Int
  BY VolumeAssumption DEF Int32Product
<1>2. ASSUME NEW v \in Int PROVE Clamp(v) \in 0..MaxVolume
  <2>1. MaxVolume \in Nat
    BY DEF MaxVolume
  <2>2. QED
    BY <2>1 DEF Clamp
<1>3. ASSUME NEW v \in Int PROVE v \div 100 \in Int
  OBVIOUS
<1>4. QED
  BY <1>1, <1>2, <1>3 DEF ConnectVolume

(* A call of SetVolume adds its command, or goes to the Web API.            *)
LEMMA SetVolumeAdds ==
    ASSUME CallInv, cluster \in Clusters,
           NEW p \in Percents, NEW d \in Devices \cup {NoDevice}, CallSetVolume(p, d)
    PROVE  \/ UNCHANGED <<setters, asked>>
           \/ \E c \in [call : 1..MaxSets, command : Commands] :
                setters' = setters \cup {c} /\ asked' = asked \cup {c.command}
<1> DEFINE target  == IF d # NoDevice THEN d ELSE cluster.active
           command == [volume |-> ConnectVolume(p), target |-> target]
           call    == [call |-> setsLeft, command |-> command]
<1>1. command \in Commands
  BY ConnectVolumeType DEF Commands, Clusters
<1>2. setsLeft \in 1..MaxSets
  <2>1. setsLeft > 0
    BY DEF CallSetVolume, SetVolume
  <2>2. Cardinality(setters) \in Nat
    BY FS_CardinalityType DEF CallInv
  <2>3. QED
    BY <2>1, <2>2, VolumeAssumption DEF CallInv, Armed
<1>3. \/ UNCHANGED <<setters, asked>>
      \/ setters' = setters \cup {call} /\ asked' = asked \cup {command}
  BY DEF CallSetVolume, SetVolume
<1>4. call \in [call : 1..MaxSets, command : Commands] /\ call.command = command
  BY <1>1, <1>2
<1> HIDE DEF call, command
<1>5. QED
  BY <1>3, <1>4, Zenon

(* A set that gets an element grows by one at most.                        *)
LEMMA OneMore ==
    ASSUME NEW S, IsFiniteSet(S), NEW x
    PROVE  /\ IsFiniteSet(S \cup {x}) /\ Cardinality(S \cup {x}) \in Nat
           /\ Cardinality(S \cup {x}) <= Cardinality(S) + 1
<1>1. Cardinality(S) \in Nat
  BY FS_CardinalityType
<1>2. CASE x \in S
  <2>1. S \cup {x} = S
    BY <1>2
  <2>2. Cardinality(S \cup {x}) = Cardinality(S) /\ IsFiniteSet(S \cup {x})
    BY <2>1, Zenon
  <2>3. QED
    BY <1>1, <2>2
<1>3. CASE x \notin S
  <2>1. IsFiniteSet(S \cup {x}) /\ Cardinality(S \cup {x}) = Cardinality(S) + 1
    BY <1>3, FS_AddElement
  <2>2. QED
    BY <1>1, <2>1
<1>4. QED
  BY <1>2, <1>3

(* The calls of SetVolume are accounted for.                               *)
LEMMA CallStep == ASSUME CallInv, cluster \in Clusters, [Next]_vars PROVE CallInv'
<1>0. Cardinality(setters) \in Nat
  BY FS_CardinalityType DEF CallInv
<1>grows. ASSUME NEW x, setters' = setters \cup {x}
      PROVE  /\ IsFiniteSet(setters') /\ Cardinality(setters') \in Nat
             /\ Cardinality(setters') <= Cardinality(setters) + 1
  <2>1. IsFiniteSet(setters)
    BY DEF CallInv
  <2>2. /\ IsFiniteSet(setters \cup {x}) /\ Cardinality(setters \cup {x}) \in Nat
        /\ Cardinality(setters \cup {x}) <= Cardinality(setters) + 1
    BY <2>1, OneMore
  <2>3. QED
    BY <1>grows, <2>2, Zenon
<1>counts. /\ setsLeft \in Nat /\ Armed \in Nat /\ firing \in Nat /\ Len(flushes) \in Nat /\ MaxSets \in Nat
           /\ setsLeft + Cardinality(setters) + Armed + firing + Len(flushes) <= MaxSets
  BY VolumeAssumption DEF CallInv, Armed
<1>1. ASSUME NEW p \in Percents, NEW d \in Devices \cup {NoDevice}, CallSetVolume(p, d)
      PROVE CallInv'
  <2>1. setsLeft > 0 /\ setsLeft' = setsLeft - 1 /\ UNCHANGED <<pending, timer, firing, flushes>>
    BY <1>1 DEF CallSetVolume, SetVolume
  <2>2. CASE UNCHANGED <<setters, asked>>
    <3>1. setsLeft' \in Nat /\ firing' \in Nat /\ Armed' = Armed /\ Armed \in Nat /\ Len(flushes') \in Nat
      BY <2>1 DEF CallInv, Armed
    <3>2. IsFiniteSet(setters') /\ Cardinality(setters') = Cardinality(setters)
      BY <2>2, Zenon DEF CallInv
    <3>3. setsLeft' + Cardinality(setters') + Armed' + firing' + Len(flushes') <= MaxSets
      BY <1>0, <1>counts, <2>1, <3>1, <3>2
    <3>4. QED
      BY <2>1, <2>2, <3>1, <3>2, <3>3 DEF CallInv
  <2>3. ASSUME NEW c \in [call : 1..MaxSets, command : Commands],
               setters' = setters \cup {c}, asked' = asked \cup {c.command}
        PROVE  CallInv'
    <3>1. /\ IsFiniteSet(setters') /\ Cardinality(setters') \in Nat
          /\ Cardinality(setters') <= Cardinality(setters) + 1
      BY <1>grows, <2>3
    <3>2. setsLeft' \in Nat /\ firing' \in Nat /\ Armed' = Armed /\ Armed \in Nat /\ Len(flushes') \in Nat
      BY <2>1 DEF CallInv, Armed
    <3>3. setsLeft' + Cardinality(setters') + Armed' + firing' + Len(flushes') <= MaxSets
      BY <1>0, <1>counts, <2>1, <3>1, <3>2
    <3>4. setters' \subseteq [call : 1..MaxSets, command : Commands] /\ asked' \subseteq Commands
      BY <2>3 DEF CallInv
    <3>5. pending' \in Commands /\ flushes' \in Seq(Commands) /\ timer' \in {"nil", "armed", "idle"}
      BY <2>1 DEF CallInv
    <3>6. QED
      BY <3>1, <3>2, <3>3, <3>4, <3>5 DEF CallInv
  <2>4. QED
    BY <1>1, <2>2, <2>3, SetVolumeAdds
<1> USE VolumeAssumption DEF CallInv, Armed
<1>2. ASSUME NEW s \in setters, Debounce(s) PROVE CallInv'
  <2>1. /\ setters' = setters \ {s} /\ pending' = s.command /\ timer' = "armed"
        /\ UNCHANGED <<setsLeft, firing, flushes, asked>>
    BY <1>2 DEF Debounce
  <2>2. IsFiniteSet(setters') /\ Cardinality(setters') = Cardinality(setters) - 1
    BY <2>1, FS_RemoveElement
  <2>3. QED
    BY <1>0, <2>1, <2>2
<1>3. CASE TimerFires
  BY <1>0, <1>3 DEF TimerFires
<1>4. CASE FlushVolume
  <2>1. flushes' \in Seq(Commands) /\ Len(flushes') = Len(flushes) + 1
    BY <1>4 DEF FlushVolume
  <2>2. QED
    BY <1>0, <1>4, <2>1 DEF FlushVolume
<1>5. ASSUME NEW i \in DOMAIN flushes, SendVolumeNow(i) PROVE CallInv'
  <2>1. flushes' \in Seq(Commands) /\ Len(flushes') = Len(flushes) - 1
    BY <1>5, RemoveAtShortens DEF SendVolumeNow
  <2>2. QED
    BY <1>0, <1>5, <2>1 DEF SendVolumeNow
<1>6. CASE CloseTimer
  BY <1>0, <1>6 DEF CloseTimer, StopTimer
<1>7. CASE UNCHANGED volumeVars
  BY <1>7 DEF volumeVars
<1>8. QED
  BY <1>1, <1>2, <1>3, <1>4, <1>5, <1>6, <1>7, VolumeOnly DEF VolumeStep

(* What the counts range over.                                             *)
LEMMA BusyType ==
    ASSUME offersLeft \in Nat
    PROVE  Offered \in {0, 1} /\ Busy \in [Loops -> {0, 1}] /\ Messages \in Nat
<1>1. Offered \in {0, 1} /\ Busy \in [Loops -> {0, 1}]
  BY DEF Offered, Busy
<1>2. QED
  BY <1>1 DEF Messages, Loops

(* The messages of the dealer are accounted for.                           *)
LEMMA MessageStep == ASSUME MessageInv, [Next]_vars PROVE MessageInv'
<1> USE ControllerAssumption DEF MessageInv
<1>0. Messages \in Nat
  BY BusyType
<1>1. ASSUME NEW l \in Loops, Offer(l) PROVE MessageInv'
  <2>1. /\ offersLeft' \in Nat /\ offer' \in Loops /\ offersLeft' = offersLeft - 1 /\ offer = "none"
        /\ UNCHANGED <<proc, server, cluster, lastTrack, lastMeta, fetched, fetching, emitting>>
    BY <1>1 DEF Offer, metaVars
  <2>2. Offered = 0 /\ Offered' = 1 /\ Busy' = Busy
    BY <2>1 DEF Offered, Busy, Loops
  <2>3. Messages' = Messages
    BY <2>1, <2>2, BusyType DEF Messages, Loops
  <2>4. QED
    BY <2>1, <2>3
<1>2. ASSUME NEW l \in Loops, LoopStop(l) \/ ChannelClosed(l) PROVE MessageInv'
  <2>1. /\ proc[l].at = "select" /\ Move(l, "done")
        /\ UNCHANGED <<offersLeft, offer, server, cluster, lastTrack, lastMeta, fetched, fetching, emitting>>
    BY <1>2 DEF LoopStop, ChannelClosed, metaVars
  <2>2. proc' \in [Loops -> [at : LoopStates, cluster : Clusters]] /\ Busy' = Busy /\ Offered' = Offered
    BY <2>1 DEF Move, LoopStates, Offered, Busy
  <2>3. Messages' = Messages
    BY <2>1, <2>2 DEF Messages
  <2>4. QED
    BY <2>1, <2>2, <2>3
<1>3. ASSUME NEW l \in Loops, BadMessage(l) PROVE MessageInv'
  <2>1. /\ offer = l /\ offer' = "none"
        /\ UNCHANGED <<offersLeft, proc, server, cluster, lastTrack, lastMeta, fetched, fetching, emitting>>
    BY <1>3 DEF BadMessage, metaVars
  <2>2. Offered = 1 /\ Offered' = 0 /\ Busy' = Busy
    BY <2>1 DEF Offered, Busy, Loops
  <2>3. Messages' \in Int /\ Messages' <= Messages
    BY <2>1, <2>2, BusyType DEF Messages, Loops
  <2>4. QED
    BY <1>0, <2>1, <2>3
\* A loop takes the message that is held out.
<1>4. ASSUME NEW l \in Loops, (\/ l = "connection" /\ ConnectionMessage
                               \/ l = "update" /\ \E s \in Clusters : ClusterUpdate(s))
      PROVE  MessageInv'
  <2>1. /\ offer = l /\ offer' = "none" /\ proc[l].at = "select"
        /\ UNCHANGED <<offersLeft, cluster, lastTrack, lastMeta, fetched, fetching, emitting>>
    BY <1>4 DEF ConnectionMessage, ClusterUpdate, metaVars
  <2>2. server' \in Clusters /\ proc' \in [Loops -> [at : LoopStates, cluster : Clusters]]
    BY <1>4 DEF ConnectionMessage, ClusterUpdate, Move, LoopStates
  <2>3. proc'[l].at \in {"put", "store"} /\ \A m \in Loops \ {l} : proc'[m] = proc[m]
    BY <1>4 DEF ConnectionMessage, ClusterUpdate, Move
  <2>4. Offered = 1 /\ Offered' = 0 /\ Busy' = [Busy EXCEPT ![l] = 1] /\ Busy[l] = 0
    BY <2>1, <2>3 DEF Offered, Busy, Loops
  <2>5. Messages' = Messages
    BY <2>1, <2>4, BusyType DEF Messages, Loops
  <2>6. QED
    BY <2>1, <2>2, <2>5
\* A loop works on, or has failed to register.
<1>5. ASSUME NEW l \in Loops, proc[l].at \notin {"select", "done"},
             \A m \in Loops \ {l} : proc'[m] = proc[m],
             proc' \in [Loops -> [at : LoopStates, cluster : Clusters]], cluster' \in Clusters,
             UNCHANGED <<offersLeft, offer, server, lastTrack, lastMeta, fetched, fetching, emitting>>
      PROVE  MessageInv'
  <2>1. Offered' = Offered /\ Busy[l] = 1 /\ Busy'[l] \in {0, 1}
    BY <1>5 DEF Offered, Busy
  <2>2. \A m \in Loops \ {l} : Busy'[m] = Busy[m]
    BY <1>5 DEF Busy
  <2>3. Messages' \in Int /\ Messages' <= Messages
    BY <1>5, <2>1, <2>2, BusyType DEF Messages, Loops
  <2>4. QED
    BY <1>0, <1>5, <2>3
<1>6. CASE Register
  <2>1. /\ proc["connection"].at = "put" /\ \A m \in Loops \ {"connection"} : proc'[m] = proc[m]
        /\ proc' \in [Loops -> [at : LoopStates, cluster : Clusters]] /\ cluster' = cluster
    BY <1>6 DEF Register, RegisterAnswered, RegisterWithoutCluster, Move, LoopStates
  <2>2. UNCHANGED <<offersLeft, offer, server, lastTrack, lastMeta, fetched, fetching, emitting>>
    BY <1>6 DEF Register, RegisterAnswered, RegisterWithoutCluster, metaVars
  <2>3. QED
    BY <1>5, <2>1, <2>2 DEF Loops
<1>7. ASSUME NEW l \in Loops, StoreCluster(l) \/ EmitDeviceList(l) \/ EmitPlayback(l) PROVE MessageInv'
  <2>1. /\ proc[l].at \in {"store", "device", "playback"} /\ \A m \in Loops \ {l} : proc'[m] = proc[m]
        /\ proc' \in [Loops -> [at : LoopStates, cluster : Clusters]] /\ cluster' \in Clusters
    BY <1>7 DEF StoreCluster, EmitDeviceList, EmitPlayback, Move, LoopStates
  <2>2. UNCHANGED <<offersLeft, offer, server, lastTrack, lastMeta, fetched, fetching, emitting>>
    BY <1>7 DEF StoreCluster, EmitDeviceList, EmitPlayback, metaVars
  <2>3. QED
    BY <1>5, <2>1, <2>2
\* The message of a loop that is through with it becomes a fetch, or nothing.
<1>8. ASSUME NEW l \in Loops, CheckTrack(l) PROVE MessageInv'
  <2> DEFINE track == proc[l].cluster.track
  <2>1. /\ proc[l].at = "track" /\ proc' = [proc EXCEPT ![l] = [at |-> "select", cluster |-> NoCluster]]
        /\ UNCHANGED <<offersLeft, offer, server, cluster, lastMeta, emitting>>
    BY <1>8 DEF CheckTrack
  <2>2. proc' \in [Loops -> [at : LoopStates, cluster : Clusters]]
    BY <2>1 DEF LoopStates, Clusters, NoCluster
  <2>3. Offered' = Offered /\ Busy[l] = 1 /\ Busy' = [Busy EXCEPT ![l] = 0]
    BY <2>1 DEF Offered, Busy
  <2>4. Messages' \in Int /\ Messages' = Messages - 1
    BY <2>1, <2>3, BusyType DEF Messages, Loops
  <2>5. CASE UNCHANGED <<lastTrack, fetching, fetched>>
    BY <1>0, <2>1, <2>2, <2>4, <2>5
  <2>6. CASE track \in Tracks /\ lastTrack' = track /\ fetching' = [fetching EXCEPT ![track] = @ + 1]
             /\ fetched' = fetched \cup {track}
    <3>1. fetching' \in [Tracks -> Nat] /\ \A t \in Tracks : fetching'[t] <= fetching[t] + 1
      BY <2>6
    <3>2. \A t \in Tracks : Messages' + fetching'[t] + emitting'[t] <= MaxOffers
      BY <1>0, <2>1, <2>4, <3>1, ControllerAssumption
    <3>3. QED
      BY <1>0, <2>1, <2>2, <2>4, <2>6, <3>1, <3>2, ControllerAssumption
  <2>7. QED
    BY <1>8, <2>5, <2>6 DEF CheckTrack, TrackChanged, Clusters
<1>9. ASSUME NEW t \in Tracks, Fetch(t) \/ EmitMetadata(t) PROVE MessageInv'
  <2>1. UNCHANGED <<offersLeft, offer, proc, server, cluster, lastTrack, fetched>> /\ lastMeta' \in {lastMeta, t}
    BY <1>9 DEF Fetch, FetchFails, FetchDone, EmitMetadata, clusterVars
  <2>2. Messages' = Messages
    BY <2>1 DEF Messages, Offered, Busy
  <2>3. fetching' \in [Tracks -> Nat] /\ emitting' \in [Tracks -> Nat]
    BY <1>9 DEF Fetch, FetchFails, FetchDone, EmitMetadata
  <2>4. \A s \in Tracks : fetching'[s] + emitting'[s] <= fetching[s] + emitting[s]
    BY <1>9 DEF Fetch, FetchFails, FetchDone, EmitMetadata
  <2>5. QED
    BY <1>0, <2>1, <2>2, <2>3, <2>4, ControllerAssumption
<1>10. CASE UNCHANGED <<server, offersLeft, offer, proc, cluster, metaVars>>
  BY <1>10 DEF metaVars, Messages, Offered, Busy
<1>11. CASE Application \/ VolumeRuns \/ CloseTimer \/ CloseSubscribers
  <2>1. UNCHANGED <<clusterVars, metaVars>>
    BY <1>11 DEF Application, Subscribe, ReadEvent, CallSetVolume, Close, VolumeRuns, CloseTimer, CloseSubscribers
  <2>2. QED
    BY <1>10, <2>1 DEF clusterVars
<1>12. CASE UNCHANGED vars
  BY <1>10, <1>12 DEF vars, clusterVars
<1> HIDE DEF MessageInv
<1>13. ASSUME NEW l \in Loops, Receive(l) PROVE MessageInv'
  BY <1>3, <1>4, <1>13 DEF Receive
<1>14. ASSUME NEW l \in Loops, LoopStep(l) PROVE MessageInv'
  BY <1>7, <1>8, <1>14 DEF LoopStep
<1>15. QED
  BY <1>1, <1>2, <1>6, <1>9, <1>11, <1>12, <1>13, <1>14 DEF Next

(* A channel never holds more than its room.                               *)
LEMMA EventStep == ASSUME EventInv, [Next]_vars PROVE EventInv'
<1> USE ControllerAssumption DEF EventInv
<1>1. ASSUME NEW c \in Chans, NEW k \in Kinds, Subscribe(c, k) PROVE EventInv'
  BY <1>1 DEF Subscribe
<1>2. ASSUME NEW c \in Chans, ReadEvent(c) PROVE EventInv'
  BY <1>2 DEF ReadEvent
<1>3. ASSUME NEW k \in Kinds, Emit(k), UNCHANGED <<subs, chan>> PROVE EventInv'
  BY <1>3 DEF Emit
<1>4. CASE CloseSubscribers
  BY <1>4 DEF CloseSubscribers
<1>5. CASE UNCHANGED subsVars
  BY <1>5 DEF subsVars
<1>6. ASSUME NEW l \in Loops, EmitDeviceList(l) \/ EmitPlayback(l) PROVE EventInv'
  BY <1>3, <1>5, <1>6 DEF EmitDeviceList, EmitPlayback, Kinds, subsVars
<1>7. ASSUME NEW l \in Loops, Offer(l) \/ LoopStop(l) \/ ChannelClosed(l) \/ Receive(l)
                               \/ StoreCluster(l) \/ CheckTrack(l)
      PROVE UNCHANGED subsVars
  BY <1>7 DEF Offer, LoopStop, ChannelClosed, Receive, BadMessage, ConnectionMessage, ClusterUpdate,
       StoreCluster, CheckTrack
<1>8. ASSUME Register \/ CloseTimer \/ VolumeRuns PROVE UNCHANGED subsVars
  BY <1>8 DEF Register, RegisterAnswered, RegisterWithoutCluster, CloseTimer, VolumeRuns
<1>9. ASSUME NEW t \in Tracks, Fetch(t) PROVE UNCHANGED subsVars
  BY <1>9 DEF Fetch, FetchFails, FetchDone
<1>10. ASSUME NEW t \in Tracks, EmitMetadata(t) PROVE EventInv'
  BY <1>3, <1>10 DEF EmitMetadata, Kinds
<1>11. CASE Application
  BY <1>1, <1>2, <1>5, <1>11 DEF Application, CallSetVolume, Close
<1>12. QED
  BY <1>4, <1>5, <1>6, <1>7, <1>8, <1>9, <1>10, <1>11 DEF Next, LoopStep, vars

(* The flags and the phases of Close.                                      *)
LEMMA FlagStep == ASSUME FlagInv, [Next]_vars PROVE FlagInv'
<1> USE DEF FlagInv
<1>1. ASSUME NEW l \in Loops, Offer(l) \/ LoopStop(l) \/ ChannelClosed(l) \/ Receive(l) \/ LoopStep(l)
      PROVE FlagInv'
  BY <1>1, Zenon DEF Offer, LoopStop, ChannelClosed, Receive, BadMessage, ConnectionMessage, ClusterUpdate,
       LoopStep, StoreCluster, EmitDeviceList, EmitPlayback, CheckTrack, volumeVars, closeVars
<1>2. ASSUME Register \/ CloseTimer \/ CloseSubscribers PROVE FlagInv'
  BY <1>2 DEF Register, RegisterAnswered, RegisterWithoutCluster, CloseTimer, CloseSubscribers,
       volumeVars, clusterVars, closeVars
<1>3. ASSUME NEW t \in Tracks, Fetch(t) \/ EmitMetadata(t) PROVE FlagInv'
  BY <1>3 DEF Fetch, FetchFails, FetchDone, EmitMetadata, volumeVars, clusterVars, closeVars
<1>4. CASE VolumeRuns
  BY <1>4 DEF VolumeRuns, VolumeStep, Debounce, TimerFires, FlushVolume, SendVolumeNow, clusterVars, closeVars
<1>5. CASE Application
  BY <1>5 DEF Application, Subscribe, ReadEvent, CallSetVolume, SetVolume, Close, volumeVars, clusterVars, closeVars
<1>6. CASE UNCHANGED vars
  BY <1>6 DEF vars, volumeVars, clusterVars, closeVars
<1>7. QED
  BY <1>1, <1>2, <1>3, <1>4, <1>5, <1>6 DEF Next

(* Type correctness: the goroutines of the volume and of the metadata are   *)
(* never more than the calls and the messages.                              *)
THEOREM TypeCorrect == Spec => []TypeOK
<1> DEFINE IInv == CallInv /\ MessageInv /\ EventInv /\ FlagInv
<1>1. Init => IInv
  <2> SUFFICES ASSUME Init PROVE IInv
    OBVIOUS
  <2>1. CallInv
    <3>1. /\ setsLeft \in 0..MaxSets /\ setters = {} /\ timer = "nil" /\ firing = 0
          /\ flushes = <<>> /\ asked = {}
      BY DEF Init, VolumeInit
    <3>2. IsFiniteSet(setters) /\ Cardinality(setters) = 0
      BY <3>1, FS_EmptySet
    <3>3. pending \in Commands
      BY DEF Init, VolumeInit, Commands, MaxVolume
    <3>4. flushes \in Seq(Commands) /\ Len(flushes) = 0 /\ Armed = 0
      BY <3>1 DEF Armed
    <3>5. QED
      BY <3>1, <3>2, <3>3, <3>4, VolumeAssumption DEF CallInv
  <2> USE ControllerAssumption DEF Init
  <2>2. MessageInv
    <3>1. Offered = 0 /\ Busy["connection"] = 0 /\ Busy["update"] = 0
      BY DEF Offered, Busy, Loops
    <3>2. Messages = offersLeft
      BY <3>1 DEF Messages
    <3>3. QED
      BY <3>2 DEF MessageInv, Loops, LoopStates, Clusters, NoCluster
  <2>3. EventInv
    BY DEF EventInv
  <2>4. FlagInv
    BY DEF VolumeInit, FlagInv
  <2>5. QED
    BY <2>1, <2>2, <2>3, <2>4
<1>2. IInv /\ [Next]_vars => IInv'
  BY CallStep, MessageStep, EventStep, FlagStep DEF MessageInv
<1>3. IInv => TypeOK
  <2> SUFFICES ASSUME IInv PROVE TypeOK
    OBVIOUS
  <2>1. setsLeft \in 0..MaxSets /\ firing \in 0..MaxSets /\ Len(flushes) <= MaxSets
    <3>1. Cardinality(setters) \in Nat /\ Len(flushes) \in Nat
      BY FS_CardinalityType DEF CallInv
    <3>2. QED
      BY <3>1, VolumeAssumption DEF CallInv, Armed
  <2>2. /\ offersLeft \in 0..MaxOffers
        /\ fetching \in [Tracks -> 0..MaxOffers] /\ emitting \in [Tracks -> 0..MaxOffers]
    <3>1. offersLeft \in Nat /\ Offered \in {0, 1} /\ Busy["connection"] \in {0, 1} /\ Busy["update"] \in {0, 1}
      BY BusyType DEF MessageInv, Loops
    <3>2. offersLeft <= Messages /\ Messages \in Nat
      BY <3>1 DEF Messages
    <3>3. offersLeft \in 0..MaxOffers
      BY <3>2, ControllerAssumption DEF MessageInv
    <3>4. ASSUME NEW t \in Tracks PROVE fetching[t] \in 0..MaxOffers /\ emitting[t] \in 0..MaxOffers
      BY <3>2, ControllerAssumption DEF MessageInv
    <3>5. QED
      BY <3>3, <3>4 DEF MessageInv
  <2>3. VolumeTypeOK
    BY <2>1 DEF VolumeTypeOK, CallInv, FlagInv
  <2>4. QED
    BY <2>2, <2>3 DEF TypeOK, MessageInv, EventInv, FlagInv
<1>4. QED
  BY <1>1, <1>2, <1>3, PTL DEF Spec
=============================================================================
