----------------------------- MODULE Commands -----------------------------
(***************************************************************************)
(* controller/playback.go, transfer.go, playlist.go and the immediate mode *)
(* of volume.go: one call of a command, from the choice of its route to    *)
(* its result.  A command goes to the connect-state endpoint of a target   *)
(* device first and, when that fails, to the player endpoint of the Web    *)
(* API; SetRepeat is two connect-state commands.  Every request is one     *)
(* call of innerRequest, which repeats attempts that failed (Spclient has  *)
(* the tokens and the order of those retries).                             *)
(*                                                                         *)
(* The player (external) executes a request when it answers it, but also   *)
(* may execute one whose answer was lost, at once or later.  Bodies are    *)
(* left out, but for the repeat mode and the devices.                      *)
(***************************************************************************)
EXTENDS Integers, FiniteSets

CONSTANTS Callers,     \* the goroutines that call a command, once each
          Devices, NoDevice,
          MaxAttempts, \* attempts of one innerRequest: 1 + maxTotalRetries
          MaxLate      \* given-up requests that are on their way at a time

VARIABLES
    mayCall,    \* mayCall[c]: the command and device c may ask for (external)
    useWebApi,  \* c.useWebApi
    connected,  \* c.spotConnId # ""
    active,     \* ActiveDeviceId() of the cached cluster
    playing,    \* the device that plays (external)
    repeat,     \* the repeat flags of the player (external)
    call,       \* call[c]: the call of c; see Calls
    late,       \* requests that were given up and may still be executed
    astray,     \* history: callers whose command reached a device they did not name
    disturbed   \* history: callers that another SetRepeat was executed after

envVars     == <<mayCall, useWebApi, connected, active, playing, repeat>>
historyVars == <<astray, disturbed>>
vars        == <<envVars, call, late, historyVars>>

Kinds == {"player",    \* Play, Pause, Next, Previous, Seek, SetShuffle, AddToQueue
          "play",      \* PlayTrack, PlayPlaylist
          "repeat", "transfer", "load", "volume"}
Modes == {"off", "context", "track"}
Steps == {"connect", "second", "web"}  \* the requests a call may make
Flags == [context : BOOLEAN, track : BOOLEAN]
Calls == [at : Steps \cup {"idle", "nil", "error"}, kind : Kinds, mode : Modes,
          device : Devices \cup {NoDevice}, target : Devices \cup {NoDevice},
          tries : 1 .. MaxAttempts]
Requests == [caller : Callers, step : Steps]

ASSUME CommandsAssumption ==
    /\ NoDevice \notin Devices
    /\ MaxAttempts \in Nat \ {0} /\ MaxLate \in Nat

\* A transfer always names its device.
Asks == {a \in [kind : Kinds, device : Devices \cup {NoDevice}] :
            a.kind = "transfer" => a.device # NoDevice}

TypeOK ==
    /\ mayCall \in [Callers -> SUBSET Asks]
    /\ useWebApi \in BOOLEAN /\ connected \in BOOLEAN
    /\ active \in Devices \cup {NoDevice} /\ playing \in Devices
    /\ repeat \in Flags
    /\ call \in [Callers -> Calls]
    /\ late \subseteq Requests
    /\ astray \subseteq Callers /\ disturbed \subseteq Callers

\* The two flags that stand for a mode on the connect-state route.
FlagsOf(mode) == [context |-> mode # "off", track |-> mode = "track"]

Init ==
    /\ mayCall \in [Callers -> SUBSET Asks]
    /\ useWebApi \in BOOLEAN /\ connected \in BOOLEAN
    /\ active \in Devices \cup {NoDevice} /\ playing \in Devices
    /\ repeat \in {FlagsOf(m) : m \in Modes}
    /\ call = [c \in Callers |-> [at |-> "idle", kind |-> "load", mode |-> "off",
                                  device |-> NoDevice, target |-> NoDevice, tries |-> 1]]
    /\ late = {}
    /\ astray = {} /\ disturbed = {}

-----------------------------------------------------------------------------
\* The route

\* resolveTargetDevice
Resolve(device) == IF device # NoDevice THEN device ELSE active

\* Is the connect-state endpoint tried?  PlayTrack, PlayPlaylist and
\* TransferPlayback do not look at useWebApi; LoadTrack knows one route only.
TriesConnect(kind, target) ==
    /\ connected /\ target # NoDevice
    /\ kind # "load"
    /\ useWebApi => kind \in {"play", "transfer"}

\* sendVolumeNow has no fallback for a missing connection id.
FailsAtOnce(kind, target) ==
    kind = "volume" /\ ~useWebApi /\ ~connected /\ target # NoDevice

Begin(c, kind, device, mode) ==
    /\ call[c].at = "idle" /\ [kind |-> kind, device |-> device] \in mayCall[c]
    /\ call' = [call EXCEPT ![c] =
           [kind |-> kind, mode |-> mode, device |-> device,
            target |-> Resolve(device), tries |-> 1,
            at |-> IF TriesConnect(kind, Resolve(device)) THEN "connect"
                   ELSE IF FailsAtOnce(kind, Resolve(device)) THEN "error" ELSE "web"]]
    /\ UNCHANGED <<envVars, late, historyVars>>

\* Play stands for Pause, Next, Previous, Seek and SetShuffle as well.
Play(c, device)             == Begin(c, "player", device, "off")
AddToQueue(c, device)       == Begin(c, "player", device, "off")
PlayTrack(c, device)        == Begin(c, "play", device, "off")
PlayPlaylist(c, device)     == Begin(c, "play", device, "off")
LoadTrack(c, device)        == Begin(c, "load", device, "off")
TransferPlayback(c, device) == Begin(c, "transfer", device, "off")
SetVolume(c, device)        == Begin(c, "volume", device, "off")
SetRepeat(c, device, mode)  == Begin(c, "repeat", device, mode)

Goto(c, s) == call' = [call EXCEPT ![c].at = s, ![c].tries = 1]

-----------------------------------------------------------------------------
\* The player executes a request of c (external)

\* As DeviceOf, with a fallback that leaves the device to the backend.
DeviceOfAnyFallback(c, step) == IF step = "web" THEN playing ELSE call[c].target
\* A Web API request without a device id is for whichever device plays.
DeviceOf(c, step) ==
    IF step # "web" THEN call[c].target
    ELSE IF call[c].device # NoDevice THEN call[c].device ELSE playing

RepeatAfter(c, step) ==
    LET asked == FlagsOf(call[c].mode)
    IN IF call[c].kind # "repeat" THEN repeat
       ELSE CASE step = "connect" -> [repeat EXCEPT !.context = asked.context]
              [] step = "second"  -> [repeat EXCEPT !.track = asked.track]
              [] step = "web"     -> asked

Execute(c, step) ==
    /\ repeat' = RepeatAfter(c, step)
    /\ playing' = IF call[c].kind = "transfer" THEN call[c].device ELSE playing
    /\ astray' = IF call[c].device # NoDevice /\ DeviceOf(c, step) # call[c].device
                 THEN astray \cup {c} ELSE astray
    /\ disturbed' = IF call[c].kind # "repeat" THEN disturbed
                    ELSE disturbed \cup {o \in Callers \ {c} : call[o].at # "idle"}
    /\ UNCHANGED <<mayCall, useWebApi, connected, active>>

\* A request that was given up arrives after all.
ExecuteLate(r) ==
    /\ r \in late
    /\ late' = late \ {r}
    /\ Execute(r.caller, r.step)
    /\ UNCHANGED call

-----------------------------------------------------------------------------
\* The requests of a call

\* Slip: SetRepeat sends one command only.
AnsweredOnce(c) ==
    /\ call[c].at \in Steps
    /\ Execute(c, call[c].at)
    /\ Goto(c, "nil")
    /\ UNCHANGED late

\* 200, 202 or 204.
Answered(c) ==
    /\ call[c].at \in Steps
    /\ Execute(c, call[c].at)
    /\ Goto(c, IF call[c].at = "connect" /\ call[c].kind = "repeat" THEN "second" ELSE "nil")
    /\ UNCHANGED late

\* An attempt that got no answer: its request is lost, or still on its way.
Unanswered(c) ==
    /\ late' \in {late, late \cup {[caller |-> c, step |-> call[c].at]}}
    /\ Cardinality(late') <= MaxLate

\* Slip: one attempt more than the limit.
RetryOffByOne(c) ==
    /\ call[c].at \in Steps /\ call[c].tries <= MaxAttempts
    /\ call' = [call EXCEPT ![c].tries = @ + 1]
    /\ Unanswered(c)
    /\ UNCHANGED <<envVars, historyVars>>

\* A transport error, 401, 429, 502 or 503: innerRequest tries again.
Retry(c) ==
    /\ call[c].at \in Steps /\ call[c].tries < MaxAttempts
    /\ call' = [call EXCEPT ![c].tries = @ + 1]
    /\ Unanswered(c)
    /\ UNCHANGED <<envVars, historyVars>>

\* Slip: the fallback falls back to itself.
AfterFailureAgain(c) ==
    IF call[c].at # "second" /\ call[c].kind # "volume" THEN "web" ELSE "error"

\* What an error of the present request leads to: the fallback, unless it was
\* the second command of SetRepeat, a volume or the fallback itself.
AfterFailure(c) ==
    IF call[c].at = "connect" /\ call[c].kind # "volume" THEN "web" ELSE "error"

\* Another status, which means that the request was not executed.
Refused(c) ==
    /\ call[c].at \in Steps
    /\ Goto(c, AfterFailure(c))
    /\ UNCHANGED <<envVars, late, historyVars>>

\* The retries or the context of innerRequest have run out.
GivesUp(c) ==
    /\ call[c].at \in Steps
    /\ Goto(c, AfterFailure(c))
    /\ Unanswered(c)
    /\ UNCHANGED <<envVars, historyVars>>

-----------------------------------------------------------------------------
\* The rest of the system

\* The first connection id; it changes later but never goes away.
Connect ==
    /\ ~connected /\ connected' = TRUE
    /\ UNCHANGED <<mayCall, useWebApi, active, playing, repeat, call, late, historyVars>>

\* Another application moves the playback (external).
PlaybackMoves ==
    /\ playing' \in Devices
    /\ UNCHANGED <<mayCall, useWebApi, connected, active, repeat, call, late, historyVars>>

\* A cluster update reaches the cache.
ClusterUpdate ==
    /\ active' = playing
    /\ UNCHANGED <<mayCall, useWebApi, connected, playing, repeat, call, late, historyVars>>

CallStep(c) == Answered(c) \/ Retry(c) \/ Refused(c) \/ GivesUp(c)

Next ==
    \/ \E c \in Callers :
         \/ \E d \in Devices \cup {NoDevice} :
              \/ Play(c, d) \/ AddToQueue(c, d) \/ PlayTrack(c, d) \/ PlayPlaylist(c, d)
              \/ LoadTrack(c, d) \/ TransferPlayback(c, d) \/ SetVolume(c, d)
              \/ \E m \in Modes : SetRepeat(c, d, m)
         \/ CallStep(c)
    \/ \E r \in late : ExecuteLate(r)
    \/ Connect \/ PlaybackMoves \/ ClusterUpdate

\* The HTTP client times out after 30 seconds, the back-off after 90.
Fairness == \A c \in Callers : WF_vars(CallStep(c))

Spec     == Init /\ [][Next]_vars
FairSpec == Spec /\ Fairness

-----------------------------------------------------------------------------
\* Properties

\* A command for a named device is executed on no other, on any route, at
\* any attempt, wherever the playback moves meanwhile.
NamedDeviceOnly == astray = {}

\* After SetRepeat returned nil the player has the mode it was asked for,
\* although it may have got there through both routes, through repeated and
\* through late requests; unless another SetRepeat was executed since it began.
RepeatAsAsked ==
    \A c \in Callers :
        call[c].at = "nil" /\ call[c].kind = "repeat" /\ c \notin disturbed
            => repeat = FlagsOf(call[c].mode)

\* Every command returns, through all its attempts and routes.
CommandEnds == \A c \in Callers : call[c].at # "idle" ~> call[c].at \in {"nil", "error"}
=============================================================================
