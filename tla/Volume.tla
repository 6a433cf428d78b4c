------------------------------ MODULE Volume ------------------------------
(***************************************************************************)
(* controller/volume.go: the debounced volume of the connect-state path    *)
(* (UseWebApi false, a positive debounce time).  Callers record the volume *)
(* and (re)set one timer; each time the timer fires the runtime starts a   *)
(* goroutine that takes what is recorded then and sends it.  A step is     *)
(* what happens under one hold of volumeMu, or between two.                *)
(***************************************************************************)
EXTENDS Integers, SequencesExt

CONSTANTS Devices,   \* device ids
          NoDevice,  \* the empty id
          Percents,  \* the volumes that callers ask for
          MaxSets    \* bound: calls of SetVolume

ASSUME VolumeAssumption ==
    /\ NoDevice \notin Devices /\ MaxSets \in Nat
    /\ \A p \in Percents : p \in Nat /\ p < 65536

VARIABLES
    setsLeft,    \* calls of SetVolume still to come
    setters,     \* calls that have chosen volume and target, before volumeMu
    pending,     \* pendingVolume and pendingVolumeId
    timer,       \* volumeTimer
    firing,      \* goroutines of the timer that are not yet in flushVolume
    debouncing,  \* volumeDebouncing
    flushes,     \* what the goroutines in sendVolumeNow are sending
    asked        \* history: the commands that calls have chosen

volumeVars == <<setsLeft, setters, pending, timer, firing, debouncing, flushes, asked>>

MaxVolume == 65535  \* the full volume of the connect state

Commands == [volume : 0..MaxVolume, target : Devices \cup {NoDevice}]

VolumeTypeOK ==
    /\ setsLeft \in 0..MaxSets
    /\ setters \subseteq [call : 1..MaxSets, command : Commands]
    /\ pending \in Commands
    /\ timer \in {"nil", "armed", "idle"}
    /\ firing \in 0..MaxSets
    /\ debouncing \in BOOLEAN
    /\ flushes \in Seq(Commands) /\ Len(flushes) <= MaxSets
    /\ asked \subseteq Commands

VolumeInit ==
    /\ setsLeft \in 0..MaxSets
    /\ setters = {}
    /\ pending = [volume |-> 0, target |-> NoDevice]
    /\ timer = "nil"
    /\ firing = 0
    /\ debouncing = FALSE
    /\ flushes = <<>>
    /\ asked = {}

-----------------------------------------------------------------------------
\* int32(percent) * 65535, which is percent * 2^16 - percent modulo 2^32.
\* The halves of 16 bits apart; a value between -2^31 and 2^31 - 1.
Int32Product(percent) ==
    LET high == ((percent - 1 + 32768) % 65536) - 32768
    IN high * 65536 + (65536 - percent)

Clamp(v) == IF v < 0 THEN 0 ELSE IF v > MaxVolume THEN MaxVolume ELSE v

\* A percentage as the connect-state volume.  (Truncation and flooring
\* differ below zero only, which the clamp hides.)
ConnectVolume(percent) == Clamp(Int32Product(percent) \div 100)

\* The percentage in which DeviceInfo shows a connect-state volume.
ShownVolume(volume) == (volume * 100) \div MaxVolume

-----------------------------------------------------------------------------
\* SetVolume up to volumeMu.  Without a target the call goes to the Web API
\* and touches nothing here.
SetVolume(percent, deviceId, activeId) ==
    LET target  == IF deviceId # NoDevice THEN deviceId ELSE activeId
        command == [volume |-> ConnectVolume(percent), target |-> target]
    IN /\ setsLeft > 0
       /\ setsLeft' = setsLeft - 1
       /\ IF target = NoDevice
          THEN UNCHANGED <<setters, asked>>
          ELSE /\ setters' = setters \cup {[call |-> setsLeft, command |-> command]}
               /\ asked' = asked \cup {command}
       /\ UNCHANGED <<pending, timer, firing, debouncing, flushes>>

\* As Debounce, but only the first call of all starts the timer.
DebounceNoReset(s) ==
    /\ s \in setters
    /\ setters' = setters \ {s}
    /\ pending' = s.command
    /\ timer' = IF timer = "nil" THEN "armed" ELSE timer
    /\ debouncing' = TRUE
    /\ UNCHANGED <<setsLeft, firing, flushes, asked>>

\* As Debounce, but a target once recorded stays.
DebounceKeepingTarget(s) ==
    /\ s \in setters
    /\ setters' = setters \ {s}
    /\ pending' = [s.command EXCEPT !.target =
                       IF pending.target = NoDevice THEN @ ELSE pending.target]
    /\ timer' = "armed"
    /\ debouncing' = TRUE
    /\ UNCHANGED <<setsLeft, firing, flushes, asked>>

\* SetVolume under volumeMu: AfterFunc the first time, Reset after that;
\* either arms the timer, also one that has just fired.
Debounce(s) ==
    /\ s \in setters
    /\ setters' = setters \ {s}
    /\ pending' = s.command
    /\ timer' = "armed"
    /\ debouncing' = TRUE
    /\ UNCHANGED <<setsLeft, firing, flushes, asked>>

\* As TimerFires, with a ticker in place of the one-shot timer.
TimerFiresAgain ==
    /\ timer = "armed" /\ firing <= MaxSets
    /\ firing' = firing + 1
    /\ UNCHANGED <<setsLeft, setters, pending, timer, debouncing, flushes, asked>>
\* The timer fires and the runtime starts a goroutine.
TimerFires ==
    /\ timer = "armed"
    /\ timer' = "idle"
    /\ firing' = firing + 1
    /\ UNCHANGED <<setsLeft, setters, pending, debouncing, flushes, asked>>

FlushVolume ==
    /\ firing > 0
    /\ firing' = firing - 1
    /\ debouncing' = FALSE
    /\ flushes' = Append(flushes, pending)
    /\ UNCHANGED <<setsLeft, setters, pending, timer, asked>>

\* A send ends, sent or failed; its time-out is 10 s.  A failure, or no
\* connection id, is only logged.
SendVolumeNow(i) ==
    /\ i \in DOMAIN flushes
    /\ flushes' = RemoveAt(flushes, i)
    /\ UNCHANGED <<setsLeft, setters, pending, timer, firing, debouncing, asked>>

VolumeStep ==
    \/ \E s \in setters : Debounce(s)
    \/ TimerFires
    \/ FlushVolume
    \/ \E i \in DOMAIN flushes : SendVolumeNow(i)

\* What Close does to the timer; a goroutine it has started goes on.
StopTimer == timer' = IF timer = "armed" THEN "idle" ELSE timer
=============================================================================
