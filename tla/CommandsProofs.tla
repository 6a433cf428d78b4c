-------------------------- MODULE CommandsProofs --------------------------
(***************************************************************************)
(* Theorems about Commands, for any number of callers and devices, any     *)
(* limit of attempts and any number of requests that arrive late.          *)
(***************************************************************************)
EXTENDS Commands, TLAPS

\* A transfer keeps the device it was given, so that the playback can move there.
TransferNames == \A c \in Callers : call[c].kind = "transfer" => call[c].device # NoDevice

\* A named device is the target for as long as the call lasts.
TargetIsNamed ==
    \A c \in Callers : call[c].device # NoDevice => call[c].target = call[c].device

\* Late requests belong to calls that were begun, whose fields no longer change.
LateBegun == \A r \in late : call[r.caller].at # "idle"

\* What an undisturbed SetRepeat may rely on: between its two commands, that
\* the first one took effect; at its end, that both did.
Halfway(c) == call[c].at = "second" => repeat.context = FlagsOf(call[c].mode).context
Reached(c) == call[c].at = "nil" => repeat = FlagsOf(call[c].mode)
RepeatInv ==
    \A c \in Callers : call[c].kind = "repeat" /\ c \notin disturbed => Halfway(c) /\ Reached(c)

IInv ==
    /\ TypeOK /\ TransferNames /\ TargetIsNamed /\ LateBegun
    /\ NamedDeviceOnly /\ RepeatInv

USE CommandsAssumption

-----------------------------------------------------------------------------
\* The player's side of a request

\* A request of a call that was begun reaches the named device and no other,
\* and leaves the player in a state it can be in.
LEMMA ExecuteReachesTarget ==
    ASSUME IInv, NEW c \in Callers, NEW step \in Steps, Execute(c, step)
    PROVE  /\ NamedDeviceOnly'
           /\ repeat' \in Flags /\ playing' \in Devices
           /\ disturbed' \subseteq Callers
           /\ UNCHANGED <<mayCall, useWebApi, connected, active>>
<1>1. call[c] \in Calls /\ playing \in Devices /\ repeat \in Flags /\ disturbed \subseteq Callers
  BY DEF IInv, TypeOK
<1>2. call[c].device # NoDevice => DeviceOf(c, step) = call[c].device
  BY DEF IInv, TargetIsNamed, DeviceOf
<1>3. NamedDeviceOnly'
  BY <1>2 DEF IInv, NamedDeviceOnly, Execute
<1>4. FlagsOf(call[c].mode) \in Flags
  BY <1>1 DEF FlagsOf, Flags
<1>5. repeat' \in Flags
  BY <1>1, <1>4 DEF Execute, RepeatAfter, Flags, Steps
<1>6. playing' \in Devices
  BY <1>1 DEF IInv, TransferNames, Execute, Calls
<1>7. disturbed' \subseteq Callers
  BY <1>1 DEF Execute
<1> QED BY <1>3, <1>5, <1>6, <1>7 DEF Execute

\* It changes the repeat mode only for a SetRepeat, and then every other call
\* that was begun counts as disturbed.
LEMMA ExecuteDisturbs ==
    ASSUME IInv, NEW c \in Callers, NEW step \in Steps, Execute(c, step),
           NEW o \in Callers, o # c, call[o].at # "idle", o \notin disturbed'
    PROVE  repeat' = repeat /\ o \notin disturbed
<1>1. call[c].kind # "repeat"
  BY DEF Execute
<1>2. RepeatAfter(c, step) = repeat
  BY <1>1 DEF RepeatAfter
<1> QED BY <1>1, <1>2 DEF Execute

\* An undisturbed SetRepeat executes its own requests in any order and any
\* number of times: what had been reached remains.
LEMMA ExecuteRepeats ==
    ASSUME IInv, NEW c \in Callers, NEW step \in Steps, Execute(c, step),
           call[c].kind = "repeat", c \notin disturbed'
    PROVE  LET asked == FlagsOf(call[c].mode)
           IN /\ c \notin disturbed
              /\ step \in {"connect", "web"} => repeat'.context = asked.context
              /\ step = "second" => repeat'.context = repeat.context /\ repeat'.track = asked.track
              /\ step = "connect" => repeat'.track = repeat.track
              /\ step = "web" => repeat' = asked
<1>1. repeat \in Flags
  BY DEF IInv, TypeOK
<1>2. repeat' = RepeatAfter(c, step) /\ c \notin disturbed
  BY DEF Execute
<1> QED BY <1>1, <1>2 DEF RepeatAfter, Flags, FlagsOf, Steps

\* Flags are equal when both parts are.
LEMMA FlagsEqual ==
    ASSUME NEW f \in Flags, NEW g \in Flags, f.context = g.context, f.track = g.track
    PROVE  f = g
BY DEF Flags

-----------------------------------------------------------------------------
\* One lemma for every kind of step

LEMMA InitInv == Init => IInv
<1> SUFFICES ASSUME Init PROVE IInv
  OBVIOUS
<1> DEFINE none == [at |-> "idle", kind |-> "load", mode |-> "off",
                    device |-> NoDevice, target |-> NoDevice, tries |-> 1]
<1>a. none \in Calls
  BY DEF Calls, Kinds, Modes
<1>b. call = [c \in Callers |-> none]
  BY DEF Init
<1>c. call \in [Callers -> Calls]
  BY <1>a, <1>b
<1>d. repeat \in Flags
  <2>1. PICK m \in Modes : repeat = FlagsOf(m)
    BY DEF Init
  <2> QED BY <2>1 DEF Flags, FlagsOf
<1>1. TypeOK
  BY <1>c, <1>d DEF Init, TypeOK
<1> QED BY <1>1 DEF Init, IInv, TransferNames, TargetIsNamed, LateBegun, NamedDeviceOnly,
                    RepeatInv, Halfway, Reached

LEMMA BeginInv ==
    ASSUME IInv, NEW c \in Callers, NEW kind \in Kinds, NEW device \in Devices \cup {NoDevice},
           NEW mode \in Modes, Begin(c, kind, device, mode)
    PROVE  IInv'
<1> DEFINE new == [kind |-> kind, mode |-> mode, device |-> device,
                   target |-> Resolve(device), tries |-> 1,
                   at |-> IF TriesConnect(kind, Resolve(device)) THEN "connect"
                          ELSE IF FailsAtOnce(kind, Resolve(device)) THEN "error" ELSE "web"]
<1>1. TypeOK /\ [kind |-> kind, device |-> device] \in Asks
  BY DEF IInv, TypeOK, Begin
<1>2. Resolve(device) \in Devices \cup {NoDevice}
  BY <1>1 DEF Resolve, TypeOK
<1>3. new \in Calls /\ new.at \in {"connect", "error", "web"}
  BY <1>2 DEF Calls, Steps
<1>4. call' = [call EXCEPT ![c] = new] /\ UNCHANGED <<envVars, late, historyVars>>
  BY DEF Begin
<1> HIDE DEF new
<1>5. call \in [Callers -> Calls]
  BY <1>1 DEF TypeOK
<1>6. \A o \in Callers : call'[o] = IF o = c THEN new ELSE call[o]
  BY <1>4, <1>5
<1>7. TypeOK'
  BY <1>1, <1>3, <1>4 DEF TypeOK, envVars, historyVars
<1>8. TransferNames'
  <2>1. new.kind = "transfer" => new.device # NoDevice
    BY <1>1 DEF Asks, new
  <2> QED BY <2>1, <1>6 DEF IInv, TransferNames
<1>9. TargetIsNamed'
  <2>1. new.device # NoDevice => new.target = new.device
    BY DEF Resolve, new
  <2> QED BY <2>1, <1>6 DEF IInv, TargetIsNamed
<1>10. LateBegun'
  BY <1>1, <1>3, <1>4, <1>6 DEF IInv, LateBegun, TypeOK, Requests
<1>11. RepeatInv'
  BY <1>3, <1>4, <1>6 DEF IInv, RepeatInv, Halfway, Reached, envVars, historyVars
<1> QED BY <1>4, <1>7, <1>8, <1>9, <1>10, <1>11 DEF IInv, NamedDeviceOnly, historyVars

\* A step that only moves a call to another request, its end or its next
\* attempt; late requests of this call may remain.
LEMMA MoveInv ==
    ASSUME IInv, NEW c \in Callers, call[c].at \in Steps,
           NEW s \in Steps \cup {"error"}, NEW n \in 1 .. MaxAttempts,
           s \in {call[c].at, "web", "error"},
           call' = [call EXCEPT ![c].at = s, ![c].tries = n],
           late' \subseteq late \cup {[caller |-> c, step |-> call[c].at]},
           UNCHANGED <<envVars, historyVars>>
    PROVE  IInv'
<1>1. TypeOK
  BY DEF IInv
<1>2. call \in [Callers -> Calls] /\ call[c] \in Calls
  BY <1>1 DEF TypeOK
<1>3. \A o \in Callers : call'[o] = IF o = c THEN [call[c] EXCEPT !.at = s, !.tries = n] ELSE call[o]
  BY <1>2
<1>4. [call[c] EXCEPT !.at = s, !.tries = n] \in Calls
  BY <1>2 DEF Calls, Steps
<1>5. \A o \in Callers : /\ call'[o].kind = call[o].kind /\ call'[o].mode = call[o].mode
                         /\ call'[o].device = call[o].device /\ call'[o].target = call[o].target
                         /\ o # c => call'[o].at = call[o].at
  BY <1>2, <1>3 DEF Calls
<1>6. call'[c].at = s
  BY <1>2, <1>3 DEF Calls
<1>7. TypeOK'
  BY <1>1, <1>2, <1>4 DEF TypeOK, envVars, historyVars, Requests
<1>8. TransferNames' /\ TargetIsNamed'
  BY <1>5 DEF IInv, TransferNames, TargetIsNamed
<1>9. LateBegun'
  BY <1>1, <1>5, <1>6 DEF IInv, LateBegun, TypeOK, Requests, Steps
<1>10. RepeatInv'
  BY <1>5, <1>6 DEF IInv, RepeatInv, Halfway, Reached, Steps, envVars, historyVars
<1> QED BY <1>7, <1>8, <1>9, <1>10 DEF IInv, NamedDeviceOnly, historyVars

LEMMA AnsweredInv ==
    ASSUME IInv, NEW c \in Callers, Answered(c)
    PROVE  IInv'
<1> DEFINE s == IF call[c].at = "connect" /\ call[c].kind = "repeat" THEN "second" ELSE "nil"
<1>1. call[c].at \in Steps /\ Execute(c, call[c].at) /\ late' = late
  BY DEF Answered
<1>2. call' = [call EXCEPT ![c].at = s, ![c].tries = 1]
  BY DEF Answered, Goto
<1>3. TypeOK /\ call \in [Callers -> Calls] /\ call[c] \in Calls
  BY DEF IInv, TypeOK
<1>4. s \in {"second", "nil"} /\ 1 \in 1 .. MaxAttempts
  OBVIOUS
<1>5. [call[c] EXCEPT !.at = s, !.tries = 1] \in Calls
  BY <1>3, <1>4 DEF Calls, Steps
<1>6. call' \in [Callers -> Calls]
  BY <1>2, <1>3, <1>5
<1>7. \A o \in Callers : /\ call'[o].kind = call[o].kind /\ call'[o].mode = call[o].mode
                         /\ call'[o].device = call[o].device /\ call'[o].target = call[o].target
                         /\ o # c => call'[o].at = call[o].at
  BY <1>2, <1>3 DEF Calls
<1>8. call'[c].at = s
  BY <1>2, <1>3 DEF Calls
<1>9. TypeOK' /\ NamedDeviceOnly'
  <2>1. /\ NamedDeviceOnly' /\ repeat' \in Flags /\ playing' \in Devices
        /\ disturbed' \subseteq Callers
        /\ UNCHANGED <<mayCall, useWebApi, connected, active>>
    BY <1>1, ExecuteReachesTarget
  <2> QED BY <2>1, <1>1, <1>3, <1>6 DEF TypeOK, NamedDeviceOnly
<1>10. TransferNames' /\ TargetIsNamed'
  BY <1>7 DEF IInv, TransferNames, TargetIsNamed
<1>11. LateBegun'
  BY <1>1, <1>3, <1>4, <1>7, <1>8 DEF IInv, LateBegun, TypeOK, Requests
<1>12. ASSUME NEW o \in Callers, o # c, call[o].kind = "repeat", o \notin disturbed'
       PROVE  (Halfway(o) /\ Reached(o))'
  <2>1. CASE call[o].at = "idle"
    BY <2>1, <1>7, <1>12 DEF Halfway, Reached
  <2>2. CASE call[o].at # "idle"
    <3>1. repeat' = repeat /\ o \notin disturbed
      BY <2>2, <1>1, <1>12, ExecuteDisturbs
    <3> QED BY <3>1, <1>7, <1>12 DEF IInv, RepeatInv, Halfway, Reached
  <2> QED BY <2>1, <2>2
<1>13. ASSUME call[c].kind = "repeat", c \notin disturbed'
       PROVE  (Halfway(c) /\ Reached(c))'
  <2> DEFINE asked == FlagsOf(call[c].mode)
  <2>1. /\ c \notin disturbed
        /\ call[c].at \in {"connect", "web"} => repeat'.context = asked.context
        /\ call[c].at = "second" => repeat'.context = repeat.context /\ repeat'.track = asked.track
        /\ call[c].at = "web" => repeat' = asked
    BY <1>1, <1>13, ExecuteRepeats
  <2>2. asked \in Flags /\ repeat' \in Flags
    <3>1. call[c].mode \in Modes
      BY <1>3 DEF Calls
    <3> QED BY <3>1, <1>9 DEF FlagsOf, Flags, TypeOK
  <2>3. CASE call[c].at = "connect"
    BY <2>1, <2>3, <1>7, <1>8, <1>13 DEF Halfway, Reached
  <2>4. CASE call[c].at = "second"
    <3>1. repeat.context = asked.context
      BY <2>1, <2>4, <1>13 DEF IInv, RepeatInv, Halfway
    <3>2. repeat' = asked
      BY <3>1, <2>1, <2>2, <2>4, FlagsEqual
    <3> QED BY <3>2, <2>4, <1>7, <1>8 DEF Halfway, Reached
  <2>5. CASE call[c].at = "web"
    BY <2>1, <2>5, <1>7, <1>8 DEF Halfway, Reached
  <2> QED BY <2>3, <2>4, <2>5, <1>1 DEF Steps
<1>14. RepeatInv'
  BY <1>7, <1>12, <1>13 DEF RepeatInv
<1> QED BY <1>9, <1>10, <1>11, <1>14 DEF IInv

LEMMA ExecuteLateInv ==
    ASSUME IInv, NEW r \in late, ExecuteLate(r)
    PROVE  IInv'
<1> DEFINE c == r.caller
<1>1. TypeOK /\ c \in Callers /\ r.step \in Steps /\ call[c].at # "idle"
  BY DEF IInv, TypeOK, Requests, LateBegun
<1>2. Execute(c, r.step) /\ call' = call /\ late' = late \ {r}
  BY DEF ExecuteLate
<1> HIDE DEF c
<1>3. TypeOK' /\ NamedDeviceOnly'
  <2>1. /\ NamedDeviceOnly' /\ repeat' \in Flags /\ playing' \in Devices
        /\ disturbed' \subseteq Callers
        /\ UNCHANGED <<mayCall, useWebApi, connected, active>>
    BY <1>1, <1>2, ExecuteReachesTarget
  <2> QED BY <2>1, <1>1, <1>2 DEF TypeOK, NamedDeviceOnly
<1>4. TransferNames' /\ TargetIsNamed' /\ LateBegun'
  BY <1>2 DEF IInv, TransferNames, TargetIsNamed, LateBegun
<1>5. ASSUME NEW o \in Callers, call[o].kind = "repeat", o \notin disturbed'
      PROVE  (Halfway(o) /\ Reached(o))'
  <2>1. CASE call[o].at = "idle"
    BY <2>1, <1>2 DEF Halfway, Reached
  <2>2. CASE call[o].at # "idle" /\ o # c
    <3>1. repeat' = repeat /\ o \notin disturbed
      BY <2>2, <1>1, <1>2, <1>5, ExecuteDisturbs
    <3> QED BY <3>1, <1>2, <1>5 DEF IInv, RepeatInv, Halfway, Reached
  <2>3. CASE o = c
    <3> DEFINE asked == FlagsOf(call[c].mode)
    <3>1. /\ c \notin disturbed
          /\ r.step \in {"connect", "web"} => repeat'.context = asked.context
          /\ r.step = "second" => repeat'.context = repeat.context /\ repeat'.track = asked.track
          /\ r.step = "connect" => repeat'.track = repeat.track
          /\ r.step = "web" => repeat' = asked
      BY <2>3, <1>1, <1>2, <1>5, ExecuteRepeats
    <3>2. Halfway(c) /\ Reached(c)
      BY <2>3, <3>1, <1>5 DEF IInv, RepeatInv
    <3>3. asked \in Flags /\ repeat' \in Flags
      <4>1. call[c].mode \in Modes
        BY <1>1 DEF TypeOK, Calls
      <4> QED BY <4>1, <1>3 DEF FlagsOf, Flags, TypeOK
    <3>4. Halfway(c)'
      BY <3>1, <3>2, <1>1, <1>2 DEF Halfway, Steps
    <3>5. Reached(c)'
      <4>1. SUFFICES ASSUME call[c].at = "nil" PROVE repeat' = asked
        BY <1>2 DEF Reached
      <4>2. repeat = asked
        BY <4>1, <3>2 DEF Reached
      <4>3. repeat'.context = asked.context /\ repeat'.track = asked.track
        BY <4>2, <3>1, <1>1 DEF Steps
      <4> QED BY <4>3, <3>3, FlagsEqual
    <3> QED BY <2>3, <3>4, <3>5
  <2> QED BY <2>1, <2>2, <2>3
<1>6. RepeatInv'
  BY <1>2, <1>5 DEF RepeatInv
<1> QED BY <1>3, <1>4, <1>6 DEF IInv

\* Steps that leave every call and the player's mode alone.
LEMMA EnvironmentInv ==
    ASSUME IInv, Connect \/ PlaybackMoves \/ ClusterUpdate
    PROVE  IInv'
<1>1. UNCHANGED <<mayCall, useWebApi, repeat, call, late, historyVars>>
  BY DEF Connect, PlaybackMoves, ClusterUpdate
<1>2. TypeOK'
  BY <1>1 DEF IInv, TypeOK, Connect, PlaybackMoves, ClusterUpdate, historyVars
<1> QED BY <1>1, <1>2 DEF IInv, TransferNames, TargetIsNamed, LateBegun, NamedDeviceOnly,
                          RepeatInv, Halfway, Reached, historyVars

LEMMA StepInv == IInv /\ [Next]_vars => IInv'
<1> SUFFICES ASSUME IInv, [Next]_vars PROVE IInv'
  OBVIOUS
<1>0. TypeOK
  BY DEF IInv
<1>1. ASSUME NEW c \in Callers, NEW d \in Devices \cup {NoDevice},
             \/ Play(c, d) \/ AddToQueue(c, d) \/ PlayTrack(c, d) \/ PlayPlaylist(c, d)
             \/ LoadTrack(c, d) \/ TransferPlayback(c, d) \/ SetVolume(c, d)
             \/ \E m \in Modes : SetRepeat(c, d, m)
      PROVE  IInv'
  <2>1. PICK kind \in Kinds, mode \in Modes : Begin(c, kind, d, mode)
    BY <1>1 DEF Play, AddToQueue, PlayTrack, PlayPlaylist, LoadTrack, TransferPlayback,
                SetVolume, SetRepeat, Kinds, Modes
  <2> QED BY <2>1, BeginInv
<1>2. ASSUME NEW c \in Callers, Answered(c) PROVE IInv'
  BY <1>2, AnsweredInv
<1>3. ASSUME NEW c \in Callers, Retry(c) \/ Refused(c) \/ GivesUp(c) PROVE IInv'
  <2>1. call \in [Callers -> Calls] /\ call[c] \in Calls
    BY <1>0 DEF TypeOK
  <2>2. PICK s \in {call[c].at, "web", "error"}, n \in 1 .. MaxAttempts :
           call' = [call EXCEPT ![c].at = s, ![c].tries = n]
    <3>1. CASE Retry(c)
      <4>1. call[c].tries + 1 \in 1 .. MaxAttempts
        BY <3>1, <2>1 DEF Retry, Calls
      <4>2. call' = [call EXCEPT ![c].at = call[c].at, ![c].tries = call[c].tries + 1]
        BY <3>1, <2>1 DEF Retry, Calls
      <4> QED BY <4>1, <4>2
    <3>2. CASE Refused(c) \/ GivesUp(c)
      <4>1. call' = [call EXCEPT ![c].at = AfterFailure(c), ![c].tries = 1]
        BY <3>2 DEF Refused, GivesUp, Goto
      <4>2. AfterFailure(c) \in {"web", "error"} /\ 1 \in 1 .. MaxAttempts
        BY DEF AfterFailure
      <4> QED BY <4>1, <4>2
    <3> QED BY <1>3, <3>1, <3>2
  <2>3. call[c].at \in Steps /\ UNCHANGED <<envVars, historyVars>>
    BY <1>3 DEF Retry, Refused, GivesUp
  <2>4. late' \subseteq late \cup {[caller |-> c, step |-> call[c].at]}
    BY <1>3 DEF Retry, Refused, GivesUp, Unanswered
  <2>5. s \in Steps \cup {"error"}
    BY <2>3 DEF Steps
  <2> QED BY <2>2, <2>3, <2>4, <2>5, MoveInv
<1>4. ASSUME NEW r \in late, ExecuteLate(r) PROVE IInv'
  BY <1>4, ExecuteLateInv
<1>5. CASE Connect \/ PlaybackMoves \/ ClusterUpdate
  BY <1>5, EnvironmentInv
<1>6. CASE UNCHANGED vars
  BY <1>6 DEF IInv, TypeOK, TransferNames, TargetIsNamed, LateBegun, NamedDeviceOnly, RepeatInv,
              Halfway, Reached, vars, envVars, historyVars
<1> QED BY <1>1, <1>2, <1>3, <1>4, <1>5, <1>6 DEF Next, CallStep

-----------------------------------------------------------------------------
\* Theorems

\* The inductive invariant of the commands, whatever else the player is told
\* and however late requests arrive (sendPlayerCommand, SetRepeat).
THEOREM CommandsInvariant == Spec => []IInv
BY InitInv, StepInv, PTL DEF Spec

\* The variables keep their types; in particular no call makes more attempts
\* than its back-off allows (innerRequestWithToken).
THEOREM TypeCorrect == Spec => []TypeOK
<1>1. IInv => TypeOK
  BY DEF IInv
<1> QED BY <1>1, CommandsInvariant, PTL

\* A command for a named device is never executed on another one, by either
\* route (sendPlayerCommand, resolveTargetDevice).
THEOREM NamedDeviceOnlyHolds == Spec => []NamedDeviceOnly
<1>1. IInv => NamedDeviceOnly
  BY DEF IInv
<1> QED BY <1>1, CommandsInvariant, PTL

\* A SetRepeat that returned nil and was not disturbed by another one has set
\* the mode, also when its requests were repeated or executed late (SetRepeat).
THEOREM RepeatAsAskedHolds == Spec => []RepeatAsAsked
<1>1. IInv => RepeatAsAsked
  BY DEF IInv, RepeatInv, Reached, RepeatAsAsked
<1> QED BY <1>1, CommandsInvariant, PTL
=============================================================================
