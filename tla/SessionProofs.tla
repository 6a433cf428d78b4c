--------------------------- MODULE SessionProofs ---------------------------
(***************************************************************************)
(* Proofs about Session and its parts for any bounds and any number of     *)
(* callers of WebApiToken.                                                 *)
(*                                                                         *)
(* The session composes a resolver, a callback server and a token.  It is  *)
(* first shown what a step of the whole does to each part; the invariants  *)
(* of a part are then proved from the moves of that part alone.            *)
(***************************************************************************)
EXTENDS Session, TLAPS

\* The moves of the resolver, or what a new process does to it.
ResolverMoves ==
    \/ UNCHANGED resolverVars
    \/ TtlEnds
    \/ \E t \in Types :
         \/ t \notin made /\ Lookup(t)
         \/ LookupStep(t) \/ AddressStep(t) \/ OtherStores(t)
    \/ /\ cache' = [t \in Types |-> 0] /\ fresh' = {} /\ made' = {}
       /\ addrs' = [t \in Types |-> 0] /\ idx' = [t \in Types |-> 0]
       /\ lookup' = [t \in Types |-> "idle"] /\ given' = [t \in Types |-> NoneGiven]
       /\ UNCHANGED sends

\* The moves of the callback server, or what a new process does to it.
ServerMoves ==
    \/ UNCHANGED serverVars
    \/ StartServer \/ Callback \/ Handle \/ WaiterStep \/ StopperStep \/ Cancel
    \/ /\ ctxDone' = FALSE /\ serverDone' = FALSE /\ server' = "off" /\ handler' = FALSE
       /\ code' = FALSE /\ codeClosed' = FALSE /\ waiter' = "off"

\* The moves of the token, and where Connect is when it makes one.
TokenMoves ==
    \/ UNCHANGED tokenVars
    \/ step = "interactive" /\ ExchangeCode
    \/ step = "load" /\ file.kind = "good" /\ Restores(file.token)
    \/ TokenExpires
    \/ step = "up" /\ \E u \in Users :
         \/ ReadToken(u, FALSE)
         \/ "forces" \in does /\ ReadToken(u, TRUE)
         \/ UserStep(u)
    \/ /\ "restarts" \in does
       /\ oauthToken' = NoToken
       /\ user' = [u \in Users |-> "idle"] /\ tok' = [u \in Users |-> NoToken]
       /\ UNCHANGED <<expired, granted, accepted, rotates, lost>>

-----------------------------------------------------------------------------
ConnectTypeOK ==
    /\ does \subseteq Doings
    /\ starts \in 0 .. MaxStarts
    /\ step \in Steps
    /\ deviceId \in 0 .. MaxStarts
    /\ open \subseteq {"accesspoint", "dealer"}
    /\ file \in [kind : {"none", "torn", "good"}, id : 0 .. MaxStarts, token : Tokens]
    /\ savedId \in 0 .. MaxStarts /\ savedTok \in BOOLEAN

\* A function stands in its list or at its end, and at its end while it looks
\* for another; idx tells which addresses of the list it has given.
TurnInv ==
    \A t \in Types :
        /\ ~given[t].again
        /\ given[t].turn = IF t \in made THEN 1 .. idx[t] ELSE {}
        /\ t \in made => idx[t] <= addrs[t]
        /\ t \in made /\ lookup[t] # "idle" => idx[t] = addrs[t]

\* Refresh tokens are numbered by their grants.  A renewed token that is not
\* stored yet has the refresh token that the server accepts; if the server
\* replaced it, neither the session nor another caller has that one.
TokenInv ==
    /\ oauthToken.refresh <= granted /\ accepted <= granted
    /\ \A u \in Users :
         /\ tok[u].refresh <= granted
         /\ user[u] # "idle" => tok[u] # NoToken
         /\ user[u] = "source" => tok[u].refresh # 0
         /\ user[u] = "renewed" /\ rotates =>
              /\ oauthToken.refresh # accepted
              /\ \A v \in Users \ {u} : tok[v].refresh # accepted
    /\ RenewalsInOrder

\* Without forced calls the token source is asked to renew expired tokens only,
\* and the only process has no file to load a token from.
UnforcedInv ==
    does \cap {"forces", "restarts"} = {} =>
        /\ step \in {"down", "load"} => file.kind = "none"
        /\ \A u \in Users :
             /\ user[u] \notin {"force", "same"}
             /\ user[u] = "source" => ~Valid(tok[u])
        /\ Renewable

\* WebApiToken is called while the session is up.
CallersWait == step # "up" => \A u \in Users : user[u] = "idle"

FileInv ==
    /\ file.token.refresh <= granted
    /\ file.kind = "none" => savedId = 0
    /\ file.kind = "good" /\ savedTok => file.token # NoToken
    /\ file.kind = "good" => file.id = savedId /\ savedId # 0
    /\ step # "down" => starts # 0
    /\ step \notin {"down", "load", "failed"} => deviceId # 0
    /\ SavedIdentityKept

\* A login that waits has a server that listens, or a cancellation that ends
\* its wait: the goroutine that takes the code away or closes the channel
\* runs only then.  One that waits no more has told its server to stop, and
\* the channel is closed only with the server (connectInteractive,
\* NewOAuth2Server).
LoginNotStranded ==
    /\ waiter = "waiting" => server = "on" \/ ctxDone
    /\ waiter \in {"exchange", "failed"} => serverDone
    /\ codeClosed => server = "closed"

LoginInv ==
    /\ waiter = "off" => server = "off"
    /\ waiter \in {"off", "waiting"} => ~serverDone
    /\ LoginNotStranded

IInv ==
    /\ TypeOK
    /\ TurnInv
    /\ LoginInv
    /\ TokenInv /\ UnforcedInv /\ CallersWait /\ FileInv

-----------------------------------------------------------------------------
(* A step of the session is a move of the resolver, or leaves it alone.    *)
LEMMA ResolverOnly == [Next]_vars => ResolverMoves
<1> SUFFICES ASSUME [Next]_vars PROVE ResolverMoves
  OBVIOUS
<1> USE SessionAssumption DEF ResolverMoves, parts
<1>1. CASE Begin
  BY <1>1 DEF Begin
<1>2. CASE Load
  BY <1>2 DEF Load, Goes, Fails
<1>3. CASE ClientToken
  BY <1>3 DEF ClientToken, Request, Goes, Fails
<1>4. CASE ResolveAccesspoint
  BY <1>4 DEF ResolveAccesspoint, Resolve, Goes, Fails
<1>5. CASE ConnectAp
  BY <1>5 DEF ConnectAp, Goes, Fails
<1>6. CASE OpenServer
  BY <1>6 DEF OpenServer
<1>7. CASE InteractiveFails
  BY <1>7 DEF InteractiveFails, Goes, Fails
<1>8. CASE Exchange
  BY <1>8 DEF Exchange, Goes, Fails
<1>9. CASE Login5
  BY <1>9 DEF Login5, Request, Goes, Fails
<1>10. CASE ResolveSpclient
  BY <1>10 DEF ResolveSpclient, Resolve, Goes, Fails
<1>11. CASE NewSpclient
  BY <1>11 DEF NewSpclient, AddressStep
<1>12. CASE ResolveDealer
  BY <1>12 DEF ResolveDealer, Resolve, Goes, Fails
<1>13. CASE StartController
  BY <1>13 DEF StartController, StartFails, Goes, Fails
<1>14. CASE Truncate
  BY <1>14 DEF Truncate, Goes
<1>15. CASE Write
  BY <1>15 DEF Write, Goes
<1>16. CASE ProcessEnds
  BY <1>16 DEF ProcessEnds, NewProcess, resolverVars
<1>17. CASE RemoveFile
  BY <1>17 DEF RemoveFile
<1>18. ASSUME NEW t \in Types, UseAddress(t) PROVE ResolverMoves
  BY <1>18 DEF UseAddress
<1>19. CASE OtherSession
  BY <1>19 DEF OtherSession
<1>20. CASE HandlerRuns
  BY <1>20 DEF HandlerRuns
<1>21. CASE WaiterRuns
  BY <1>21 DEF WaiterRuns
<1>22. CASE StopperRuns
  BY <1>22 DEF StopperRuns
<1>23. CASE LoginInput
  BY <1>23 DEF LoginInput
<1>24. CASE UseToken
  BY <1>24 DEF UseToken
<1>25. CASE TimePasses
  BY <1>25 DEF TimePasses
<1>26. CASE UNCHANGED vars
  BY <1>26 DEF vars
<1>27. QED
  BY <1>1, <1>2, <1>3, <1>4, <1>5, <1>6, <1>7, <1>8, <1>9, <1>10, <1>11, <1>12, <1>13, <1>14, <1>15, <1>16, <1>17, <1>18, <1>19, <1>20, <1>21, <1>22, <1>23, <1>24, <1>25, <1>26 DEF Next, ConnectStep

(* The same of the callback server.                                        *)
LEMMA ServerOnly == [Next]_vars => ServerMoves
<1> SUFFICES ASSUME [Next]_vars PROVE ServerMoves
  OBVIOUS
<1> USE DEF ServerMoves, parts
<1>1. CASE Begin
  BY <1>1 DEF Begin
<1>2. CASE Load
  BY <1>2 DEF Load, Goes, Fails
<1>3. CASE ClientToken
  BY <1>3 DEF ClientToken, Request, Goes, Fails
<1>4. CASE ResolveAccesspoint
  BY <1>4 DEF ResolveAccesspoint, Resolve, Goes, Fails
<1>5. CASE ConnectAp
  BY <1>5 DEF ConnectAp, Goes, Fails
<1>6. CASE OpenServer
  BY <1>6 DEF OpenServer
<1>7. CASE InteractiveFails
  BY <1>7 DEF InteractiveFails, Goes, Fails
<1>8. CASE Exchange
  BY <1>8 DEF Exchange, Goes, Fails
<1>9. CASE Login5
  BY <1>9 DEF Login5, Request, Goes, Fails
<1>10. CASE ResolveSpclient
  BY <1>10 DEF ResolveSpclient, Resolve, Goes, Fails
<1>11. CASE NewSpclient
  BY <1>11 DEF NewSpclient, Goes, Fails
<1>12. CASE ResolveDealer
  BY <1>12 DEF ResolveDealer, Resolve, Goes, Fails
<1>13. CASE StartController
  BY <1>13 DEF StartController, StartFails, Goes, Fails
<1>14. CASE Truncate
  BY <1>14 DEF Truncate, Goes
<1>15. CASE Write
  BY <1>15 DEF Write, Goes
<1>16. CASE ProcessEnds
  BY <1>16 DEF ProcessEnds, NewProcess
<1>17. CASE RemoveFile
  BY <1>17 DEF RemoveFile
<1>18. ASSUME NEW t \in Types, UseAddress(t) PROVE ServerMoves
  BY <1>18 DEF UseAddress
<1>19. CASE OtherSession
  BY <1>19 DEF OtherSession
<1>20. CASE HandlerRuns
  BY <1>20 DEF HandlerRuns
<1>21. CASE WaiterRuns
  BY <1>21 DEF WaiterRuns
<1>22. CASE StopperRuns
  BY <1>22 DEF StopperRuns
<1>23. CASE LoginInput
  BY <1>23 DEF LoginInput
<1>24. CASE UseToken
  BY <1>24 DEF UseToken
<1>25. CASE TimePasses
  BY <1>25 DEF TimePasses
<1>26. CASE UNCHANGED vars
  BY <1>26 DEF vars
<1>27. QED
  BY <1>1, <1>2, <1>3, <1>4, <1>5, <1>6, <1>7, <1>8, <1>9, <1>10, <1>11, <1>12, <1>13, <1>14, <1>15, <1>16, <1>17, <1>18, <1>19, <1>20, <1>21, <1>22, <1>23, <1>24, <1>25, <1>26 DEF Next, ConnectStep

(* And of the token, which only three steps of Connect touch.              *)
LEMMA TokenOnly == [Next]_vars => TokenMoves
<1> SUFFICES ASSUME [Next]_vars PROVE TokenMoves
  OBVIOUS
<1> USE DEF TokenMoves, parts
<1>1. CASE Begin
  BY <1>1 DEF Begin
<1>2. CASE Load
  BY <1>2 DEF Load, Goes, Fails
<1>3. CASE ClientToken
  BY <1>3 DEF ClientToken, Request, Goes, Fails
<1>4. CASE ResolveAccesspoint
  BY <1>4 DEF ResolveAccesspoint, Resolve, Goes, Fails
<1>5. CASE ConnectAp
  BY <1>5 DEF ConnectAp, Goes, Fails
<1>6. CASE OpenServer
  BY <1>6 DEF OpenServer
<1>7. CASE InteractiveFails
  BY <1>7 DEF InteractiveFails, Goes, Fails
<1>8. CASE Exchange
  BY <1>8 DEF Exchange, Goes, Fails
<1>9. CASE Login5
  BY <1>9 DEF Login5, Request, Goes, Fails
<1>10. CASE ResolveSpclient
  BY <1>10 DEF ResolveSpclient, Resolve, Goes, Fails
<1>11. CASE NewSpclient
  BY <1>11 DEF NewSpclient, Goes, Fails
<1>12. CASE ResolveDealer
  BY <1>12 DEF ResolveDealer, Resolve, Goes, Fails
<1>13. CASE StartController
  BY <1>13 DEF StartController, StartFails, Goes, Fails
<1>14. CASE Truncate
  BY <1>14 DEF Truncate, Goes
<1>15. CASE Write
  BY <1>15 DEF Write, Goes
<1>16. CASE ProcessEnds
  BY <1>16 DEF ProcessEnds, NewProcess
<1>17. CASE RemoveFile
  BY <1>17 DEF RemoveFile
<1>18. ASSUME NEW t \in Types, UseAddress(t) PROVE TokenMoves
  BY <1>18 DEF UseAddress
<1>19. CASE OtherSession
  BY <1>19 DEF OtherSession
<1>20. CASE HandlerRuns
  BY <1>20 DEF HandlerRuns
<1>21. CASE WaiterRuns
  BY <1>21 DEF WaiterRuns
<1>22. CASE StopperRuns
  BY <1>22 DEF StopperRuns
<1>23. CASE LoginInput
  BY <1>23 DEF LoginInput
<1>24. CASE UseToken
  BY <1>24 DEF UseToken
<1>25. CASE TimePasses
  BY <1>25 DEF TimePasses
<1>26. CASE UNCHANGED vars
  BY <1>26 DEF vars
<1>27. QED
  BY <1>1, <1>2, <1>3, <1>4, <1>5, <1>6, <1>7, <1>8, <1>9, <1>10, <1>11, <1>12, <1>13, <1>14, <1>15, <1>16, <1>17, <1>18, <1>19, <1>20, <1>21, <1>22, <1>23, <1>24, <1>25, <1>26 DEF Next, ConnectStep

-----------------------------------------------------------------------------
(* What the history of a function becomes when it gives an address.        *)
LEMMA GiveFacts ==
    ASSUME ResolverTypeOK, NEW t \in Types, NEW a \in 1 .. MaxLen, Give(t, a)
    PROVE  /\ given' \in [Types -> Givens]
           /\ given'[t].turn = IF 1 .. addrs[t] \subseteq given[t].turn THEN {a} ELSE given[t].turn \cup {a}
           /\ given'[t].again => a \in given[t].turn /\ ~(1 .. addrs[t] \subseteq given[t].turn)
           /\ \A s \in Types \ {t} : given'[s] = given[s]
<1> DEFINE over == 1 .. addrs[t] \subseteq given[t].turn
           g == [last  |-> a,
                 turn  |-> IF over THEN {a} ELSE given[t].turn \cup {a},
                 again |-> ~over /\ a \in given[t].turn,
                 same  |-> FALSE]
<1>1. given' = [given EXCEPT ![t] = g]
  BY DEF Give
<1>2. g.turn = (IF over THEN {a} ELSE given[t].turn \cup {a}) /\ g.again = (~over /\ a \in given[t].turn)
  OBVIOUS
<1>3. given \in [Types -> Givens] /\ given[t].turn \in SUBSET (1 .. MaxLen)
  BY DEF ResolverTypeOK, Givens
<1>4. g \in Givens
  <2>1. (IF over THEN {a} ELSE given[t].turn \cup {a}) \in SUBSET (1 .. MaxLen)
    BY <1>3
  <2>2. (~over /\ a \in given[t].turn) \in BOOLEAN /\ a \in 0 .. MaxLen
    BY ResolverAssumption
  <2> HIDE DEF over
  <2>3. QED
    BY <2>1, <2>2, Zenon DEF Givens
<1> HIDE DEF g
<1>5. given'[t] = g /\ given' \in [Types -> Givens] /\ \A s \in Types \ {t} : given'[s] = given[s]
  BY <1>1, <1>3, <1>4
<1>6. QED
  BY <1>2, <1>5

(* The resolver's types, of which idx needs that no list is overrun.       *)
LEMMA ResolverTypeStep ==
    ASSUME ResolverTypeOK, TurnInv, ResolverMoves PROVE ResolverTypeOK'
<1> USE ResolverAssumption DEF ResolverTypeOK, LookupStates
<1>1. CASE UNCHANGED resolverVars
  BY <1>1 DEF resolverVars
<1>2. CASE TtlEnds
  BY <1>2 DEF TtlEnds
<1>3. ASSUME NEW t \in Types, Lookup(t) PROVE ResolverTypeOK'
  BY <1>3 DEF Lookup, Moves
<1>4. ASSUME NEW t \in Types, FetchFails(t) PROVE ResolverTypeOK'
  BY <1>4 DEF FetchFails, Moves
<1>5. ASSUME NEW t \in Types, FetchStores(t) PROVE ResolverTypeOK'
  <2>1. cache' \in [Types -> 0 .. MaxLen] /\ fresh' \subseteq Types
    BY <1>5 DEF FetchStores
  <2>2. lookup' \in [Types -> LookupStates]
    BY <1>5 DEF FetchStores, Moves
  <2>3. QED
    BY <1>5, <2>1, <2>2 DEF FetchStores
<1>6. ASSUME NEW t \in Types, Get(t) PROVE ResolverTypeOK'
  <2>1. CASE cache[t] = 0
    BY <1>6, <2>1 DEF Get, Moves
  <2>2. CASE cache[t] # 0
    <3>1. addrs' \in [Types -> 0 .. MaxLen] /\ made' \subseteq Types /\ lookup' \in [Types -> LookupStates]
      BY <1>6, <2>2 DEF Get, Takes, Moves
    <3>2. idx' \in [Types -> 0 .. MaxLen]
      BY <1>6, <2>2 DEF Get, Takes
    <3>3. given' \in [Types -> Givens]
      <4>1. IF t \in made THEN Give(t, 1) ELSE given' = given
        BY <1>6, <2>2 DEF Get, Takes
      <4>2. 1 \in 1 .. MaxLen
        OBVIOUS
      <4>3. QED
        BY <4>1, <4>2, GiveFacts
    <3>4. QED
      BY <1>6, <3>1, <3>2, <3>3 DEF Get
  <2>3. QED
    BY <2>1, <2>2
<1>7. ASSUME NEW t \in Types, NextAddress(t) PROVE ResolverTypeOK'
  <2>1. idx[t] + 1 \in 1 .. MaxLen
    BY <1>7 DEF NextAddress
  <2>2. idx' \in [Types -> 0 .. MaxLen] /\ given' \in [Types -> Givens]
    <3>1. Give(t, idx[t] + 1) /\ idx' = [idx EXCEPT ![t] = @ + 1]
      BY <1>7 DEF NextAddress
    <3>2. idx' \in [Types -> 0 .. MaxLen]
      BY <2>1, <3>1
    <3>3. given' \in [Types -> Givens]
      <4> DEFINE a == idx[t] + 1
      <4>1. a \in 1 .. MaxLen /\ Give(t, a)
        BY <2>1, <3>1
      <4> HIDE DEF a
      <4>2. QED
        BY <4>1, GiveFacts
    <3>4. QED
      BY <3>2, <3>3
  <2>3. QED
    BY <1>7, <2>2 DEF NextAddress
<1>8. ASSUME NEW t \in Types, FirstAgain(t) PROVE ResolverTypeOK'
  <2>1. given' \in [Types -> Givens]
    <3> DEFINE b == (given[t].last = 1 /\ addrs[t] > 1)
               g == [given[t] EXCEPT !.last = 1, !.same = b]
    <3>1. b \in BOOLEAN
      BY Zenon
    <3>2. 1 \in 0 .. MaxLen
      BY ResolverAssumption
    <3>3. given' = [given EXCEPT ![t] = g]
      BY <1>8 DEF FirstAgain
    <3> HIDE DEF b
    <3>4. g \in Givens
      BY <3>1, <3>2 DEF Givens
    <3>5. QED
      BY <3>3, <3>4
  <2>2. lookup' \in [Types -> LookupStates]
    BY <1>8 DEF FirstAgain, Moves
  <2>3. QED
    BY <1>8, <2>1, <2>2 DEF FirstAgain
<1>9. ASSUME NEW t \in Types, OtherStores(t) PROVE ResolverTypeOK'
  <2>1. cache' \in [Types -> 0 .. MaxLen]
    BY <1>9 DEF OtherStores
  <2>2. QED
    BY <1>9, <2>1 DEF OtherStores
<1>10. CASE /\ cache' = [t \in Types |-> 0] /\ fresh' = {} /\ made' = {}
             /\ addrs' = [t \in Types |-> 0] /\ idx' = [t \in Types |-> 0]
             /\ lookup' = [t \in Types |-> "idle"] /\ given' = [t \in Types |-> NoneGiven]
             /\ UNCHANGED sends
  <2>1. lookup' \in [Types -> LookupStates]
    BY <1>10
  <2>2. cache' \in [Types -> 0 .. MaxLen] /\ addrs' \in [Types -> 0 .. MaxLen] /\ idx' \in [Types -> 0 .. MaxLen]
    BY <1>10
  <2>3. NoneGiven \in Givens
    BY DEF NoneGiven, Givens
  <2>4. QED
    BY <1>10, <2>1, <2>2, <2>3
<1>11. QED
  BY <1>1, <1>2, <1>3, <1>4, <1>5, <1>6, <1>7, <1>8, <1>9, <1>10 DEF ResolverMoves, LookupStep, AddressStep, Refill

(* Addresses are given in turn: a function looks for another list only at   *)
(* the end of the one it has.                                               *)
LEMMA TurnStep == ASSUME ResolverTypeOK, TurnInv, ResolverMoves PROVE TurnInv'
<1> USE ResolverAssumption DEF ResolverTypeOK, TurnInv
<1>1. CASE UNCHANGED resolverVars
  BY <1>1 DEF resolverVars
<1>2. CASE TtlEnds
  BY <1>2 DEF TtlEnds
<1>3. ASSUME NEW t \in Types, t \in made => idx[t] = addrs[t], Lookup(t) PROVE TurnInv'
  BY <1>3 DEF Lookup, Moves
<1>4. ASSUME NEW t \in Types, FetchFails(t) PROVE TurnInv'
  BY <1>4 DEF FetchFails, Moves
<1>5. ASSUME NEW t \in Types, FetchStores(t) PROVE TurnInv'
  BY <1>5 DEF FetchStores, Moves
<1>6. ASSUME NEW t \in Types, Get(t) PROVE TurnInv'
  <2>1. CASE cache[t] = 0
    BY <1>6, <2>1 DEF Get, Moves
  <2>2. CASE cache[t] # 0
    <3>1. /\ made' = made \cup {t} /\ addrs' = [addrs EXCEPT ![t] = cache[t]]
          /\ idx' = [idx EXCEPT ![t] = IF t \in made THEN 1 ELSE 0]
          /\ lookup' = [lookup EXCEPT ![t] = "idle"] /\ lookup[t] = "read"
      BY <1>6, <2>2 DEF Get, Takes, Moves
    <3>2. given'[t].turn = 1 .. idx'[t] /\ ~given'[t].again /\ \A s \in Types \ {t} : given'[s] = given[s]
      <4>1. CASE t \in made
        <5>1. Give(t, 1) /\ 1 \in 1 .. MaxLen /\ 1 .. addrs[t] \subseteq given[t].turn
          <6>1. Give(t, 1)
            BY <1>6, <2>2, <4>1 DEF Get, Takes
          <6>2. idx[t] = addrs[t] /\ given[t].turn = 1 .. idx[t]
            BY <3>1, <4>1
          <6>3. QED
            BY <6>1, <6>2
        <5>2. /\ given'[t].turn = {1} /\ ~given'[t].again
              /\ \A s \in Types \ {t} : given'[s] = given[s]
          BY <5>1, GiveFacts
        <5>3. idx'[t] = 1 /\ {1} = 1 .. 1
          BY <3>1, <4>1
        <5>4. QED
          BY <5>2, <5>3
      <4>2. CASE t \notin made
        <5>1. given' = given /\ idx'[t] = 0 /\ given[t].turn = {} /\ {} = 1 .. 0
          BY <1>6, <2>2, <3>1, <4>2 DEF Get, Takes
        <5>2. QED
          BY <5>1
      <4>3. QED
        BY <4>1, <4>2
    <3>3. idx'[t] <= addrs'[t]
      BY <2>2, <3>1
    <3>4. QED
      BY <3>1, <3>2, <3>3
  <2>3. QED
    BY <2>1, <2>2
<1>7. ASSUME NEW t \in Types, NextAddress(t) PROVE TurnInv'
  <2>1. /\ idx' = [idx EXCEPT ![t] = @ + 1] /\ idx[t] < addrs[t] /\ t \in made
        /\ UNCHANGED <<made, addrs, lookup>> /\ lookup[t] = "idle" /\ Give(t, idx[t] + 1)
    BY <1>7 DEF NextAddress
  <2>2. idx[t] + 1 \in 1 .. MaxLen /\ given[t].turn = 1 .. idx[t] /\ idx[t] + 1 \notin given[t].turn
    BY <2>1
  <2>3. ~(1 .. addrs[t] \subseteq given[t].turn)
    BY <2>1, <2>2
  <2>4. /\ given'[t].turn = given[t].turn \cup {idx[t] + 1} /\ ~given'[t].again
        /\ \A s \in Types \ {t} : given'[s] = given[s]
    BY <2>1, <2>2, <2>3, GiveFacts
  <2>5. given'[t].turn = 1 .. idx'[t]
    BY <2>1, <2>2, <2>4
  <2>6. QED
    BY <2>1, <2>4, <2>5
<1>8. ASSUME NEW t \in Types, FirstAgain(t) PROVE TurnInv'
  <2>1. \A s \in Types : given'[s].turn = given[s].turn /\ given'[s].again = given[s].again
    BY <1>8 DEF FirstAgain, Givens
  <2>2. QED
    BY <1>8, <2>1 DEF FirstAgain, Moves
<1>9. ASSUME NEW t \in Types, OtherStores(t) PROVE TurnInv'
  BY <1>9 DEF OtherStores
<1>10. CASE /\ cache' = [t \in Types |-> 0] /\ fresh' = {} /\ made' = {}
             /\ addrs' = [t \in Types |-> 0] /\ idx' = [t \in Types |-> 0]
             /\ lookup' = [t \in Types |-> "idle"] /\ given' = [t \in Types |-> NoneGiven]
             /\ UNCHANGED sends
  BY <1>10 DEF NoneGiven
<1>11. QED
  BY <1>1, <1>2, <1>3, <1>4, <1>5, <1>6, <1>7, <1>8, <1>9, <1>10 DEF ResolverMoves, LookupStep, AddressStep, Refill

(* The callback server's types.                                            *)
LEMMA ServerTypeStep == ServerTypeOK /\ ServerMoves => ServerTypeOK'
BY DEF ServerTypeOK, ServerMoves, serverVars, StartServer, Callback, Handle, WaiterStep, TakeCode,
       GiveUpWaiting, StopperStep, StopServer, Drain, Cancel

(* A server stops only when its login is over or cancelled.                *)
LEMMA LoginStep == ServerTypeOK /\ LoginInv /\ ServerMoves => LoginInv'
BY DEF ServerTypeOK, LoginInv, LoginNotStranded, ServerMoves, serverVars, StartServer, Callback, Handle,
       WaiterStep, TakeCode, GiveUpWaiting, StopperStep, StopServer, Drain, Cancel

-----------------------------------------------------------------------------
(* A grant is a token, newer than any before it; only a code or a server    *)
(* that rotates brings another refresh token.                               *)
LEMMA GrantFacts ==
    ASSUME TokenTypeOK, granted < MaxGrants, NEW r \in 0 .. MaxGrants
    PROVE  /\ Grant(r) \in Tokens /\ NoToken \in Tokens /\ Grant(r) # NoToken
           /\ Grant(r).refresh = IF r = 0 \/ rotates THEN granted + 1 ELSE r
           /\ Grant(r).access = granted + 1
BY WebApiTokenAssumption DEF TokenTypeOK, Grant, Tokens, NoToken

(* The token's types.                                                      *)
LEMMA TokenTypeStep ==
    ASSUME TokenTypeOK, file.token \in Tokens, TokenMoves PROVE TokenTypeOK'
<1> USE WebApiTokenAssumption DEF TokenTypeOK, UserStates
<1>1. CASE UNCHANGED tokenVars
  BY <1>1 DEF tokenVars
<1>2. CASE step = "interactive" /\ ExchangeCode
  <2>1. granted < MaxGrants /\ oauthToken' \in Tokens /\ accepted' \in 0 .. MaxGrants
    BY <1>2, GrantFacts DEF ExchangeCode, Granting, Tokens
  <2>2. granted' = granted + 1 /\ lost' = FALSE /\ UNCHANGED <<expired, rotates, user, tok>>
    BY <1>2 DEF ExchangeCode, Granting
  <2>3. granted' \in 0 .. MaxGrants
    BY <2>1, <2>2
  <2>4. QED
    BY <2>1, <2>2, <2>3
<1>3. CASE step = "load" /\ file.kind = "good" /\ Restores(file.token)
  BY <1>3 DEF Restores
<1>4. CASE TokenExpires
  BY <1>4 DEF TokenExpires
<1>5. ASSUME NEW u \in Users, NEW force \in BOOLEAN, ReadToken(u, force) PROVE TokenTypeOK'
  BY <1>5 DEF ReadToken, UserGoes
<1>6. ASSUME NEW u \in Users, step = "up", ReturnsCached(u) PROVE TokenTypeOK'
  BY <1>6 DEF ReturnsCached, UserGoes
<1>7. ASSUME NEW u \in Users, step = "up", AsksSource(u) PROVE TokenTypeOK'
  BY <1>7 DEF AsksSource, UserGoes
<1>8. ASSUME NEW u \in Users, step = "up", SourceReuses(u) PROVE TokenTypeOK'
  BY <1>8 DEF SourceReuses, UserGoes
<1>9. ASSUME NEW u \in Users, step = "up", SourceRefreshes(u) PROVE TokenTypeOK'
  <2>1. tok[u].refresh \in 0 .. MaxGrants
    BY DEF Tokens
  <2>2. Grant(tok[u].refresh) \in Tokens /\ accepted' \in 0 .. MaxGrants
    BY <1>9, <2>1, GrantFacts DEF SourceRefreshes, Granting, Tokens
  <2>3. QED
    BY <1>9, <2>2 DEF SourceRefreshes, Granting, UserGoes
<1>10. ASSUME NEW u \in Users, step = "up", RefreshLost(u) PROVE TokenTypeOK'
  BY <1>10 DEF RefreshLost, Granting, Grant, UserGoes
<1>11. ASSUME NEW u \in Users, step = "up", RefreshFails(u) PROVE TokenTypeOK'
  BY <1>11 DEF RefreshFails, UserGoes
<1>12. ASSUME NEW u \in Users, step = "up", StoreToken(u) PROVE TokenTypeOK'
  BY <1>12 DEF StoreToken, UserGoes
<1>13. CASE /\ oauthToken' = NoToken
             /\ user' = [u \in Users |-> "idle"] /\ tok' = [u \in Users |-> NoToken]
             /\ UNCHANGED <<expired, granted, accepted, rotates, lost>>
  <2>1. NoToken \in Tokens
    BY DEF NoToken, Tokens
  <2>2. tok' \in [Users -> Tokens] /\ user' \in [Users -> UserStates]
    BY <1>13, <2>1
  <2>3. QED
    BY <1>13, <2>1, <2>2
<1> HIDE DEF TokenInv, RenewalsInOrder, CallersWait, TokenTypeOK
<1>14. QED
  BY <1>1, <1>2, <1>3, <1>4, <1>5, <1>6, <1>7, <1>8, <1>9, <1>10, <1>11, <1>12, <1>13 DEF TokenMoves, UserStep

(* The session and the server agree on the refresh token, through callers   *)
(* that refresh at the same time and store in any order.                    *)
LEMMA TokenStep ==
    ASSUME TokenTypeOK, file.token \in Tokens, file.token.refresh <= granted,
           TokenInv, CallersWait, TokenMoves
    PROVE  TokenInv'
<1> USE WebApiTokenAssumption DEF TokenTypeOK, Tokens, TokenInv, CallersWait, RenewalsInOrder
<1>1. CASE UNCHANGED tokenVars
  BY <1>1 DEF tokenVars
<1>2. CASE step = "interactive" /\ ExchangeCode
  BY <1>2 DEF ExchangeCode, Granting, Grant, Tokens, NoToken
<1>3. CASE step = "load" /\ file.kind = "good" /\ Restores(file.token)
  BY <1>3 DEF Restores
<1>4. CASE TokenExpires
  BY <1>4 DEF TokenExpires
<1>5. ASSUME NEW u \in Users, NEW force \in BOOLEAN, ReadToken(u, force) PROVE TokenInv'
  BY <1>5 DEF ReadToken, UserGoes
<1>6. ASSUME NEW u \in Users, step = "up", ReturnsCached(u) PROVE TokenInv'
  BY <1>6 DEF ReturnsCached, UserGoes
<1>7. ASSUME NEW u \in Users, step = "up", AsksSource(u) PROVE TokenInv'
  BY <1>7 DEF AsksSource, UserGoes
<1>8. ASSUME NEW u \in Users, step = "up", SourceReuses(u) PROVE TokenInv'
  BY <1>8 DEF SourceReuses, UserGoes
<1>9. ASSUME NEW u \in Users, step = "up", SourceRefreshes(u) PROVE TokenInv'
  <2>1. /\ user[u] = "source" /\ tok[u].refresh = accepted /\ tok[u].refresh # 0
        /\ granted' = granted + 1 /\ accepted' = Grant(tok[u].refresh).refresh
        /\ tok' = [tok EXCEPT ![u] = Grant(tok[u].refresh)]
        /\ user' = [user EXCEPT ![u] = "renewed"]
        /\ UNCHANGED <<oauthToken, rotates, lost>>
    BY <1>9 DEF SourceRefreshes, Granting, UserGoes
  <2>2. /\ Grant(tok[u].refresh) # NoToken
        /\ Grant(tok[u].refresh).refresh = IF rotates THEN granted + 1 ELSE accepted
    BY <1>9, <2>1, GrantFacts DEF SourceRefreshes, Granting
  <2>3. tok'[u] = Grant(tok[u].refresh) /\ \A v \in Users \ {u} : tok'[v] = tok[v] /\ user'[v] = user[v]
    BY <2>1
  <2>4. CASE rotates
    <3>1. \A v \in Users \ {u} : user[v] # "renewed"
      BY <2>1, <2>4
    <3>2. accepted' = granted + 1 /\ tok'[u].refresh = granted + 1
      BY <2>1, <2>2, <2>3, <2>4
    <3>3. QED
      BY <2>1, <2>2, <2>3, <2>4, <3>1, <3>2
  <2>5. CASE ~rotates
    <3>1. accepted' = accepted /\ tok'[u].refresh = accepted
      BY <2>1, <2>2, <2>3, <2>5
    <3>2. QED
      BY <2>1, <2>2, <2>3, <2>5, <3>1
  <2>6. QED
    BY <2>4, <2>5
<1>10. ASSUME NEW u \in Users, step = "up", RefreshLost(u) PROVE TokenInv'
  BY <1>10 DEF RefreshLost, Granting, Grant, UserGoes
<1>11. ASSUME NEW u \in Users, step = "up", RefreshFails(u) PROVE TokenInv'
  BY <1>11 DEF RefreshFails, UserGoes
<1>12. ASSUME NEW u \in Users, step = "up", StoreToken(u) PROVE TokenInv'
  BY <1>12 DEF StoreToken, UserGoes
<1>13. CASE /\ oauthToken' = NoToken
             /\ user' = [u \in Users |-> "idle"] /\ tok' = [u \in Users |-> NoToken]
             /\ UNCHANGED <<expired, granted, accepted, rotates, lost>>
  BY <1>13 DEF NoToken, Tokens
<1> HIDE DEF TokenInv, RenewalsInOrder, CallersWait, TokenTypeOK
<1>14. QED
  BY <1>1, <1>2, <1>3, <1>4, <1>5, <1>6, <1>7, <1>8, <1>9, <1>10, <1>11, <1>12, <1>13 DEF TokenMoves, UserStep

(* The behaviour of the application is chosen once.                        *)
LEMMA SameDoings == [Next]_vars => does' = does
BY DEF Next, vars, connectVars, fileVars, ConnectStep, Begin, Load, ClientToken, Login5, Request,
       ResolveAccesspoint, ResolveSpclient, ResolveDealer, Resolve, ConnectAp, OpenServer, InteractiveFails,
       Exchange, NewSpclient, StartController, Truncate, Write, ProcessEnds, NewProcess, RemoveFile,
       UseAddress, OtherSession, HandlerRuns, WaiterRuns, StopperRuns, LoginInput, UseToken, TimePasses

(* The only process of a session without restarts starts without a file.   *)
LEMMA FirstFileStep ==
    ASSUME [Next]_vars, does \cap {"forces", "restarts"} = {},
           step \in {"down", "load"} => file.kind = "none"
    PROVE  step' \in {"down", "load"} => file'.kind = "none"
<1> USE DEF fileVars, connectVars, parts
<1>1. CASE Begin
  BY <1>1 DEF Begin
<1>2. CASE Load
  BY <1>2 DEF Load, Goes, Fails
<1>3. CASE ClientToken \/ Login5
  BY <1>3 DEF ClientToken, Login5, Request, Goes, Fails
<1>4. CASE ResolveAccesspoint
  BY <1>4 DEF ResolveAccesspoint, Resolve, Goes, Fails
<1>5. CASE ConnectAp
  BY <1>5 DEF ConnectAp, Goes, Fails
<1>6. CASE OpenServer \/ InteractiveFails
  BY <1>6 DEF OpenServer, InteractiveFails, Goes, Fails
<1>7. CASE Exchange
  BY <1>7 DEF Exchange, Goes, Fails
<1>8. CASE ResolveSpclient \/ ResolveDealer
  BY <1>8 DEF ResolveSpclient, ResolveDealer, Resolve, Goes, Fails
<1>9. CASE NewSpclient
  BY <1>9 DEF NewSpclient, Goes, Fails
<1>10. CASE StartController
  BY <1>10 DEF StartController, StartFails, Goes, Fails
<1>11. CASE Truncate
  BY <1>11 DEF Truncate, Goes
<1>12. CASE Write
  BY <1>12 DEF Write, Goes
<1>13. CASE ProcessEnds
  BY <1>13 DEF ProcessEnds
<1>14. CASE RemoveFile
  BY <1>14 DEF RemoveFile, NoFile
<1>15. ASSUME NEW t \in Types, UseAddress(t) PROVE step' = step /\ file' = file
  BY <1>15 DEF UseAddress
<1>16. CASE OtherSession \/ HandlerRuns \/ WaiterRuns \/ StopperRuns \/ LoginInput
  BY <1>16 DEF OtherSession, HandlerRuns, WaiterRuns, StopperRuns, LoginInput
<1>17. CASE UseToken \/ TimePasses
  BY <1>17 DEF UseToken, TimePasses
<1>18. CASE UNCHANGED vars
  BY <1>18 DEF vars
<1>19. QED
  BY <1>1, <1>2, <1>3, <1>4, <1>5, <1>6, <1>7, <1>8, <1>9, <1>10, <1>11, <1>12, <1>13, <1>14, <1>15, <1>16, <1>17, <1>18 DEF Next, ConnectStep

(* Unforced callers of one process store renewed tokens only, and so keep   *)
(* what the server accepts.                                                 *)
LEMMA UnforcedStep ==
    ASSUME TokenTypeOK, TokenInv, UnforcedInv, TokenMoves, [Next]_vars PROVE UnforcedInv'
<1>1. does' = does
  BY SameDoings
<1> SUFFICES ASSUME does \cap {"forces", "restarts"} = {} PROVE UnforcedInv'
  BY <1>1 DEF UnforcedInv
<1> DEFINE Asks == \A u \in Users : user[u] \notin {"force", "same"} /\ (user[u] = "source" => ~Valid(tok[u]))
<1>2. Asks /\ Renewable /\ (step \in {"down", "load"} => file.kind = "none")
  BY DEF UnforcedInv
<1>3. step' \in {"down", "load"} => file'.kind = "none"
  BY <1>2, FirstFileStep
<1>4. Asks' /\ Renewable'
  <2> USE <1>2, WebApiTokenAssumption DEF TokenTypeOK, Tokens, Valid, Renewable
  <2>1. CASE UNCHANGED tokenVars
    BY <2>1 DEF tokenVars
  <2>2. CASE step = "interactive" /\ ExchangeCode
    BY <2>2 DEF ExchangeCode, Granting
  <2>3. CASE step = "load" /\ file.kind = "good" /\ Restores(file.token)
    BY <2>3
  <2>4. CASE TokenExpires
    BY <2>4 DEF TokenExpires
  <2>5. ASSUME NEW u \in Users, ReadToken(u, FALSE) PROVE Asks' /\ Renewable'
    BY <2>5 DEF ReadToken, UserGoes
  <2>6. ASSUME NEW u \in Users, ReturnsCached(u) PROVE Asks' /\ Renewable'
    BY <2>6 DEF ReturnsCached, UserGoes
  <2>7. ASSUME NEW u \in Users, AsksSource(u) PROVE Asks' /\ Renewable'
    BY <2>7 DEF AsksSource, UserGoes
  <2>8. ASSUME NEW u \in Users, SourceReuses(u) PROVE Asks' /\ Renewable'
    BY <2>8 DEF SourceReuses
  <2>9. ASSUME NEW u \in Users, SourceRefreshes(u) PROVE Asks' /\ Renewable'
    <3>1. user' = [user EXCEPT ![u] = "renewed"] /\ expired' = expired
          /\ \A v \in Users \ {u} : tok'[v] = tok[v]
      BY <2>9 DEF SourceRefreshes, UserGoes
    <3>2. user'[u] = "renewed" /\ \A v \in Users \ {u} : user'[v] = user[v]
      BY <3>1
    <3>3. QED
      BY <3>1, <3>2
  <2>10. ASSUME NEW u \in Users, RefreshLost(u) PROVE Asks' /\ Renewable'
    <3>1. Asks'
      BY <2>10 DEF RefreshLost, Granting, UserGoes
    <3>2. CASE rotates
      <4>1. lost'
        BY <2>10, <3>2, Zenon DEF RefreshLost
      <4>2. QED
        BY <3>1, <4>1
    <3>3. CASE ~rotates
      <4>1. tok[u].refresh = accepted /\ tok[u].refresh # 0 /\ granted < MaxGrants
        BY <2>10 DEF RefreshLost, Granting, TokenInv
      <4>2. accepted' = accepted
        BY <2>10, <3>3, <4>1, GrantFacts DEF RefreshLost, Granting
      <4>3. \A v \in Users : user'[v] # "renewed" => user[v] # "renewed"
        BY <2>10 DEF RefreshLost, UserGoes
      <4>4. oauthToken' = oauthToken /\ (lost => lost')
        BY <2>10, Zenon DEF RefreshLost
      <4>5. QED
        BY <3>1, <4>2, <4>3, <4>4
    <3>4. QED
      BY <3>1, <3>2, <3>3
  <2>11. ASSUME NEW u \in Users, RefreshFails(u) PROVE Asks' /\ Renewable'
    BY <2>11 DEF RefreshFails, UserGoes
  <2>12. ASSUME NEW u \in Users, StoreToken(u) PROVE Asks' /\ Renewable'
    <3>1. user[u] = "renewed" /\ oauthToken' = tok[u] /\ accepted' = accepted
      BY <2>12 DEF StoreToken
    <3>2. tok[u].refresh = accepted
      BY <3>1 DEF TokenInv, RenewalsInOrder
    <3>3. Renewable'
      BY <3>1, <3>2
    <3>4. Asks'
      BY <2>12 DEF StoreToken, UserGoes
    <3>5. QED
      BY <3>3, <3>4
  <2> HIDE DEF Asks, Renewable, TokenTypeOK
  <2>13. QED
    BY <2>1, <2>2, <2>3, <2>4, <2>5, <2>6, <2>7, <2>8, <2>9, <2>10, <2>11, <2>12 DEF TokenMoves, UserStep
<1>5. QED
  BY <1>1, <1>3, <1>4 DEF UnforcedInv

(* Tokens are only ever granted.                                           *)
LEMMA GrantedGrows == ASSUME TokenTypeOK, TokenMoves PROVE granted <= granted'
<1> USE DEF TokenTypeOK
<1>1. CASE UNCHANGED tokenVars
  BY <1>1 DEF tokenVars
<1>2. CASE step = "interactive" /\ ExchangeCode
  BY <1>2 DEF ExchangeCode, Granting, Grant, Tokens, NoToken
<1>3. CASE step = "load" /\ file.kind = "good" /\ Restores(file.token)
  BY <1>3 DEF Restores
<1>4. CASE TokenExpires
  BY <1>4 DEF TokenExpires
<1>5. ASSUME NEW u \in Users, NEW force \in BOOLEAN, ReadToken(u, force) PROVE granted <= granted'
  BY <1>5 DEF ReadToken, UserGoes
<1>6. ASSUME NEW u \in Users, step = "up", ReturnsCached(u) PROVE granted <= granted'
  BY <1>6 DEF ReturnsCached, UserGoes
<1>7. ASSUME NEW u \in Users, step = "up", AsksSource(u) PROVE granted <= granted'
  BY <1>7 DEF AsksSource, UserGoes
<1>8. ASSUME NEW u \in Users, step = "up", SourceReuses(u) PROVE granted <= granted'
  BY <1>8 DEF SourceReuses, UserGoes
<1>9. ASSUME NEW u \in Users, step = "up", SourceRefreshes(u) PROVE granted <= granted'
  BY <1>9 DEF SourceRefreshes, Granting, Grant, UserGoes
<1>10. ASSUME NEW u \in Users, step = "up", RefreshLost(u) PROVE granted <= granted'
  BY <1>10 DEF RefreshLost, Granting, Grant, UserGoes
<1>11. ASSUME NEW u \in Users, step = "up", RefreshFails(u) PROVE granted <= granted'
  BY <1>11 DEF RefreshFails, UserGoes
<1>12. ASSUME NEW u \in Users, step = "up", StoreToken(u) PROVE granted <= granted'
  BY <1>12 DEF StoreToken, UserGoes
<1>13. CASE /\ oauthToken' = NoToken
             /\ user' = [u \in Users |-> "idle"] /\ tok' = [u \in Users |-> NoToken]
             /\ UNCHANGED <<expired, granted, accepted, rotates, lost>>
  BY <1>13 DEF NoToken, Tokens
<1> HIDE DEF TokenInv, RenewalsInOrder, CallersWait, TokenTypeOK
<1>14. QED
  BY <1>1, <1>2, <1>3, <1>4, <1>5, <1>6, <1>7, <1>8, <1>9, <1>10, <1>11, <1>12, <1>13 DEF TokenMoves, UserStep

(* While the session is up its token is replaced, never dropped.           *)
LEMMA TokenStays ==
    ASSUME TokenTypeOK, TokenInv, UseToken, oauthToken # NoToken PROVE oauthToken' # NoToken
<1>1. PICK u \in Users : (\E force \in BOOLEAN : ReadToken(u, force)) \/ UserStep(u)
  BY DEF UseToken
<1>2. CASE StoreToken(u)
  BY <1>2 DEF StoreToken, TokenInv
<1>3. CASE ~StoreToken(u)
  BY <1>1, <1>3 DEF UserStep, ReadToken, ReturnsCached, AsksSource, SourceReuses, SourceRefreshes, RefreshLost, RefreshFails
<1>4. QED
  BY <1>2, <1>3

-----------------------------------------------------------------------------
(* The types of Connect's own variables.                                   *)
LEMMA ConnectTypeStep == ASSUME ConnectTypeOK, TokenTypeOK, [Next]_vars PROVE ConnectTypeOK'
<1> USE SessionAssumption DEF ConnectTypeOK, Steps, fileVars, connectVars
<1>1. CASE Begin
  BY <1>1 DEF Begin
<1>2. CASE Load
  BY <1>2 DEF Load, Goes, Fails
<1>3. CASE ClientToken
  BY <1>3 DEF ClientToken, Request, Goes, Fails
<1>4. CASE ResolveAccesspoint
  BY <1>4 DEF ResolveAccesspoint, Resolve, Goes, Fails
<1>5. CASE ConnectAp
  BY <1>5 DEF ConnectAp, Goes, Fails
<1>6. CASE OpenServer
  BY <1>6 DEF OpenServer
<1>7. CASE InteractiveFails
  BY <1>7 DEF InteractiveFails, Goes, Fails
<1>8. CASE Exchange
  BY <1>8 DEF Exchange, Goes, Fails
<1>9. CASE Login5
  BY <1>9 DEF Login5, Request, Goes, Fails
<1>10. CASE ResolveSpclient
  BY <1>10 DEF ResolveSpclient, Resolve, Goes, Fails
<1>11. CASE NewSpclient
  BY <1>11 DEF NewSpclient, Goes, Fails
<1>12. CASE ResolveDealer
  BY <1>12 DEF ResolveDealer, Resolve, Goes, Fails
<1>13. CASE StartController
  BY <1>13 DEF StartController, StartFails, Goes, Fails
<1>14. CASE Truncate
  <2>1. Torn \in [kind : {"none", "torn", "good"}, id : 0 .. MaxStarts, token : Tokens]
    BY WebApiTokenAssumption DEF Torn, NoToken, Tokens
  <2>2. file' = Torn \/ file' = file
    BY <1>14 DEF Truncate
  <2>3. file' \in [kind : {"none", "torn", "good"}, id : 0 .. MaxStarts, token : Tokens]
    BY <2>1, <2>2
  <2>4. QED
    BY <1>14, <2>3 DEF Truncate, Goes
<1>15. CASE Write
  <2>1. oauthToken \in Tokens
    BY DEF TokenTypeOK
  <2>2. CASE UNCHANGED fileVars
    BY <1>15, <2>2 DEF Write, Goes
  <2>3. CASE /\ file' = [kind |-> "good", id |-> deviceId, token |-> oauthToken]
             /\ savedId' = deviceId /\ savedTok' = (oauthToken # NoToken)
    <3>1. file' \in [kind : {"none", "torn", "good"}, id : 0 .. MaxStarts, token : Tokens]
      BY <2>1, <2>3
    <3>2. savedId' \in 0 .. MaxStarts /\ savedTok' \in BOOLEAN
      BY <2>3
    <3>3. QED
      BY <1>15, <3>1, <3>2 DEF Write, Goes
  <2>4. QED
    BY <1>15, <2>2, <2>3 DEF Write
<1>16. CASE ProcessEnds
  BY <1>16 DEF ProcessEnds, NewProcess
<1>17. CASE RemoveFile
  <2>1. NoFile \in [kind : {"none", "torn", "good"}, id : 0 .. MaxStarts, token : Tokens]
    BY WebApiTokenAssumption DEF NoFile, NoToken, Tokens
  <2>2. file' \in [kind : {"none", "torn", "good"}, id : 0 .. MaxStarts, token : Tokens]
    BY <1>17, <2>1 DEF RemoveFile
  <2>3. savedId' \in 0 .. MaxStarts
    <3>1. savedId' = 0
      BY <1>17 DEF RemoveFile
    <3>2. QED
      BY <3>1
  <2>6. savedTok' \in BOOLEAN
    BY <1>17, Zenon DEF RemoveFile
  <2>4. UNCHANGED <<does, starts, step, deviceId, open>>
    BY <1>17 DEF RemoveFile
  <2>5. QED
    BY <2>2, <2>3, <2>4, <2>6
<1>18. ASSUME NEW t \in Types, UseAddress(t) PROVE ConnectTypeOK'
  BY <1>18 DEF UseAddress
<1>19. CASE OtherSession
  BY <1>19 DEF OtherSession
<1>20. CASE HandlerRuns
  BY <1>20 DEF HandlerRuns
<1>21. CASE WaiterRuns
  BY <1>21 DEF WaiterRuns
<1>22. CASE StopperRuns
  BY <1>22 DEF StopperRuns
<1>23. CASE LoginInput
  BY <1>23 DEF LoginInput
<1>24. CASE UseToken
  BY <1>24 DEF UseToken
<1>25. CASE TimePasses
  BY <1>25 DEF TimePasses
<1>26. CASE UNCHANGED vars
  BY <1>26 DEF vars
<1>27. QED
  BY <1>1, <1>2, <1>3, <1>4, <1>5, <1>6, <1>7, <1>8, <1>9, <1>10, <1>11, <1>12, <1>13, <1>14, <1>15, <1>16, <1>17, <1>18, <1>19, <1>20, <1>21, <1>22, <1>23, <1>24, <1>25, <1>26 DEF Next, ConnectStep

(* No call of WebApiToken is under way while Connect runs.                 *)
LEMMA CallersWaitStep == ASSUME CallersWait, [Next]_vars PROVE CallersWait'
<1> USE DEF CallersWait, fileVars, connectVars, tokenVars, parts
<1>1. CASE Begin
  BY <1>1 DEF Begin
<1>2. CASE Load
  BY <1>2 DEF Load, Goes, Fails, Restores
<1>3. CASE ClientToken
  BY <1>3 DEF ClientToken, Request, Goes, Fails
<1>4. CASE ResolveAccesspoint
  BY <1>4 DEF ResolveAccesspoint, Resolve, Goes, Fails
<1>5. CASE ConnectAp
  BY <1>5 DEF ConnectAp, Goes, Fails
<1>6. CASE OpenServer
  BY <1>6 DEF OpenServer
<1>7. CASE InteractiveFails
  BY <1>7 DEF InteractiveFails, Goes, Fails
<1>8. CASE Exchange
  BY <1>8 DEF Exchange, Goes, Fails, ExchangeCode
<1>9. CASE Login5
  BY <1>9 DEF Login5, Request, Goes, Fails
<1>10. CASE ResolveSpclient
  BY <1>10 DEF ResolveSpclient, Resolve, Goes, Fails
<1>11. CASE NewSpclient
  BY <1>11 DEF NewSpclient, Goes, Fails
<1>12. CASE ResolveDealer
  BY <1>12 DEF ResolveDealer, Resolve, Goes, Fails
<1>13. CASE StartController
  BY <1>13 DEF StartController, StartFails, Goes, Fails
<1>14. CASE Truncate
  BY <1>14 DEF Truncate, Goes
<1>15. CASE Write
  BY <1>15 DEF Write, Goes
<1>16. CASE ProcessEnds
  BY <1>16 DEF ProcessEnds, NewProcess
<1>17. CASE RemoveFile
  BY <1>17 DEF RemoveFile
<1>18. ASSUME NEW t \in Types, UseAddress(t) PROVE CallersWait'
  BY <1>18 DEF UseAddress
<1>19. CASE OtherSession
  BY <1>19 DEF OtherSession
<1>20. CASE HandlerRuns
  BY <1>20 DEF HandlerRuns
<1>21. CASE WaiterRuns
  BY <1>21 DEF WaiterRuns
<1>22. CASE StopperRuns
  BY <1>22 DEF StopperRuns
<1>23. CASE LoginInput
  BY <1>23 DEF LoginInput
<1>24. CASE UseToken
  BY <1>24 DEF UseToken
<1>25. CASE TimePasses
  BY <1>25 DEF TimePasses, TokenExpires
<1>26. CASE UNCHANGED vars
  BY <1>26 DEF vars
<1>27. QED
  BY <1>1, <1>2, <1>3, <1>4, <1>5, <1>6, <1>7, <1>8, <1>9, <1>10, <1>11, <1>12, <1>13, <1>14, <1>15, <1>16, <1>17, <1>18, <1>19, <1>20, <1>21, <1>22, <1>23, <1>24, <1>25, <1>26 DEF Next, ConnectStep

(* What is in the file, and what was saved last, belong to the session.    *)
LEMMA FileStep ==
    ASSUME ConnectTypeOK, TokenTypeOK, TokenInv, FileInv, [Next]_vars PROVE FileInv'
<1>0. granted <= granted'
  BY TokenOnly, GrantedGrows
<1> USE <1>0 DEF ConnectTypeOK, FileInv, SavedIdentityKept, TokenTypeOK, Tokens, fileVars, connectVars, tokenVars, parts
<1>1. CASE Begin
  BY <1>1 DEF Begin
<1>2. CASE Load
  BY <1>2 DEF Load, Goes, Fails, Restores
<1>3. CASE ClientToken
  BY <1>3 DEF ClientToken, Request, Goes, Fails
<1>4. CASE ResolveAccesspoint
  BY <1>4 DEF ResolveAccesspoint, Resolve, Goes, Fails
<1>5. CASE ConnectAp
  BY <1>5 DEF ConnectAp, Goes, Fails
<1>6. CASE OpenServer
  BY <1>6 DEF OpenServer
<1>7. CASE InteractiveFails
  BY <1>7 DEF InteractiveFails, Goes, Fails
<1>8. CASE Exchange
  <2>1. CASE ExchangeCode
    <3>1. granted < MaxGrants /\ oauthToken' = Grant(0) /\ 0 \in 0 .. MaxGrants
      BY <2>1, WebApiTokenAssumption DEF ExchangeCode, Granting
    <3>2. oauthToken' # NoToken
      BY <3>1, GrantFacts DEF TokenTypeOK
    <3>3. CASE Goes("spotifyToken")
      <4>1. step' = "spotifyToken" /\ UNCHANGED <<starts, deviceId, file, savedId, savedTok>>
        BY <1>8, <3>3 DEF Exchange, Goes
      <4>2. step = "interactive"
        BY <1>8 DEF Exchange
      <4>3. SavedIdentityKept'
        BY <3>2, <4>1, <4>2
      <4>4. file.token.refresh \in Int /\ granted \in Int /\ granted' = granted + 1
        BY <2>1 DEF ExchangeCode, Granting
      <4>5. file'.token.refresh <= granted'
        BY <4>1, <4>4
      <4>6. QED
        BY <4>1, <4>2, <4>3, <4>5
    <3>4. CASE UNCHANGED tokenVars
      BY <1>8, <3>4 DEF Exchange, Goes, Fails
    <3>5. QED
      BY <1>8, <3>3, <3>4 DEF Exchange
  <2>2. CASE UNCHANGED tokenVars
    BY <1>8, <2>2 DEF Exchange, Goes, Fails
  <2>3. QED
    BY <1>8, <2>1, <2>2 DEF Exchange
<1>9. CASE Login5
  BY <1>9 DEF Login5, Request, Goes, Fails
<1>10. CASE ResolveSpclient
  BY <1>10 DEF ResolveSpclient, Resolve, Goes, Fails
<1>11. CASE NewSpclient
  BY <1>11 DEF NewSpclient, Goes, Fails
<1>12. CASE ResolveDealer
  BY <1>12 DEF ResolveDealer, Resolve, Goes, Fails
<1>13. CASE StartController
  BY <1>13 DEF StartController, StartFails, Goes, Fails
<1>14. CASE Truncate
  <2>1. CASE file' = Torn
    BY <1>14, <2>1 DEF Truncate, Goes, Torn, NoToken
  <2>2. CASE UNCHANGED file
    BY <1>14, <2>2 DEF Truncate, Goes
  <2>3. QED
    BY <1>14, <2>1, <2>2 DEF Truncate
<1>15. CASE Write
  <2>1. CASE UNCHANGED fileVars
    BY <1>15, <2>1 DEF Write, Goes
  <2>2. CASE /\ file' = [kind |-> "good", id |-> deviceId, token |-> oauthToken]
             /\ savedId' = deviceId /\ savedTok' = (oauthToken # NoToken)
    <3>1. step' = "up" /\ step = "write" /\ UNCHANGED <<starts, deviceId, oauthToken, granted>>
      BY <1>15 DEF Write, Goes
    <3>2. file'.kind = "good" /\ file'.id = deviceId /\ file'.token = oauthToken /\ savedId' = deviceId
      BY <2>2
    <3>3. starts' # 0 /\ deviceId # 0
      BY <3>1
    <3>4. file'.token.refresh <= granted'
      BY <3>1, <3>2 DEF TokenInv
    <3>5. savedTok' => oauthToken # NoToken
      BY <2>2, Zenon
    <3>6. SavedIdentityKept'
      BY <3>1, <3>2, <3>5
    <3>7. QED
      BY <3>1, <3>2, <3>3, <3>4, <3>5, <3>6
  <2>3. QED
    BY <1>15, <2>1, <2>2 DEF Write
<1>16. CASE ProcessEnds
  BY <1>16 DEF ProcessEnds, NewProcess
<1>17. CASE RemoveFile
  <2>1. /\ file'.kind = "none" /\ file'.token.refresh = 0 /\ savedId' = 0 /\ savedTok' = FALSE
        /\ UNCHANGED <<granted, starts, step, deviceId>>
    BY <1>17 DEF RemoveFile, NoFile, NoToken
  <2>2. QED
    BY <2>1
<1>18. ASSUME NEW t \in Types, UseAddress(t) PROVE FileInv'
  BY <1>18 DEF UseAddress
<1>19. CASE OtherSession
  BY <1>19 DEF OtherSession
<1>20. CASE HandlerRuns
  BY <1>20 DEF HandlerRuns
<1>21. CASE WaiterRuns
  BY <1>21 DEF WaiterRuns
<1>22. CASE StopperRuns
  BY <1>22 DEF StopperRuns
<1>23. CASE LoginInput
  BY <1>23 DEF LoginInput
<1>24. CASE UseToken
  <2>1. step = "up" /\ UNCHANGED <<connectVars, fileVars>>
    BY <1>24 DEF UseToken
  <2>2. oauthToken # NoToken => oauthToken' # NoToken
    BY <1>24, TokenStays
  <2>3. SavedIdentityKept'
    BY <2>1, <2>2
  <2>4. file.token.refresh \in Int /\ granted \in Int /\ granted' \in Int /\ file' = file
    <3>1. TokenTypeOK'
      BY TokenOnly, TokenTypeStep
    <3>2. QED
      BY <2>1, <3>1
  <2>5. file'.token.refresh <= granted'
    BY <2>4
  <2>6. QED
    BY <2>1, <2>3, <2>5
<1>25. CASE TimePasses
  BY <1>25 DEF TimePasses, TokenExpires
<1>26. CASE UNCHANGED vars
  BY <1>26 DEF vars
<1>27. QED
  BY <1>1, <1>2, <1>3, <1>4, <1>5, <1>6, <1>7, <1>8, <1>9, <1>10, <1>11, <1>12, <1>13, <1>14, <1>15, <1>16, <1>17, <1>18, <1>19, <1>20, <1>21, <1>22, <1>23, <1>24, <1>25, <1>26 DEF Next, ConnectStep

-----------------------------------------------------------------------------
(* The initial states satisfy the invariant.                               *)
LEMMA InitIInv == Init => IInv
<1> SUFFICES ASSUME Init PROVE IInv
  OBVIOUS
<1> USE DEF Init
<1>1. ResolverTypeOK /\ TurnInv
  <2>1. NoneGiven \in Givens /\ NoneGiven.turn = {} /\ NoneGiven.again = FALSE
    <3>1. 0 \in 0 .. MaxLen /\ {} \in SUBSET (1 .. MaxLen)
      BY ResolverAssumption
    <3>2. QED
      BY <3>1 DEF NoneGiven, Givens
  <2>2. given = [t \in Types |-> NoneGiven] /\ made = {}
    BY DEF ResolverInit
  <2>3. given \in [Types -> Givens]
    BY <2>1, <2>2
  <2>4. ResolverTypeOK
    BY <2>3, ResolverAssumption DEF ResolverInit, ResolverTypeOK, LookupStates
  <2>5. TurnInv
    BY <2>1, <2>2 DEF TurnInv
  <2>6. QED
    BY <2>4, <2>5
<1>2. ServerTypeOK /\ LoginInv
  BY DEF ServerInit, ServerTypeOK, LoginInv, LoginNotStranded
<1>3. NoToken \in Tokens
  BY WebApiTokenAssumption DEF NoToken, Tokens
<1>4. TokenTypeOK
  <2>1. user \in [Users -> UserStates] /\ tok \in [Users -> Tokens]
    BY <1>3 DEF TokenInit, UserStates
  <2>2. rotates \in BOOLEAN /\ lost \in BOOLEAN
    BY Zenon DEF TokenInit
  <2>3. 0 \in 0 .. MaxGrants
    BY WebApiTokenAssumption
  <2>4. QED
    BY <1>3, <2>1, <2>2, <2>3 DEF TokenInit, TokenTypeOK
<1>5. ConnectTypeOK
  <2>1. NoFile \in [kind : {"none", "torn", "good"}, id : 0 .. MaxStarts, token : Tokens]
    BY <1>3, SessionAssumption DEF NoFile
  <2>2. step \in Steps
    BY DEF Steps
  <2>3. 0 \in 0 .. MaxStarts
    BY SessionAssumption
  <2>4. savedTok \in BOOLEAN
    BY Zenon
  <2>5. QED
    BY <2>1, <2>2, <2>3, <2>4 DEF ConnectTypeOK
<1>6. TokenInv /\ CallersWait /\ UnforcedInv
  BY DEF TokenInit, TokenInv, CallersWait, RenewalsInOrder, UnforcedInv, Renewable, NoToken, NoFile
<1>7. FileInv
  BY DEF TokenInit, FileInv, SavedIdentityKept, NoFile, NoToken
<1>8. QED
  BY <1>1, <1>2, <1>4, <1>5, <1>6, <1>7 DEF IInv, TypeOK, ConnectTypeOK

(* The inductive invariant holds in every reachable state.                 *)
THEOREM SessionInvariant == Spec => []IInv
<1>1. IInv /\ [Next]_vars => IInv'
  <2> SUFFICES ASSUME IInv, [Next]_vars PROVE IInv'
    OBVIOUS
  <2>1. ResolverMoves /\ ServerMoves /\ TokenMoves
    BY ResolverOnly, ServerOnly, TokenOnly
  <2>2. ConnectTypeOK /\ file.token \in Tokens /\ file.token.refresh <= granted
    BY DEF IInv, TypeOK, ConnectTypeOK, FileInv
  <2>3. ResolverTypeOK' /\ TurnInv'
    BY <2>1, ResolverTypeStep, TurnStep DEF IInv, TypeOK
  <2>4. ServerTypeOK' /\ LoginInv'
    BY <2>1, ServerTypeStep, LoginStep DEF IInv, TypeOK
  <2>5. TokenTypeOK' /\ TokenInv' /\ UnforcedInv'
    BY <2>1, <2>2, TokenTypeStep, TokenStep, UnforcedStep, FirstFileStep DEF IInv, TypeOK
  <2>6. ConnectTypeOK' /\ CallersWait' /\ FileInv'
    BY <2>2, ConnectTypeStep, CallersWaitStep, FileStep DEF IInv, TypeOK
  <2>7. QED
    BY <2>3, <2>4, <2>5, <2>6 DEF IInv, TypeOK, ConnectTypeOK
<1>2. QED
  BY InitIInv, <1>1, PTL DEF Spec

(* Type correctness of the session and its parts.                          *)
THEOREM TypeCorrect == Spec => []TypeOK
<1>1. IInv => TypeOK
  BY DEF IInv
<1>2. QED
  BY <1>1, SessionInvariant, PTL

(* An address function gives every address of its list before it gives one  *)
(* again or looks for another list, whatever the service answers and others *)
(* store in the cache meanwhile.                                            *)
THEOREM AddressesInTurnHolds == Spec => []AddressesInTurn
<1>1. ASSUME IInv PROVE AddressesInTurn
  <2>1. ASSUME NEW t \in Types, t \in made, lookup[t] # "idle" PROVE 1 .. addrs[t] \subseteq given[t].turn
    BY <1>1, <2>1 DEF IInv, TurnInv
  <2>2. QED
    BY <1>1, <2>1 DEF IInv, TurnInv, AddressesInTurn
<1>2. QED
  BY <1>1, SessionInvariant, PTL

(* Any number of concurrent callers of WebApiToken: a renewed token is not  *)
(* outdated before it is stored; and a session whose calls are not forced   *)
(* keeps the refresh token that the server accepts.                         *)
THEOREM RefreshTokenAcceptedHolds == Spec => []RefreshTokenAccepted
<1>1. IInv => RefreshTokenAccepted
  BY DEF IInv, TokenInv, UnforcedInv, RefreshTokenAccepted
<1>2. QED
  BY <1>1, SessionInvariant, PTL

(* Whatever callbacks and cancellations race, a login is not left waiting   *)
(* for a server that has gone, and leaves no server behind that nobody has  *)
(* told to stop.  That both then move on is InteractiveSettles.             *)
THEOREM LoginNotStrandedHolds == Spec => []LoginNotStranded
<1>1. IInv => LoginNotStranded
  BY DEF IInv, LoginInv
<1>2. QED
  BY <1>1, SessionInvariant, PTL

(* A device id and a token once saved stay those of the file and of every   *)
(* later session, through any number of crashes.                            *)
THEOREM SavedIdentityKeptHolds == Spec => []SavedIdentityKept
<1>1. IInv => SavedIdentityKept
  BY DEF IInv, FileInv
<1>2. QED
  BY <1>1, SessionInvariant, PTL
=============================================================================
