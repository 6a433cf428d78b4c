------------------------------ MODULE Session ------------------------------
(***************************************************************************)
(* quick/connect.go over session/session.go and state.go: Connect loads    *)
(* the state file, chooses credentials, brings up one part after the other *)
(* and saves the state; Close takes them down.  Any step may fail, the     *)
(* process may crash at any step and starts again with what the file has.  *)
(*                                                                         *)
(* The parts whose state matters here are composed: the resolver and its   *)
(* address functions, the callback server of an interactive login, and the *)
(* OAuth token with its callers.  The access point and the dealer are only *)
(* known as open or not; Accesspoint and Dealer have the rest.             *)
(***************************************************************************)
EXTENDS Resolver, OAuth2Server, WebApiToken

CONSTANTS Interactive,  \* cfg.Interactive
          MaxStarts     \* calls of Connect

ASSUME SessionAssumption ==
    /\ Types = {"accesspoint", "spclient", "dealer"}
    /\ Interactive \in BOOLEAN /\ MaxStarts \in Nat

VARIABLES
    does,      \* what the application does when connected (external); see Doings
    starts,    \* calls of Connect so far
    step,      \* how far Connect is; see Steps
    deviceId,  \* s.deviceId; 0 is not set yet
    open,      \* connections that are open
    file,      \* the state file
    savedId,   \* history: the device id of the last whole state file, 0 for none
    savedTok   \* history: did that file have an OAuth token?

fileVars    == <<file, savedId, savedTok>>
connectVars == <<starts, step, deviceId, open>>
vars == <<does, connectVars, fileVars, resolverVars, serverVars, tokenVars>>

Doings == {"lookups", "tokens", "forces", "restarts"}
Steps == {"down", "load", "clientToken", "accesspoint", "stored", "interactive",
          "spotifyToken", "login5", "spclient", "newSpclient", "dealer", "start",
          "truncate", "write", "up", "failed"}
NoFile == [kind |-> "none", id |-> 0, token |-> NoToken]
Torn   == [kind |-> "torn", id |-> 0, token |-> NoToken]

TypeOK ==
    /\ does \subseteq Doings
    /\ starts \in 0 .. MaxStarts
    /\ step \in Steps
    /\ deviceId \in 0 .. MaxStarts
    /\ open \subseteq {"accesspoint", "dealer"}
    /\ file \in [kind : {"none", "torn", "good"}, id : 0 .. MaxStarts, token : Tokens]
    /\ savedId \in 0 .. MaxStarts /\ savedTok \in BOOLEAN
    /\ ResolverTypeOK /\ ServerTypeOK /\ TokenTypeOK

Init ==
    /\ does \subseteq Doings
    /\ starts = 0 /\ step = "down" /\ deviceId = 0 /\ open = {}
    /\ file = NoFile /\ savedId = 0 /\ savedTok = FALSE
    /\ ResolverInit /\ ServerInit /\ TokenInit

parts == <<resolverVars, serverVars, tokenVars>>

Goes(s) == step' = s /\ UNCHANGED starts

\* An error is returned; nothing that is open is closed.
Fails == Goes("failed")

-----------------------------------------------------------------------------
\* Connect: the state file and the credentials

Begin ==
    /\ step = "down" /\ starts < MaxStarts
    /\ starts' = starts + 1
    /\ step' = "load"
    /\ UNCHANGED <<does, deviceId, open, fileVars, parts>>

\* The token of the file is the session's, whatever became of it since.
Restores(token) ==
    /\ oauthToken' = token
    /\ UNCHANGED <<expired, granted, accepted, rotates, user, tok, lost>>

\* Slip: a file that cannot be read is taken for a missing one.
LoadForgiving ==
    /\ step = "load"
    /\ IF file.kind = "good"
       THEN Goes("clientToken") /\ deviceId' = file.id /\ Restores(file.token)
       ELSE Goes("clientToken") /\ deviceId' = starts /\ UNCHANGED tokenVars
    /\ UNCHANGED <<does, open, fileVars, resolverVars, serverVars>>

\* LoadState.  A missing file means an interactive login, under a device id
\* that is generated; the rest of a torn one is no JSON, and an error.
Load ==
    /\ step = "load"
    /\ CASE file.kind = "good" ->
              Goes("clientToken") /\ deviceId' = file.id /\ Restores(file.token)
         [] file.kind = "none" /\ Interactive ->
              Goes("clientToken") /\ deviceId' = starts /\ UNCHANGED tokenVars
         [] OTHER -> Fails /\ UNCHANGED <<deviceId, tokenVars>>
    /\ UNCHANGED <<does, open, fileVars, resolverVars, serverVars>>

-----------------------------------------------------------------------------
\* NewSessionFromOptions

\* A request that is one step here: it is answered as hoped, or not.
Request(at, next) ==
    /\ step = at
    /\ Goes(next) \/ Fails
    /\ UNCHANGED <<does, deviceId, open, fileVars, parts>>

ClientToken == Request("clientToken", "accesspoint")
Login5      == Request("login5", "spclient")

\* GetAccesspoint, GetSpclient and GetDealer: getFunc of the resolver.
Resolve(t, next) ==
    /\ step = t
    /\ IF t \in made
       THEN Goes(next) /\ UNCHANGED resolverVars
       ELSE \/ Lookup(t) /\ UNCHANGED <<starts, step>>
            \/ LookupStep(t) /\ UNCHANGED <<starts, step>>
            \/ lookup[t] = "failed" /\ Fails /\ UNCHANGED resolverVars
    /\ UNCHANGED <<does, deviceId, open, fileVars, serverVars, tokenVars>>

\* Stored credentials are in the file whenever it is good.
ResolveAccesspoint ==
    Resolve("accesspoint", IF file.kind = "good" THEN "stored" ELSE "interactive")
ResolveSpclient == Resolve("spclient", "newSpclient")
ResolveDealer   == Resolve("dealer", "start")

\* ap.ConnectStored or ConnectSpotifyToken; the last attempt of one that
\* failed may leave its connection open.
ConnectAp ==
    /\ step \in {"stored", "spotifyToken"}
    /\ \/ Goes("login5") /\ open' = {"accesspoint"}
       \/ Fails /\ open' \in {{}, {"accesspoint"}}
    /\ UNCHANGED <<does, deviceId, fileVars, parts>>

\* connectInteractive up to the code.
OpenServer ==
    /\ step = "interactive" /\ StartServer
    /\ UNCHANGED <<does, connectVars, fileVars, resolverVars, tokenVars>>

InteractiveFails ==
    /\ step = "interactive" /\ waiter = "failed" /\ Fails
    /\ UNCHANGED <<does, deviceId, open, fileVars, parts>>

\* The code is exchanged for the token that the rest of the login uses.
Exchange ==
    /\ step = "interactive" /\ waiter = "exchange"
    /\ \/ ExchangeCode /\ Goes("spotifyToken")
       \/ Fails /\ UNCHANGED tokenVars
    /\ UNCHANGED <<does, deviceId, open, fileVars, resolverVars, serverVars>>

\* NewSpclient takes one address for good, which may not make a URL.
NewSpclient ==
    /\ step = "newSpclient"
    /\ NextAddress("spclient")
    /\ Goes("dealer") \/ Fails
    /\ UNCHANGED <<does, deviceId, open, fileVars, serverVars, tokenVars>>

-----------------------------------------------------------------------------
\* Connect after the session is there

\* sess.Close, which a reconnection of the access point may survive.
StartFails == Fails /\ open' \in {{}, {"accesspoint"}}

\* ctrl.Start: the dealer connects.
StartController ==
    /\ step = "start"
    /\ \/ Goes("truncate") /\ open' = open \cup {"dealer"}
       \/ StartFails
    /\ UNCHANGED <<does, deviceId, fileVars, parts>>

\* os.WriteFile truncates the file first.  An error is only logged.
Truncate ==
    /\ step = "truncate"
    /\ \/ Goes("write") /\ file' = Torn
       \/ Goes("up") /\ UNCHANGED file
    /\ UNCHANGED <<does, deviceId, open, savedId, savedTok, parts>>

\* ExportState with the device id and the token, written in full or not.
Write ==
    /\ step = "write"
    /\ Goes("up")
    /\ \/ /\ file' = [kind |-> "good", id |-> deviceId, token |-> oauthToken]
          /\ savedId' = deviceId /\ savedTok' = (oauthToken # NoToken)
       \/ UNCHANGED fileVars
    /\ UNCHANGED <<does, deviceId, open, parts>>

-----------------------------------------------------------------------------
\* The end of a session

\* The variables of a new process; the servers and the time go on.
NewProcess ==
    /\ step' = "down" /\ deviceId' = 0 /\ open' = {}
    /\ cache' = [t \in Types |-> 0] /\ fresh' = {} /\ made' = {}
    /\ addrs' = [t \in Types |-> 0] /\ idx' = [t \in Types |-> 0]
    /\ lookup' = [t \in Types |-> "idle"] /\ given' = [t \in Types |-> NoneGiven]
    /\ ctxDone' = FALSE /\ serverDone' = FALSE /\ server' = "off" /\ handler' = FALSE
    /\ code' = FALSE /\ codeClosed' = FALSE /\ waiter' = "off"
    /\ oauthToken' = NoToken
    /\ user' = [u \in Users |-> "idle"] /\ tok' = [u \in Users |-> NoToken]
    /\ UNCHANGED <<does, starts, fileVars, sends, expired, granted, accepted, rotates, lost>>

\* The process crashes, or ends after an error or after ConnectResult.Close.
ProcessEnds == "restarts" \in does /\ step # "down" /\ NewProcess

\* The user removes the file, for instance because it is torn.
RemoveFile ==
    /\ step = "down" /\ file # NoFile
    /\ file' = NoFile /\ savedId' = 0 /\ savedTok' = FALSE
    /\ UNCHANGED <<does, connectVars, parts>>

-----------------------------------------------------------------------------
\* The parts run

\* The access point and the dealer dial, when they connect and again later.
UseAddress(t) ==
    /\ "lookups" \in does
    /\ \/ t = "accesspoint" /\ step \in {"stored", "spotifyToken", "up"}
       \/ t = "dealer" /\ step \in {"start", "up"}
    /\ AddressStep(t) \/ LookupStep(t)
    /\ UNCHANGED <<does, connectVars, fileVars, serverVars, tokenVars>>

\* Options.Resolver may be shared with another session.
OtherSession ==
    /\ "lookups" \in does
    /\ TtlEnds \/ \E t \in Types : OtherStores(t)
    /\ UNCHANGED <<does, connectVars, fileVars, serverVars, tokenVars>>

\* The goroutines of an interactive login.
HandlerRuns == Handle /\ UNCHANGED <<does, connectVars, fileVars, resolverVars, tokenVars>>
WaiterRuns  == WaiterStep /\ UNCHANGED <<does, connectVars, fileVars, resolverVars, tokenVars>>
StopperRuns == StopperStep /\ UNCHANGED <<does, connectVars, fileVars, resolverVars, tokenVars>>

\* The user in the browser, as long as the server listens, and the context of
\* Connect.
LoginInput ==
    /\ \/ Callback
       \/ step = "interactive" /\ Cancel
    /\ UNCHANGED <<does, connectVars, fileVars, resolverVars, tokenVars>>

\* Web API requests while the session is up, and the force of a caller that
\* found its token refused.
UseToken ==
    /\ "tokens" \in does /\ step = "up"
    /\ \E u \in Users :
         \/ ReadToken(u, FALSE)
         \/ "forces" \in does /\ ReadToken(u, TRUE)
         \/ UserStep(u)
    /\ UNCHANGED <<does, connectVars, fileVars, resolverVars, serverVars>>

TimePasses ==
    /\ "tokens" \in does
    /\ TokenExpires
    /\ UNCHANGED <<does, connectVars, fileVars, resolverVars, serverVars>>

-----------------------------------------------------------------------------
ConnectStep ==
    \/ Load \/ ClientToken \/ ResolveAccesspoint \/ ConnectAp
    \/ OpenServer \/ InteractiveFails \/ Exchange \/ Login5
    \/ ResolveSpclient \/ NewSpclient \/ ResolveDealer \/ StartController
    \/ Truncate \/ Write

Next ==
    \/ Begin \/ ConnectStep
    \/ ProcessEnds \/ RemoveFile
    \/ \E t \in Types : UseAddress(t)
    \/ OtherSession
    \/ HandlerRuns \/ WaiterRuns \/ StopperRuns \/ LoginInput
    \/ UseToken \/ TimePasses

Spec == Init /\ [][Next]_vars

\* The goroutines of a login run; nothing is assumed of the user, the servers
\* or of Connect itself.
Fairness == WF_vars(HandlerRuns) /\ WF_vars(WaiterRuns) /\ WF_vars(StopperRuns)

FairSpec == Spec /\ Fairness

-----------------------------------------------------------------------------
\* Properties

\* Once a device id and an OAuth token were saved, every later session of the
\* file has that id, and every later whole file has the id and a token, through
\* crashes in the middle of the save, failed saves and failed Connects (Connect,
\* SaveState, LoadState, ExportState), until the user removes the file.
SavedIdentityKept ==
    savedId # 0 =>
        /\ step \notin {"down", "load", "failed"} => deviceId = savedId
        /\ file.kind = "good" => file.id = savedId
        /\ savedTok => step \in {"down", "load", "failed"} \/ oauthToken # NoToken

\* Callers of WebApiToken that renew and store in any order leave the session
\* with the refresh token that the server accepts.  The whole of it is claimed
\* of one process without forced calls: a forced call may store a token it has
\* not renewed over the one another caller has (session.go:436), and a process
\* that starts again has the token that its file was saved with; the runs
\* session_forced and session_restart show what Renewable loses by them.
RefreshTokenAccepted ==
    /\ RenewalsInOrder
    /\ does \cap {"forces", "restarts"} = {} => Renewable

\* "The caller is responsible for calling Close when the session is no longer
\* needed" (session.go:70): a Connect that returns an error returns nothing
\* that could be closed.
FailureLeavesNothingOpen == step = "failed" => open = {}
=============================================================================
