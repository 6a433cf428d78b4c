---------------------------- MODULE WebApiToken ----------------------------
(***************************************************************************)
(* The OAuth2 token of a session and the function WebApiToken that renews  *)
(* it (session/session.go), called by any number of goroutines.            *)
(*                                                                         *)
(* Access tokens are numbered in the order of their grant, and expire in   *)
(* that order.  The token server is external: it may replace the refresh   *)
(* token at every refresh, and then refuses the old one.                   *)
(***************************************************************************)
EXTENDS Integers

CONSTANTS Users,      \* goroutines that call WebApiToken
          MaxGrants   \* access tokens that are ever granted

ASSUME WebApiTokenAssumption == MaxGrants \in Nat \ {0}

VARIABLES
    oauthToken, \* s.oauthToken; NoToken is nil
    expired,    \* access tokens up to this one are expired
    granted,    \* access tokens granted so far (external)
    accepted,   \* the refresh token the server accepts (external)
    rotates,    \* does the server replace it at every refresh? (external)
    user,       \* user[u]: where the call of u is; see UserStates
    tok,        \* tok[u]: its tok, later its newTok
    lost        \* history: did the answer with the server's refresh token get
                \* lost on its way here? (external)

tokenVars == <<oauthToken, expired, granted, accepted, rotates, user, tok, lost>>

Tokens  == [access : 0 .. MaxGrants, refresh : 0 .. MaxGrants]
NoToken == [access |-> 0, refresh |-> 0]
UserStates == {"idle", "valid", "force", "source", "renewed", "same"}

TokenTypeOK ==
    /\ oauthToken \in Tokens
    /\ expired \in 0 .. MaxGrants /\ granted \in 0 .. MaxGrants
    /\ accepted \in 0 .. MaxGrants /\ rotates \in BOOLEAN
    /\ user \in [Users -> UserStates] /\ tok \in [Users -> Tokens]
    /\ lost \in BOOLEAN

TokenInit ==
    /\ oauthToken = NoToken
    /\ expired = 0 /\ granted = 0 /\ accepted = 0
    /\ rotates \in BOOLEAN
    /\ user = [u \in Users |-> "idle"] /\ tok = [u \in Users |-> NoToken]
    /\ lost = FALSE

Valid(t) == t.access > expired

UserGoes(u, s) == user' = [user EXCEPT ![u] = s]

\* The token that the server grants for the refresh token r; a code (r = 0)
\* brings a new one, a refresh does only when the server rotates.
Grant(r) == [access |-> granted + 1, refresh |-> IF r = 0 \/ rotates THEN granted + 1 ELSE r]

Granting(r) ==
    /\ granted < MaxGrants
    /\ granted' = granted + 1
    /\ accepted' = Grant(r).refresh

\* connectInteractive: the code is exchanged and the token stored.
ExchangeCode ==
    /\ Granting(0)
    /\ oauthToken' = Grant(0)
    /\ lost' = FALSE
    /\ UNCHANGED <<expired, rotates, user, tok>>

\* The token is read under RLock.  Without one the call fails, which is no step.
ReadToken(u, force) ==
    /\ user[u] = "idle" /\ oauthToken # NoToken
    /\ UserGoes(u, IF force THEN "force" ELSE "valid")
    /\ tok' = [tok EXCEPT ![u] = oauthToken]
    /\ UNCHANGED <<oauthToken, expired, granted, accepted, rotates, lost>>

\* A call that is not forced returns a token that is still valid.  So does one
\* that has no refresh token, whatever its token is.
ReturnsCached(u) ==
    /\ \/ user[u] = "valid" /\ Valid(tok[u])
       \/ user[u] \in {"valid", "force"} /\ tok[u].refresh = 0
    /\ UserGoes(u, "idle")
    /\ UNCHANGED <<oauthToken, expired, granted, accepted, rotates, tok, lost>>

\* Slip: a token that is still valid is renewed as well.
AsksSourceAlways(u) ==
    /\ user[u] \in {"valid", "force"}
    /\ tok[u].refresh # 0
    /\ UserGoes(u, "source")
    /\ UNCHANGED <<oauthToken, expired, granted, accepted, rotates, tok, lost>>

\* One that expired, or a forced call, goes to the token source.
AsksSource(u) ==
    /\ \/ user[u] = "valid" /\ ~Valid(tok[u])
       \/ user[u] = "force"
    /\ tok[u].refresh # 0
    /\ UserGoes(u, "source")
    /\ UNCHANGED <<oauthToken, expired, granted, accepted, rotates, tok, lost>>

\* golang.org/x/oauth2 (external): its token source returns the token it was
\* made with while that is valid, forced or not.
SourceReuses(u) ==
    /\ user[u] = "source" /\ Valid(tok[u])
    /\ UserGoes(u, "same")
    /\ UNCHANGED <<oauthToken, expired, granted, accepted, rotates, tok, lost>>

\* Otherwise it sends the refresh token.
SourceRefreshes(u) ==
    /\ user[u] = "source" /\ ~Valid(tok[u]) /\ tok[u].refresh = accepted
    /\ Granting(tok[u].refresh)
    /\ tok' = [tok EXCEPT ![u] = Grant(tok[u].refresh)]
    /\ UserGoes(u, "renewed")
    /\ UNCHANGED <<oauthToken, expired, rotates, lost>>

\* The server grants a token, but its answer does not arrive.
RefreshLost(u) ==
    /\ user[u] = "source" /\ ~Valid(tok[u]) /\ tok[u].refresh = accepted
    /\ Granting(tok[u].refresh)
    /\ lost' = (lost \/ rotates)
    /\ UserGoes(u, "idle")
    /\ UNCHANGED <<oauthToken, expired, rotates, tok>>

\* The server refuses the refresh token, or was not reached.
RefreshFails(u) ==
    /\ user[u] = "source" /\ ~Valid(tok[u])
    /\ UserGoes(u, "idle")
    /\ UNCHANGED <<oauthToken, expired, granted, accepted, rotates, tok, lost>>

\* The token is stored under Lock, whatever was stored since ReadToken.
StoreToken(u) ==
    /\ user[u] \in {"renewed", "same"}
    /\ oauthToken' = tok[u]
    /\ UserGoes(u, "idle")
    /\ UNCHANGED <<expired, granted, accepted, rotates, tok, lost>>

\* Time passes: an access token expires after an hour.
TokenExpires ==
    /\ expired < granted
    /\ expired' = expired + 1
    /\ UNCHANGED <<oauthToken, granted, accepted, rotates, user, tok, lost>>

UserStep(u) ==
    \/ ReturnsCached(u) \/ AsksSource(u) \/ SourceReuses(u) \/ SourceRefreshes(u)
    \/ RefreshLost(u) \/ RefreshFails(u) \/ StoreToken(u)

-----------------------------------------------------------------------------
\* Properties

\* The token of the session can be renewed: when no renewed one is about to be
\* stored, it has the refresh token that the server accepts.  "The returned
\* function automatically refreshes the token when it has expired, using the
\* stored refresh token" (session.go:391).  Only an answer that got lost can
\* excuse it.
Renewable ==
    (/\ oauthToken.refresh # 0 /\ ~lost
     /\ \A u \in Users : user[u] # "renewed")
        => oauthToken.refresh = accepted

\* A renewed token that waits to be stored is not outdated by the renewal of
\* another caller: in whatever order two of them store, the last one is good.
RenewalsInOrder == \A u \in Users : user[u] = "renewed" => tok[u].refresh = accepted
=============================================================================
