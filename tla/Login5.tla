------------------------------ MODULE Login5 ------------------------------
(***************************************************************************)
(* login5/login5.go: the cached bearer token and the goroutines that ask   *)
(* for it through the function that AccessToken returns.  A step is what a *)
(* caller does between two points where loginOkLock may change hands; a    *)
(* read section (RLock) is one step guarded by "nobody is in Login".       *)
(*                                                                         *)
(* Tokens are numbered in the order in which the server (external) grants  *)
(* them.  The session has logged in before it hands out the function, so   *)
(* loginOk is never nil.                                                   *)
(***************************************************************************)
EXTENDS Integers

CONSTANTS Callers,  \* the goroutines that call the token function
          NoCaller  \* nobody holds loginOkLock for writing

ASSUME Login5Assumption == NoCaller \notin Callers

VARIABLES
    token,    \* c.loginOk.AccessToken
    expired,  \* is c.loginOkExp in the past?
    writer,   \* who is inside Login and holds loginOkLock
    at,       \* at[c]: where caller c is; see TokenStates
    forced,   \* forced[c]: the force argument of its call
    known,    \* known[c]: the token that was cached when it called
    got       \* got[c]: the token it was given

loginVars == <<token, expired, writer, at, forced, known, got>>

TokenStates == {"idle", "asked", "renew", "login", "solve", "renewed", "given", "refused"}

Login5TypeOK ==
    /\ token \in Nat
    /\ expired \in BOOLEAN
    /\ writer \in Callers \cup {NoCaller}
    /\ at \in [Callers -> TokenStates]
    /\ forced \in [Callers -> BOOLEAN]
    /\ known \in [Callers -> Nat]
    /\ got \in [Callers -> Nat]

Login5Init ==
    /\ token = 1
    /\ expired = FALSE
    /\ writer = NoCaller
    /\ at = [c \in Callers |-> "idle"]
    /\ forced = [c \in Callers |-> FALSE]
    /\ known = [c \in Callers |-> 0]
    /\ got = [c \in Callers |-> 0]

Move(c, s) == at' = [at EXCEPT ![c] = s]

-----------------------------------------------------------------------------
\* AccessToken: the call, and the two ways out of its first read section.

Ask(c, force) ==
    /\ Move(c, "asked")
    /\ forced' = [forced EXCEPT ![c] = force]
    /\ known' = [known EXCEPT ![c] = token]
    /\ UNCHANGED <<token, expired, writer, got>>

\* The caller takes the result and the call is over.
Returned(c) ==
    /\ Move(c, "idle")
    /\ forced' = [forced EXCEPT ![c] = FALSE]
    /\ known' = [known EXCEPT ![c] = 0]
    /\ got' = [got EXCEPT ![c] = 0]
    /\ UNCHANGED <<token, expired, writer>>

\* Slip: force is not looked at.
CacheHitAlways(c) ==
    /\ at[c] = "asked" /\ writer = NoCaller
    /\ ~expired
    /\ Move(c, "given")
    /\ got' = [got EXCEPT ![c] = token]
    /\ UNCHANGED <<token, expired, writer, forced, known>>

CacheHit(c) ==
    /\ at[c] = "asked" /\ writer = NoCaller
    /\ ~forced[c] /\ ~expired
    /\ Move(c, "given")
    /\ got' = [got EXCEPT ![c] = token]
    /\ UNCHANGED <<token, expired, writer, forced, known>>

\* The lock is released before Login takes it: callers that saw the same
\* stale token all renew it, one after the other.
CacheMiss(c) ==
    /\ at[c] = "asked" /\ writer = NoCaller
    /\ forced[c] \/ expired
    /\ Move(c, "renew")
    /\ UNCHANGED <<token, expired, writer, forced, known, got>>

-----------------------------------------------------------------------------
\* Login, which holds loginOkLock across its one or two requests.

LoginLock(c) ==
    /\ at[c] = "renew" /\ writer = NoCaller
    /\ writer' = c
    /\ Move(c, "login")
    /\ UNCHANGED <<token, expired, forced, known, got>>

\* The server grants a token, to the first request or to the one that carries
\* the solutions of its challenges.
LoginOk(c) ==
    /\ at[c] \in {"login", "solve"}
    /\ token' = token + 1
    /\ expired' = FALSE
    /\ writer' = NoCaller
    /\ Move(c, "renewed")
    /\ UNCHANGED <<forced, known, got>>

\* Challenges, all of them hashcash, are solved and sent with a second request.
LoginChallenged(c) ==
    /\ at[c] = "login"
    /\ Move(c, "solve")
    /\ UNCHANGED <<token, expired, writer, forced, known, got>>

\* A transport error, an error code, a challenge of another kind, or
\* challenges again in answer to the solutions.
LoginFailed(c) ==
    /\ at[c] \in {"login", "solve"}
    /\ writer' = NoCaller
    /\ Move(c, "refused")
    /\ UNCHANGED <<token, expired, forced, known, got>>

\* The last read section of AccessToken: the token that is cached now, which
\* another caller may have renewed since.
ReadRenewed(c) ==
    /\ at[c] = "renewed" /\ writer = NoCaller
    /\ Move(c, "given")
    /\ got' = [got EXCEPT ![c] = token]
    /\ UNCHANGED <<token, expired, writer, forced, known>>

\* Time passes loginOkExp.
Expire ==
    /\ ~expired
    /\ expired' = TRUE
    /\ UNCHANGED <<token, writer, at, forced, known, got>>

TokenStep(c) ==
    \/ CacheHit(c) \/ CacheMiss(c) \/ LoginLock(c) \/ LoginOk(c)
    \/ LoginChallenged(c) \/ LoginFailed(c) \/ ReadRenewed(c)

-----------------------------------------------------------------------------
\* Properties

\* "When force is true, a fresh token is always obtained" (login5.go
\* AccessToken): the token a forced call returns was granted after the call
\* began, however many other callers renew, fail or time out meanwhile.
ForcedIsFresh ==
    \A c \in Callers : at[c] = "given" /\ forced[c] => got[c] > known[c]

\* loginOkLock is held exactly while one caller is in Login, so a failed
\* renewal never leaves it locked and two renewals never overlap.
LockMeansLogin ==
    \A c \in Callers : writer = c <=> at[c] \in {"login", "solve"}
=============================================================================
