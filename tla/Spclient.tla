----------------------------- MODULE Spclient -----------------------------
(***************************************************************************)
(* spclient/spclient.go: concurrent HTTP requests that share one Login5    *)
(* token.  innerRequestWithToken asks for a token before every attempt and *)
(* retries on 401 (with a forced token), 429, 502, 503 and transport       *)
(* errors; PutConnectState runs the whole of that again when it fails.     *)
(* The token functions are the actions of Login5.                          *)
(***************************************************************************)
EXTENDS Login5

CONSTANTS Puts,             \* the requests that go through PutConnectState
          maxAuthRetries,   \* 2 in the code
          maxTotalRetries,  \* 5 in the code
          maxPutRetries     \* 2 in the code: the outer back-off

ASSUME SpclientAssumption ==
    /\ Puts \subseteq Callers
    /\ maxAuthRetries \in Nat /\ maxTotalRetries \in Nat \ {0} /\ maxPutRetries \in Nat

VARIABLES
    req,       \* req[r]: "idle" | "running" | "pause" | "over" | "answered" | "failed"
    force,     \* force[r]: forceNewToken
    auth,      \* auth[r]: authRetries
    tries,     \* tries[r]: retries the inner back-off has granted
    puts,      \* puts[r]: retries the outer back-off has granted
    cancelled, \* cancelled[r]: is the context done?
    rejected   \* history: the last token of r's current attempt series that got 401

reqVars == <<req, force, auth, tries, puts, cancelled, rejected>>
vars == <<loginVars, reqVars>>

TypeOK ==
    /\ Login5TypeOK
    /\ req \in [Callers -> {"idle", "running", "pause", "over", "answered", "failed"}]
    /\ force \in [Callers -> BOOLEAN]
    /\ auth \in [Callers -> 0 .. maxAuthRetries + 1]
    /\ tries \in [Callers -> 0 .. maxTotalRetries]
    /\ puts \in [Callers -> 0 .. maxPutRetries]
    /\ cancelled \in [Callers -> BOOLEAN]
    /\ rejected \in [Callers -> Nat]

Init ==
    /\ Login5Init
    /\ req = [r \in Callers |-> "idle"]
    /\ force = [r \in Callers |-> FALSE]
    /\ auth = [r \in Callers |-> 0]
    /\ tries = [r \in Callers |-> 0]
    /\ puts = [r \in Callers |-> 0]
    /\ cancelled = [r \in Callers |-> FALSE]
    /\ rejected = [r \in Callers |-> 0]

Set(r, s) == req' = [req EXCEPT ![r] = s]

-----------------------------------------------------------------------------
\* One call of innerRequestWithToken

\* The locals of a fresh call: forceNewToken, authRetries and the back-off.
FreshLocals(r) ==
    /\ force' = [force EXCEPT ![r] = FALSE]
    /\ auth' = [auth EXCEPT ![r] = 0]
    /\ tries' = [tries EXCEPT ![r] = 0]
    /\ rejected' = [rejected EXCEPT ![r] = 0]

Begin(r) ==
    /\ req[r] = "idle"
    /\ Set(r, "running")
    /\ Ask(r, FALSE)
    /\ UNCHANGED <<force, auth, tries, puts, cancelled, rejected>>

\* A step of the token function.
GetToken(r) ==
    /\ req[r] = "running"
    /\ TokenStep(r)
    /\ UNCHANGED reqVars

\* No token: a permanent error.
NoToken(r) ==
    /\ req[r] = "running" /\ at[r] = "refused"
    /\ Set(r, "over")
    /\ Returned(r)
    /\ UNCHANGED <<force, auth, tries, puts, cancelled, rejected>>

Sent(r) == req[r] = "running" /\ at[r] = "given" /\ Returned(r)

\* The request is sent and answered with anything else: it is the caller's.
\* PutConnectState takes only 200 for success.
Answer(r) ==
    /\ Sent(r) /\ ~cancelled[r]
    /\ \/ Set(r, "answered")
       \/ r \in Puts /\ Set(r, "over")
    /\ FreshLocals(r)
    /\ UNCHANGED <<puts, cancelled>>

\* A transport error, 502 or 503, or 429 after the Retry-After wait.
Retriable(r) ==
    /\ Sent(r)
    /\ Set(r, "pause")
    /\ UNCHANGED <<force, auth, tries, puts, cancelled, rejected>>

\* Slip: the next attempt takes the cached token.
UnauthorizedNoForce(r) ==
    /\ Sent(r) /\ ~cancelled[r]
    /\ rejected' = [rejected EXCEPT ![r] = got[r]]
    /\ auth' = [auth EXCEPT ![r] = @ + 1]
    /\ Set(r, IF auth[r] >= maxAuthRetries THEN "over" ELSE "pause")
    /\ UNCHANGED <<force, tries, puts, cancelled>>

\* 401: from now on this call forces a new token before every attempt, until
\* maxAuthRetries is exceeded.
Unauthorized(r) ==
    /\ Sent(r) /\ ~cancelled[r]
    /\ rejected' = [rejected EXCEPT ![r] = got[r]]
    /\ auth' = [auth EXCEPT ![r] = @ + 1]
    /\ IF auth[r] >= maxAuthRetries
       THEN Set(r, "over") /\ UNCHANGED force
       ELSE Set(r, "pause") /\ force' = [force EXCEPT ![r] = TRUE]
    /\ UNCHANGED <<tries, puts, cancelled>>

\* Slip: the retry count is not kept.
RetryForever(r) ==
    /\ req[r] = "pause" /\ ~cancelled[r]
    /\ Set(r, "running")
    /\ Ask(r, force[r])
    /\ UNCHANGED <<force, auth, tries, puts, cancelled, rejected>>

\* Slip: one attempt too many.
RetryOffByOne(r) ==
    /\ req[r] = "pause" /\ ~cancelled[r]
    /\ tries[r] <= maxTotalRetries
    /\ tries' = [tries EXCEPT ![r] = @ + 1]
    /\ Set(r, "running")
    /\ Ask(r, force[r])
    /\ UNCHANGED <<force, auth, puts, cancelled, rejected>>

\* The back-off grants another attempt.
Retry(r) ==
    /\ req[r] = "pause" /\ ~cancelled[r]
    /\ tries[r] < maxTotalRetries
    /\ tries' = [tries EXCEPT ![r] = @ + 1]
    /\ Set(r, "running")
    /\ Ask(r, force[r])
    /\ UNCHANGED <<force, auth, puts, cancelled, rejected>>

\* It does not: no retry is left, 90 seconds have passed, or the context is
\* done, also during the Retry-After wait.
Exhausted(r) ==
    /\ req[r] = "pause"
    /\ Set(r, "over")
    /\ UNCHANGED <<loginVars, force, auth, tries, puts, cancelled, rejected>>

\* The inner call returned an error.  The outer back-off of PutConnectState
\* treats every one as transient, also those that were permanent inside.
PutRetry(r) ==
    /\ req[r] = "over" /\ r \in Puts /\ ~cancelled[r]
    /\ puts[r] < maxPutRetries
    /\ puts' = [puts EXCEPT ![r] = @ + 1]
    /\ FreshLocals(r)
    /\ Set(r, "running")
    /\ Ask(r, FALSE)
    /\ UNCHANGED cancelled

GiveUp(r) ==
    /\ req[r] = "over"
    /\ r \in Puts => cancelled[r] \/ puts[r] = maxPutRetries
    /\ Set(r, "failed")
    /\ FreshLocals(r)
    /\ UNCHANGED <<loginVars, puts, cancelled>>

Cancel(r) ==
    /\ req[r] \in {"running", "pause", "over"} /\ ~cancelled[r]
    /\ cancelled' = [cancelled EXCEPT ![r] = TRUE]
    /\ UNCHANGED <<loginVars, req, force, auth, tries, puts, rejected>>

TokenExpires == Expire /\ UNCHANGED reqVars

-----------------------------------------------------------------------------
RequestStep(r) ==
    \/ GetToken(r) \/ NoToken(r) \/ Answer(r) \/ Retriable(r) \/ Unauthorized(r)
    \/ Retry(r) \/ Exhausted(r) \/ PutRetry(r) \/ GiveUp(r)

Next == \/ \E r \in Callers : Begin(r) \/ RequestStep(r) \/ Cancel(r)
        \/ TokenExpires

Spec == Init /\ [][Next]_vars

\* Goroutines run, the HTTP clients time out after 30 seconds, timers fire,
\* and loginOkLock is granted in turn (a Go RWMutex starves nobody).
Fairness == \A r \in Callers : WF_vars(RequestStep(r)) /\ SF_vars(GetToken(r))

FairSpec == Spec /\ Fairness

-----------------------------------------------------------------------------
\* Properties

\* An attempt after a 401 never repeats the rejected token: whatever other
\* requests do to the shared cache, the token it carries was granted later
\* (innerRequestWithToken together with AccessToken).
RetryUsesNewerToken ==
    \A r \in Callers :
        req[r] = "running" /\ at[r] = "given" /\ rejected[r] # 0 => got[r] > rejected[r]

\* Every request that was begun ends: retries nest, and wait for each other's
\* token renewals, but they neither go on for ever nor deadlock.
RequestEnds ==
    \A r \in Callers : req[r] # "idle" ~> req[r] \in {"answered", "failed"}
=============================================================================
