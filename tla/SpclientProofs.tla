-------------------------- MODULE SpclientProofs --------------------------
(***************************************************************************)
(* Theorems about Login5 and Spclient, for any number of concurrent        *)
(* requests and any limits of their retries.                               *)
(***************************************************************************)
EXTENDS Spclient, TLAPS

\* A request is inside the token function exactly while an attempt runs.
AsksWhileRunning == \A r \in Callers : req[r] = "running" <=> at[r] # "idle"

\* The authentication errors are counted one past the limit only at the end.
AuthBounded == \A r \in Callers : req[r] \in {"idle", "running", "pause"} => auth[r] <= maxAuthRetries

\* Tokens only get newer; a caller that has renewed sees one that is newer than
\* the one it knew, which another caller may have renewed again.
TokensGrow ==
    \A c \in Callers :
        /\ known[c] <= token /\ got[c] <= token
        /\ at[c] = "renewed" => token > known[c]

\* A rejected token is remembered until the call is over: by forceNewToken, and
\* while an attempt runs by what its token function was told and knew.
RejectionKept ==
    \A r \in Callers :
        /\ rejected[r] <= token
        /\ req[r] = "idle" => rejected[r] = 0
        /\ req[r] \in {"running", "pause"} /\ rejected[r] # 0 => force[r]
        /\ req[r] = "running" /\ rejected[r] # 0 => forced[r] /\ known[r] >= rejected[r]

IInv ==
    /\ TypeOK /\ LockMeansLogin /\ AsksWhileRunning /\ AuthBounded
    /\ TokensGrow /\ ForcedIsFresh /\ RejectionKept

USE Login5Assumption, SpclientAssumption

-----------------------------------------------------------------------------
LEMMA InitInv == Init => IInv
<1> SUFFICES ASSUME Init PROVE IInv
  OBVIOUS
<1>1. TypeOK
  <2>1. Login5TypeOK
    BY DEF Init, Login5Init, Login5TypeOK, TokenStates
  <2>2. /\ 0 \in 0 .. maxAuthRetries + 1 /\ 0 \in 0 .. maxTotalRetries
        /\ 0 \in 0 .. maxPutRetries
    OBVIOUS
  <2> QED BY <2>1, <2>2 DEF Init, TypeOK
<1>2. LockMeansLogin /\ ForcedIsFresh
  BY DEF Init, Login5Init, LockMeansLogin, ForcedIsFresh
<1>3. AsksWhileRunning /\ AuthBounded
  BY DEF Init, Login5Init, AsksWhileRunning, AuthBounded
<1>4. TokensGrow /\ RejectionKept
  BY DEF Init, Login5Init, TokensGrow, RejectionKept
<1> QED BY <1>1, <1>2, <1>3, <1>4 DEF IInv

\* The token function leaves the requests alone.
LEMMA TokenStepInv ==
    ASSUME IInv, NEW c \in Callers, GetToken(c)
    PROVE  IInv'
<1> USE DEF IInv, TypeOK, Login5TypeOK, TokenStates, LockMeansLogin, AsksWhileRunning,
            AuthBounded, TokensGrow, ForcedIsFresh, RejectionKept, reqVars, Move
<1>1. UNCHANGED reqVars /\ req[c] = "running" /\ TokenStep(c)
  BY DEF GetToken
<1>2. CASE CacheHit(c)
  BY <1>1, <1>2 DEF CacheHit
<1>3. CASE CacheMiss(c)
  BY <1>1, <1>3 DEF CacheMiss
<1>4. CASE LoginLock(c)
  BY <1>1, <1>4 DEF LoginLock
<1>5. CASE LoginOk(c)
  <2>1. TypeOK'
    <3>1. token' \in Nat /\ writer' \in Callers \cup {NoCaller}
      BY <1>5 DEF LoginOk
    <3>4. expired' \in BOOLEAN
      BY <1>5 DEF LoginOk
    <3>2. at' \in [Callers -> TokenStates]
      BY <1>5 DEF LoginOk
    <3>3. UNCHANGED <<forced, known, got>>
      BY <1>5 DEF LoginOk
    <3> QED BY <3>1, <3>2, <3>3, <3>4, <1>1
  <2>5. writer = c
    BY <1>5 DEF LoginOk
  <2>6. LockMeansLogin'
    BY <2>5, <1>1, <1>5 DEF LoginOk
  <2>2. AsksWhileRunning' /\ AuthBounded'
    BY <1>1, <1>5 DEF LoginOk
  <2>3. TokensGrow'
    BY <1>1, <1>5 DEF LoginOk
  <2>4. ForcedIsFresh' /\ RejectionKept'
    BY <1>1, <1>5 DEF LoginOk
  <2> QED BY <2>1, <2>2, <2>3, <2>4, <2>6
<1>6. CASE LoginChallenged(c)
  BY <1>1, <1>6 DEF LoginChallenged
<1>7. CASE LoginFailed(c)
  BY <1>1, <1>7 DEF LoginFailed
<1>8. CASE ReadRenewed(c)
  BY <1>1, <1>8 DEF ReadRenewed
<1> QED BY <1>1, <1>2, <1>3, <1>4, <1>5, <1>6, <1>7, <1>8 DEF TokenStep

\* The steps of the retry loops.
LEMMA RequestStepInv ==
    ASSUME IInv, NEW c \in Callers,
           \/ Begin(c) \/ NoToken(c) \/ Answer(c) \/ Retriable(c) \/ Unauthorized(c)
           \/ Retry(c) \/ Exhausted(c) \/ PutRetry(c) \/ GiveUp(c) \/ Cancel(c)
    PROVE  IInv'
<1> USE DEF IInv, TypeOK, Login5TypeOK, TokenStates, LockMeansLogin, AsksWhileRunning,
            AuthBounded, TokensGrow, ForcedIsFresh, RejectionKept, loginVars, reqVars,
            Move, Set, Ask, Returned, FreshLocals, Sent
<1>1. CASE Begin(c)
  BY <1>1 DEF Begin
<1>2. CASE NoToken(c)
  BY <1>2 DEF NoToken
<1>3. CASE Answer(c)
  BY <1>3 DEF Answer
<1>4. CASE Retriable(c)
  BY <1>4 DEF Retriable
<1>5. CASE Unauthorized(c)
  <2>1. /\ req[c] = "running" /\ at[c] = "given"
        /\ auth[c] <= maxAuthRetries /\ got[c] <= token /\ got[c] \in Nat
    BY <1>5 DEF Unauthorized
  <2>2. req' = [req EXCEPT ![c] = IF auth[c] >= maxAuthRetries THEN "over" ELSE "pause"]
    BY <1>5 DEF Unauthorized
  <2>3. force' = IF auth[c] >= maxAuthRetries THEN force ELSE [force EXCEPT ![c] = TRUE]
    BY <1>5 DEF Unauthorized
  <2>4. TypeOK'
    <3>1. force' \in [Callers -> BOOLEAN] /\ req' \in [Callers -> {"idle", "running", "pause",
                                                   "over", "answered", "failed"}]
      BY <2>2, <2>3
    <3>2. auth' \in [Callers -> 0 .. maxAuthRetries + 1] /\ rejected' \in [Callers -> Nat]
      BY <2>1, <1>5 DEF Unauthorized
    <3>3. Login5TypeOK'
      BY <1>5 DEF Unauthorized
    <3> QED BY <3>1, <3>2, <3>3, <1>5 DEF Unauthorized
  <2>5. LockMeansLogin' /\ AsksWhileRunning'
    BY <2>1, <2>2, <1>5 DEF Unauthorized
  <2>6. AuthBounded'
    BY <2>1, <2>2, <1>5 DEF Unauthorized
  <2>7. TokensGrow' /\ ForcedIsFresh'
    BY <1>5 DEF Unauthorized
  <2>8. RejectionKept'
    BY <2>1, <2>2, <2>3, <1>5 DEF Unauthorized
  <2> QED BY <2>4, <2>5, <2>6, <2>7, <2>8
<1>6. CASE Retry(c)
  BY <1>6 DEF Retry
<1>7. CASE Exhausted(c)
  BY <1>7 DEF Exhausted
<1>8. CASE PutRetry(c)
  BY <1>8 DEF PutRetry
<1>9. CASE GiveUp(c)
  BY <1>9 DEF GiveUp
<1>10. CASE Cancel(c)
  BY <1>10 DEF Cancel
<1> QED BY <1>1, <1>2, <1>3, <1>4, <1>5, <1>6, <1>7, <1>8, <1>9, <1>10

LEMMA ExpireInv == IInv /\ TokenExpires => IInv'
BY DEF TokenExpires, Expire, IInv, TypeOK, Login5TypeOK, LockMeansLogin, AsksWhileRunning,
       AuthBounded, TokensGrow, ForcedIsFresh, RejectionKept, reqVars

LEMMA StepInv == IInv /\ [Next]_vars => IInv'
<1> SUFFICES ASSUME IInv, [Next]_vars PROVE IInv'
  OBVIOUS
<1>1. ASSUME NEW r \in Callers, Begin(r) \/ RequestStep(r) \/ Cancel(r) PROVE IInv'
  <2>1. CASE GetToken(r)
    BY <2>1, TokenStepInv
  <2>2. CASE ~GetToken(r)
    BY <2>2, <1>1, RequestStepInv DEF RequestStep
  <2> QED BY <2>1, <2>2
<1>2. CASE TokenExpires
  BY <1>2, ExpireInv
<1>3. CASE UNCHANGED vars
  BY <1>3 DEF vars, loginVars, reqVars, IInv, TypeOK, Login5TypeOK, LockMeansLogin,
              AsksWhileRunning, AuthBounded, TokensGrow, ForcedIsFresh, RejectionKept
<1> QED BY <1>1, <1>2, <1>3 DEF Next

-----------------------------------------------------------------------------
\* Theorems

\* The inductive invariant of the requests and of the token they share.
THEOREM RequestsInvariant == Spec => []IInv
BY InitInv, StepInv, PTL DEF Spec

\* The variables keep their types; in particular the retries of every back-off
\* stay within its limit (innerRequestWithToken, PutConnectState).
THEOREM TypeCorrect == Spec => []TypeOK
<1>1. IInv => TypeOK
  BY DEF IInv
<1> QED BY <1>1, RequestsInvariant, PTL

\* loginOkLock is held exactly by the caller that is inside Login, so that a
\* failed renewal never leaves it locked (Login).
THEOREM LockMeansLoginHolds == Spec => []LockMeansLogin
<1>1. IInv => LockMeansLogin
  BY DEF IInv
<1> QED BY <1>1, RequestsInvariant, PTL

\* A forced call of the token function returns a token granted after the call
\* began, whatever other callers do to the cache (AccessToken).
THEOREM ForcedIsFreshHolds == Spec => []ForcedIsFresh
<1>1. IInv => ForcedIsFresh
  BY DEF IInv
<1> QED BY <1>1, RequestsInvariant, PTL

\* An attempt after a 401 carries a token newer than the rejected one
\* (innerRequestWithToken with AccessToken).
THEOREM RetryUsesNewerTokenHolds == Spec => []RetryUsesNewerToken
<1>1. IInv => RetryUsesNewerToken
  BY DEF IInv, TypeOK, Login5TypeOK, ForcedIsFresh, RejectionKept, RetryUsesNewerToken
<1> QED BY <1>1, RequestsInvariant, PTL
=============================================================================
