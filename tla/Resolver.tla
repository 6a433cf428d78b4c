----------------------------- MODULE Resolver -----------------------------
(***************************************************************************)
(* apresolve/resolve.go: the cache of endpoint lists, filled by a request  *)
(* that is made without its lock, and the address functions that the       *)
(* access point, spclient and dealer draw from it.  One goroutine at a     *)
(* time calls the function of a type (under connMu, or before there is     *)
(* another); the cache may be shared with other sessions.                  *)
(*                                                                         *)
(* A list is known by its length; a cached length of 0 is a missing entry. *)
(* The addresses of a list are its positions, so that two lists share as   *)
(* many as they can: the case in which an address is soonest repeated.     *)
(***************************************************************************)
EXTENDS Integers

CONSTANTS Types,   \* endpointType
          MaxLen   \* addresses in a list that the service sends

ASSUME ResolverAssumption == MaxLen \in Nat \ {0}

VARIABLES
    sends,   \* sends[t]: the lengths of the lists that the service sends (external)
    cache,   \* cache[t]: the length of r.endpoints[t]
    fresh,   \* types whose r.endpointsExp is in the future
    made,    \* types for which getFunc returned a function
    addrs,   \* addrs[t]: the length of the list that function holds
    idx,     \* idx[t]: its idx
    lookup,  \* lookup[t]: where the get of t is; see LookupStates
    given    \* history: the addresses that t's function gave; see Give

resolverVars == <<sends, cache, fresh, made, addrs, idx, lookup, given>>

LookupStates == {"idle", "fetch", "read", "failed"}

\* last: the address given last; turn: those given since every address of the
\* list was; again: had the turn given the last one before; same: was the last
\* one given twice in a row by the same list, although that had another?
Givens == [last : 0 .. MaxLen, turn : SUBSET (1 .. MaxLen), again : BOOLEAN, same : BOOLEAN]
NoneGiven == [last |-> 0, turn |-> {}, again |-> FALSE, same |-> FALSE]

ResolverTypeOK ==
    /\ sends \in [Types -> SUBSET (0 .. MaxLen)]
    /\ cache \in [Types -> 0 .. MaxLen]
    /\ fresh \subseteq Types /\ made \subseteq Types
    /\ addrs \in [Types -> 0 .. MaxLen] /\ idx \in [Types -> 0 .. MaxLen]
    /\ lookup \in [Types -> LookupStates]
    /\ given \in [Types -> Givens]

\* NewApResolver
ResolverInit ==
    /\ sends \in [Types -> SUBSET (0 .. MaxLen)]
    /\ cache = [t \in Types |-> 0] /\ fresh = {}
    /\ made = {} /\ addrs = [t \in Types |-> 0] /\ idx = [t \in Types |-> 0]
    /\ lookup = [t \in Types |-> "idle"]
    /\ given = [t \in Types |-> NoneGiven]

Moves(t, s) == lookup' = [lookup EXCEPT ![t] = s]

\* History of an address that t's function gives in turn, by the list it holds.
Give(t, a) ==
    LET g    == given[t]
        all  == 1 .. addrs[t]
        over == all \subseteq g.turn
    IN given' = [given EXCEPT ![t] =
         [last  |-> a,
          turn  |-> IF over THEN {a} ELSE g.turn \cup {a},
          again |-> ~over /\ a \in g.turn,
          same  |-> FALSE]]

-----------------------------------------------------------------------------
\* get

\* fetchUrls looks at the expiry under RLock and lets go of it.
Lookup(t) ==
    /\ lookup[t] = "idle"
    /\ Moves(t, IF t \in fresh THEN "read" ELSE "fetch")
    /\ UNCHANGED <<sends, cache, fresh, made, addrs, idx, given>>

\* No answer, another status than 200, or no JSON.
FetchFails(t) ==
    /\ lookup[t] = "fetch"
    /\ Moves(t, "failed")
    /\ UNCHANGED <<sends, cache, fresh, made, addrs, idx, given>>

\* The answer is stored; an empty list leaves the entry, and its expiry, alone.
FetchStores(t) ==
    /\ lookup[t] = "fetch"
    /\ Moves(t, "read")
    /\ \E n \in sends[t] :
          IF n = 0 THEN UNCHANGED <<cache, fresh>>
          ELSE cache' = [cache EXCEPT ![t] = n] /\ fresh' = fresh \cup {t}
    /\ UNCHANGED <<sends, made, addrs, idx, given>>

\* Slip: the new list starts at its first address, which was just given.
TakesFromZero(t) ==
    /\ addrs' = [addrs EXCEPT ![t] = cache[t]]
    /\ idx' = [idx EXCEPT ![t] = 0]
    /\ IF t \in made THEN Give(t, 1) ELSE UNCHANGED given
    /\ made' = made \cup {t}
    /\ Moves(t, "idle")

\* getFunc's first list and the refill of an exhausted one, which gives the
\* first address at once.
Takes(t) ==
    /\ addrs' = [addrs EXCEPT ![t] = cache[t]]
    /\ idx' = [idx EXCEPT ![t] = IF t \in made THEN 1 ELSE 0]
    /\ IF t \in made THEN Give(t, 1) ELSE UNCHANGED given
    /\ made' = made \cup {t}
    /\ Moves(t, "idle")

\* The cache is read under RLock again; it may hold what another stored.
Get(t) ==
    /\ lookup[t] = "read"
    /\ IF cache[t] = 0
       THEN Moves(t, "failed") /\ UNCHANGED <<made, addrs, idx, given>>
       ELSE Takes(t)
    /\ UNCHANGED <<sends, cache, fresh>>

-----------------------------------------------------------------------------
\* The function that getFunc returns

\* Slip: the end of the list is seen one address too late.
NextAddressPastEnd(t) ==
    /\ t \in made /\ lookup[t] = "idle" /\ idx[t] <= addrs[t]
    /\ idx' = [idx EXCEPT ![t] = @ + 1]
    /\ Give(t, idx[t] + 1)
    /\ UNCHANGED <<sends, cache, fresh, made, addrs, lookup>>

\* It gives the next address of its list.
NextAddress(t) ==
    /\ t \in made /\ lookup[t] = "idle" /\ idx[t] < addrs[t]
    /\ idx' = [idx EXCEPT ![t] = @ + 1]
    /\ Give(t, idx[t] + 1)
    /\ UNCHANGED <<sends, cache, fresh, made, addrs, lookup>>

\* The list is used up: get again.
Refill(t) ==
    /\ t \in made /\ idx[t] = addrs[t]
    /\ Lookup(t)

\* "Fall back to first known address"; idx stays at the end of the list.  It is
\* out of turn: the history only remembers which address it was.
FirstAgain(t) ==
    /\ t \in made /\ lookup[t] = "failed"
    /\ Moves(t, "idle")
    /\ given' = [given EXCEPT ![t].last = 1, ![t].same = (given[t].last = 1 /\ addrs[t] > 1)]
    /\ UNCHANGED <<sends, cache, fresh, made, addrs, idx>>

-----------------------------------------------------------------------------
\* Time and other sessions

\* The hour of the entries is over.
TtlEnds ==
    /\ fresh # {} /\ fresh' = {}
    /\ UNCHANGED <<sends, cache, made, addrs, idx, lookup, given>>

\* FetchAll, or a get of another session that shares the resolver.  It looked
\* at the expiry before its request, so that it may store a second answer.
OtherStores(t) ==
    /\ \E n \in sends[t] \ {0} : cache' = [cache EXCEPT ![t] = n]
    /\ fresh' = fresh \cup {t}
    /\ UNCHANGED <<sends, made, addrs, idx, lookup, given>>

LookupStep(t) == FetchFails(t) \/ FetchStores(t) \/ Get(t)
AddressStep(t) == NextAddress(t) \/ Refill(t) \/ FirstAgain(t)

-----------------------------------------------------------------------------
\* Properties

\* As long as lookups succeed, no address is given again before every other
\* of the list has been, and a lookup that may replace the list, or fail and
\* repeat its first address, starts only then (getFunc): through refills,
\* expiries and lists that others store meanwhile, a dead access point is not
\* tried again before the others.
AddressesInTurn ==
    \A t \in Types :
        /\ ~given[t].again
        /\ t \in made /\ lookup[t] # "idle" => 1 .. addrs[t] \subseteq given[t].turn

\* "A function that returns a different address ... each time it is called,
\* rotating through available addresses" (types.go:8).
DifferentAddress == \A t \in Types : ~given[t].same
=============================================================================
