--------------------------- MODULE OboTokenService ---------------------------
(***************************************************************************)
(* src/src/services/oboTokenService.ts: the exchange of a caller's Entra   *)
(* token for a downstream token (On-Behalf-Of).  The cache and the table   *)
(* of exchanges in flight are keyed by the caller's object id; a call      *)
(* without one is neither cached nor coalesced.  MSAL, which performs the  *)
(* exchange, is external: it issues a token to the user whose assertion it *)
(* was given, computes expiresOn from the moment it sent the request (or   *)
(* omits it), and may fail at any time.                                    *)
(*                                                                         *)
(* One unit of time is 10 seconds.                                         *)
(***************************************************************************)
EXTENDS Integers, FiniteSets

CONSTANTS
  Callers,     \* getDownstreamTokenForCaller calls that can be pending at once
  Users,       \* Entra users; the oid of a user's token is the user
  Lifetimes,   \* lifetimes Entra gives a downstream token
  MaxLatency,  \* bound: how long an exchange may take
  None,        \* no oid, no cached token, no exchange, no expiresOn
  Failed,      \* a rejected promise
  MaxTime      \* bound of the model: the clock stops here

Margin == 3    \* 30 s: a token leaves the cache this much before expiresOn
Floor == 3     \* 30 s a token is cached for at least
NoExpiry == 6  \* 60 s: the lifetime assumed when MSAL omits expiresOn

ASSUME LatencyAssumption == MaxLatency \in Nat
ASSUME LifetimesAssumption == Lifetimes \subseteq Nat
ASSUME MaxTimeAssumption == MaxTime \in Nat
ASSUME NoneAssumption == None \notin Callers /\ None \notin Users /\ None \notin Nat

VARIABLES
  now,         \* Date.now()
  cacheByOid,  \* tokenCacheByOid: per user None, or its token and expiresAt
  inFlight,    \* inFlightByOid: per user the call that started the exchange, or None
  exch,        \* per call: the exchange it started
  pc,          \* per call: "idle", "waiting" for a promise, "done"
  user,        \* per call: whose assertion it carries, None when idle
  joined,      \* per call: whose exchange it waits for
  answer       \* per call: the token or Failed

vars == <<now, cacheByOid, inFlight, exch, pc, user, joined, answer>>

Token == [owner : Users, validUntil : Nat]
CachedToken == [token : Token, expiresAt : Nat]

Keys == Users \cup {None}

\* An exchange is under way ("sent", then "issued" when Entra has issued a
\* token), or its promise is settled and the callback of finally() has yet to
\* run.  key is the cache key: the oid, or None for NO_CACHE_KEY.
NewExch(stage, k, t) ==
  [stage |-> stage, key |-> k, sentAt |-> t, expiresOn |-> None, token |-> None]
NoExch == NewExch("idle", None, 0)
Exch ==
  [stage : {"idle", "sent", "issued", "resolved", "rejected"}, key : Keys, sentAt : Nat,
   expiresOn : Nat \cup {None}, token : Token \cup {None}]

OnTheWire(c) == exch[c].stage \in {"sent", "issued"}
PromiseSettled(c) == exch[c].stage \in {"resolved", "rejected"}

isCacheHit(u) == cacheByOid[u] # None /\ now < cacheByOid[u].expiresAt

TypeOK ==
  /\ now \in Nat
  /\ cacheByOid \in [Users -> CachedToken \cup {None}]
  /\ inFlight \in [Users -> Callers \cup {None}]
  /\ exch \in [Callers -> Exch]
  /\ pc \in [Callers -> {"idle", "waiting", "done"}]
  /\ user \in [Callers -> Users \cup {None}]
  /\ joined \in [Callers -> Callers \cup {None}]
  /\ answer \in [Callers -> Token \cup {Failed}]

Init ==
  /\ now = 0
  /\ cacheByOid = [u \in Users |-> None]
  /\ inFlight = [u \in Users |-> None]
  /\ exch = [c \in Callers |-> NoExch]
  /\ pc = [c \in Callers |-> "idle"]
  /\ user = [c \in Callers |-> None]
  /\ joined = [c \in Callers |-> None]
  /\ answer = [c \in Callers |-> Failed]

-----------------------------------------------------------------------------
\* A call that brings no assertion is refused.
Refuse(c, u) ==
  /\ pc[c] = "idle"
  /\ pc' = [pc EXCEPT ![c] = "done"]
  /\ user' = [user EXCEPT ![c] = u]
  /\ answer' = [answer EXCEPT ![c] = Failed]
  /\ UNCHANGED <<now, cacheByOid, inFlight, exch, joined>>

\* A call with an oid is answered from that user's cache entry.
UseCached(c, u) ==
  /\ pc[c] = "idle"
  /\ isCacheHit(u)
  /\ pc' = [pc EXCEPT ![c] = "done"]
  /\ user' = [user EXCEPT ![c] = u]
  /\ answer' = [answer EXCEPT ![c] = cacheByOid[u].token]
  /\ UNCHANGED <<now, cacheByOid, inFlight, exch, joined>>

\* A call with an oid joins that user's exchange in flight.
Join(c, u) ==
  /\ pc[c] = "idle"
  /\ ~isCacheHit(u)
  /\ inFlight[u] # None
  /\ pc' = [pc EXCEPT ![c] = "waiting"]
  /\ user' = [user EXCEPT ![c] = u]
  /\ joined' = [joined EXCEPT ![c] = inFlight[u]]
  /\ UNCHANGED <<now, cacheByOid, inFlight, exch, answer>>

\* exchangeAndCache starts with u's assertion under cache key k.
Exchange(c, u, k) ==
  /\ exch' = [exch EXCEPT ![c] = NewExch("sent", k, now)]
  /\ pc' = [pc EXCEPT ![c] = "waiting"]
  /\ user' = [user EXCEPT ![c] = u]
  /\ joined' = [joined EXCEPT ![c] = c]
  /\ UNCHANGED <<now, cacheByOid, answer>>

\* A call with an oid starts an exchange and publishes its promise.
StartKeyed(c, u) ==
  /\ pc[c] = "idle"
  /\ ~isCacheHit(u)
  /\ inFlight[u] = None
  /\ Exchange(c, u, u)
  /\ inFlight' = [inFlight EXCEPT ![u] = c]

\* Mutant: a call without an oid is cached under another user's key.
StartUnkeyed_Shared(c, u) ==
  /\ pc[c] = "idle"
  /\ \E v \in Users : Exchange(c, u, v)
  /\ UNCHANGED inFlight

\* A call without an oid always starts an exchange of its own.
StartUnkeyed(c, u) ==
  /\ pc[c] = "idle"
  /\ Exchange(c, u, None)
  /\ UNCHANGED inFlight

\* Entra issues a token; MSAL will report when it expires, or will not.
EntraIssues(c) ==
  /\ exch[c].stage = "sent"
  /\ \E life \in Lifetimes :
       \E exp \in {exch[c].sentAt + life, None} :
         exch' = [exch EXCEPT ![c] = [@ EXCEPT !.stage = "issued", !.expiresOn = exp,
                   !.token = [owner |-> user[c], validUntil |-> now + life]]]
  /\ UNCHANGED <<now, cacheByOid, inFlight, pc, user, joined, answer>>

\* Mutant: the token is kept until expiresOn.
CacheUntil_NoMargin(exp) ==
  LET expiresOn == IF exp = None THEN now + NoExpiry ELSE exp
  IN IF expiresOn > now + Floor THEN expiresOn ELSE now + Floor

\* Until when a token with this expiresOn is cached.
CacheUntil(exp) ==
  LET expiresOn == IF exp = None THEN now + NoExpiry ELSE exp
  IN IF expiresOn - Margin > now + Floor THEN expiresOn - Margin ELSE now + Floor

\* exchangeAndCache stores the token, unless the call had no oid, and resolves.
ReplyArrives(c) ==
  /\ exch[c].stage = "issued"
  /\ LET e == exch[c] IN
       /\ cacheByOid' = [u \in Users |->
            IF u = e.key THEN [token |-> e.token, expiresAt |-> CacheUntil(e.expiresOn)]
                         ELSE cacheByOid[u]]
       /\ exch' = [exch EXCEPT ![c] = [@ EXCEPT !.stage = "resolved"]]
  /\ UNCHANGED <<now, inFlight, pc, user, joined, answer>>

\* Mutant: the failure of an exchange is swallowed and its promise never settles.
ExchangeFails_Swallowed(c) ==
  /\ OnTheWire(c)
  /\ exch' = [exch EXCEPT ![c] = NoExch]
  /\ UNCHANGED <<now, cacheByOid, inFlight, pc, user, joined, answer>>

\* No MSAL client, a refused or failed exchange, or no token in the result.
ExchangeFails(c) ==
  /\ OnTheWire(c)
  /\ exch' = [exch EXCEPT ![c] = [@ EXCEPT !.stage = "rejected"]]
  /\ UNCHANGED <<now, cacheByOid, inFlight, pc, user, joined, answer>>

Waiters(c) == {d \in Callers : pc[d] = "waiting" /\ joined[d] = c}

\* Every call that holds the promise of c's exchange gets its outcome.
SettleWaiters(c) ==
  LET outcome == IF exch[c].stage = "resolved" THEN exch[c].token ELSE Failed
  IN /\ pc' = [d \in Callers |-> IF d \in Waiters(c) THEN "done" ELSE pc[d]]
     /\ joined' = [d \in Callers |-> IF d \in Waiters(c) THEN None ELSE joined[d]]
     /\ answer' = [d \in Callers |-> IF d \in Waiters(c) THEN outcome ELSE answer[d]]

\* Mutant: the whole table is cleared instead of the one key.
Finally_ClearsAll(c) ==
  /\ PromiseSettled(c) /\ SettleWaiters(c)
  /\ inFlight' = [u \in Users |-> None]
  /\ exch' = [exch EXCEPT ![c] = NoExch]
  /\ UNCHANGED <<now, cacheByOid, user>>

\* finally(): the key is deleted, whoever's exchange it names, and the promise
\* settles.
Finally(c) ==
  /\ PromiseSettled(c)
  /\ SettleWaiters(c)
  /\ inFlight' = [u \in Users |-> IF u = exch[c].key THEN None ELSE inFlight[u]]
  /\ exch' = [exch EXCEPT ![c] = NoExch]
  /\ UNCHANGED <<now, cacheByOid, user>>

\* The caller goes on with its token or its error.
Resume(c) ==
  /\ pc[c] = "done"
  /\ pc' = [pc EXCEPT ![c] = "idle"]
  /\ user' = [user EXCEPT ![c] = None]
  /\ answer' = [answer EXCEPT ![c] = Failed]
  /\ UNCHANGED <<now, cacheByOid, inFlight, exch, joined>>

\* Time passes: only when no callback is ready to run, and never beyond the
\* bound on the latency of an exchange.
Tick ==
  /\ now < MaxTime
  /\ \A c \in Callers : pc[c] # "done" /\ ~PromiseSettled(c)
  /\ \A c \in Callers : OnTheWire(c) => now < exch[c].sentAt + MaxLatency
  /\ now' = now + 1
  /\ UNCHANGED <<cacheByOid, inFlight, exch, pc, user, joined, answer>>

getDownstreamTokenForCaller(c, u) ==
  Refuse(c, u) \/ UseCached(c, u) \/ Join(c, u) \/ StartKeyed(c, u) \/ StartUnkeyed(c, u)

Next ==
  \/ \E c \in Callers, u \in Users : getDownstreamTokenForCaller(c, u)
  \/ \E c \in Callers :
       \/ EntraIssues(c) \/ ReplyArrives(c) \/ ExchangeFails(c)
       \/ Finally(c) \/ Resume(c)
  \/ Tick

\* The code sets no timeout on an exchange: that it settles is assumed of MSAL.
Fairness ==
  \A c \in Callers :
    /\ WF_vars(ReplyArrives(c) \/ ExchangeFails(c))
    /\ WF_vars(Finally(c))
    /\ WF_vars(Resume(c))

Spec == Init /\ [][Next]_vars
FairSpec == Spec /\ Fairness

-----------------------------------------------------------------------------
\* The entry a call deletes when its exchange ends is its own: an exchange under
\* way with a key is the one published for the key, and nothing else is published.
\* So a user has at most one, however many tool calls arrive at once, and a failed
\* one does not stay published: the next call tries anew.
FlightsArePublished ==
  \A c \in Callers, u \in Users :
    (exch[c].stage # "idle" /\ exch[c].key = u) <=> inFlight[u] = c

\* Tokens are never attributed to another user: not through the cache, not by
\* joining an exchange, and not for calls that carry no oid.
TokensAreTheCallersOwn ==
  /\ \A u \in Users : cacheByOid[u] # None => cacheByOid[u].token.owner = u
  /\ \A c \in Callers : pc[c] = "done" /\ answer[c] # Failed => answer[c].owner = user[c]

\* Every call is answered, a failed exchange included.
EveryCallIsAnswered == \A c \in Callers : pc[c] = "waiting" ~> pc[c] = "done"

\* The promises of a token source (module TokenService), per user; a token is
\* good for the 30 s by which it is refreshed early.
Service == INSTANCE TokenService WITH
  Principals <- Users, UsableFor <- Margin, Nobody <- None, principal <- user

ImplementsService == Service!Spec
=============================================================================
