---------------------------- MODULE TokenManager ----------------------------
(***************************************************************************)
(* src/src/services/tokenManager.ts: the process-wide source of the        *)
(* integration user's OAuth token.  A call of getAccessToken is answered   *)
(* from the cache, joins the acquisition in flight, or starts one; an      *)
(* acquisition tries the configured authentication styles in order, stores *)
(* the token it obtains, and its promise settles every call that waits for *)
(* it.  Node runs one callback at a time: each action is what happens      *)
(* between two awaits.                                                     *)
(*                                                                         *)
(* One unit of time is 10 seconds, the timeout of a token request.         *)
(***************************************************************************)
EXTENDS Integers, FiniteSets

CONSTANTS
  Callers,      \* getAccessToken calls that can be pending at once
  NumStyles,    \* authentication styles to try: 2 when "auto", else 1
  Lifetimes,    \* the expires_in the server may answer with
  Integration,  \* the principal of every token: the integration user
  None,         \* no acquisition, no cached token
  Failed,       \* a rejected promise
  MaxTime       \* bound of the model: the clock stops here

HttpTimeout == 1    \* 10 s, for one token request
Margin == 3         \* 30 s taken off the lifetime of a token
Floor == 3          \* 30 s a token is cached for at least
CallTimeout == 2    \* 20 s, the timeout of a ServiceNow REST call

ASSUME NumStylesAssumption == NumStyles \in {1, 2}
ASSUME LifetimesAssumption == Lifetimes \subseteq Nat
ASSUME NoneAssumption == None \notin Callers
ASSUME MaxTimeAssumption == MaxTime \in Nat

VARIABLES
  now,        \* Date.now()
  cached,     \* this.cachedToken: None, or its token and expiresAt
  inFlight,   \* this.inFlight: the call that started the promise, or None
  acq,        \* per call: the acquisition it started
  pc,         \* per call: "idle", "waiting" for a promise, "done"
  joined,     \* per call: whose acquisition it waits for
  answer      \* per call: the token or Failed

vars == <<now, cached, inFlight, acq, pc, joined, answer>>

Token == [owner : {Integration}, validUntil : Nat]
CachedToken == [token : Token, expiresAt : Nat]

\* An acquisition is "idle"; or its request is "sent" and the server has not
\* acted on it, or has "issued" a token and replies; or its promise is
\* "resolved" or "rejected" and the callback of finally() has yet to run.
NoToken == [owner |-> Integration, validUntil |-> 0]
NewAcq(stage, t) == [stage |-> stage, style |-> 1, begunAt |-> t, sentAt |-> t,
                     lifetime |-> 0, token |-> NoToken]
NoAcq == NewAcq("idle", 0)
Acq == [stage : {"idle", "sent", "issued", "resolved", "rejected"},
        style : 1..NumStyles, begunAt : Nat, sentAt : Nat,
        lifetime : Nat, token : Token]

OnTheWire(c) == acq[c].stage \in {"sent", "issued"}
PromiseSettled(c) == acq[c].stage \in {"resolved", "rejected"}

\* Mutant: the cache already gives up a token one unit before its expiry.
CacheHit_Early == cached # None /\ now + 1 < cached.expiresAt

CacheHit == cached # None /\ now < cached.expiresAt

TypeOK ==
  /\ now \in Nat
  /\ cached \in CachedToken \cup {None}
  /\ inFlight \in Callers \cup {None}
  /\ acq \in [Callers -> Acq]
  /\ pc \in [Callers -> {"idle", "waiting", "done"}]
  /\ joined \in [Callers -> Callers \cup {None}]
  /\ answer \in [Callers -> Token \cup {Failed}]

Init ==
  /\ now = 0
  /\ cached = None
  /\ inFlight = None
  /\ acq = [c \in Callers |-> NoAcq]
  /\ pc = [c \in Callers |-> "idle"]
  /\ joined = [c \in Callers |-> None]
  /\ answer = [c \in Callers |-> Failed]

-----------------------------------------------------------------------------
\* getAccessToken, answered from the cache.
UseCached(c) ==
  /\ pc[c] = "idle"
  /\ CacheHit
  /\ pc' = [pc EXCEPT ![c] = "done"]
  /\ answer' = [answer EXCEPT ![c] = cached.token]
  /\ UNCHANGED <<now, cached, inFlight, acq, joined>>

\* getAccessToken, joining the acquisition in flight.
Join(c) ==
  /\ pc[c] = "idle"
  /\ ~CacheHit
  /\ inFlight # None
  /\ pc' = [pc EXCEPT ![c] = "waiting"]
  /\ joined' = [joined EXCEPT ![c] = inFlight]
  /\ UNCHANGED <<now, cached, inFlight, acq, answer>>

\* acquireToken runs up to the await of its first request.
Acquire(c) ==
  /\ acq' = [acq EXCEPT ![c] = NewAcq("sent", now)]
  /\ inFlight' = c
  /\ pc' = [pc EXCEPT ![c] = "waiting"]
  /\ joined' = [joined EXCEPT ![c] = c]
  /\ UNCHANGED <<now, cached, answer>>

\* Mutant: no single-flight guard.
Start_Stampede(c) == pc[c] = "idle" /\ ~CacheHit /\ Acquire(c)

\* getAccessToken, starting an acquisition and publishing its promise.
Start(c) ==
  /\ pc[c] = "idle"
  /\ ~CacheHit
  /\ inFlight = None
  /\ Acquire(c)

\* The token endpoint issues a token; its reply is on the way.
ServerIssues(c) ==
  /\ acq[c].stage = "sent"
  /\ \E life \in Lifetimes :
       acq' = [acq EXCEPT ![c] = [@ EXCEPT !.stage = "issued", !.lifetime = life,
                 !.token = [owner |-> Integration, validUntil |-> now + life]]]
  /\ UNCHANGED <<now, cached, inFlight, pc, joined, answer>>

\* Mutant: no margin is taken off the lifetime.
CacheFor_NoMargin(life) == IF life > Floor THEN life ELSE Floor

\* How long a token with this expires_in is cached for.
CacheFor(life) == IF life - Margin > Floor THEN life - Margin ELSE Floor

\* The reply arrives: acquireToken stores the token and its promise resolves.
ReplyArrives(c) ==
  /\ acq[c].stage = "issued"
  /\ cached' = [token |-> acq[c].token,
                expiresAt |-> now + CacheFor(acq[c].lifetime)]
  /\ acq' = [acq EXCEPT ![c].stage = "resolved"]
  /\ UNCHANGED <<now, inFlight, pc, joined, answer>>

\* The request of style number next is sent.
SendStyle(c, next) ==
  /\ acq' = [acq EXCEPT ![c] = [@ EXCEPT !.stage = "sent", !.style = next,
                                         !.sentAt = now]]
  /\ UNCHANGED <<now, cached, inFlight, pc, joined, answer>>

\* Mutant: the same style is tried again and again.
TryNextStyle_Again(c) == OnTheWire(c) /\ SendStyle(c, acq[c].style)

\* The request fails (refused, lost with or without its effect, or timed out):
\* acquireToken goes on to the next style ...
TryNextStyle(c) ==
  /\ OnTheWire(c)
  /\ acq[c].style < NumStyles
  /\ SendStyle(c, acq[c].style + 1)

\* Mutant: acquireToken itself clears the published promise when it fails.
GiveUp_Clears(c) ==
  /\ OnTheWire(c) /\ acq[c].style = NumStyles
  /\ acq' = [acq EXCEPT ![c].stage = "rejected"]
  /\ inFlight' = None
  /\ UNCHANGED <<now, cached, pc, joined, answer>>
\* Mutant: the last failure is swallowed and the promise never settles.
GiveUp_Swallowed(c) ==
  /\ OnTheWire(c) /\ acq[c].style = NumStyles
  /\ acq' = [acq EXCEPT ![c].stage = "idle"]
  /\ UNCHANGED <<now, cached, inFlight, pc, joined, answer>>

\* ... or, when it was the last one, throws.
GiveUp(c) ==
  /\ OnTheWire(c)
  /\ acq[c].style = NumStyles
  /\ acq' = [acq EXCEPT ![c].stage = "rejected"]
  /\ UNCHANGED <<now, cached, inFlight, pc, joined, answer>>

Waiters(c) == {d \in Callers : pc[d] = "waiting" /\ joined[d] = c}

\* Every call that holds the promise of c's acquisition gets its outcome.
SettleWaiters(c) ==
  LET outcome == IF acq[c].stage = "resolved" THEN acq[c].token ELSE Failed
  IN /\ pc' = [d \in Callers |-> IF d \in Waiters(c) THEN "done" ELSE pc[d]]
     /\ joined' = [d \in Callers |-> IF d \in Waiters(c) THEN None ELSE joined[d]]
     /\ answer' = [d \in Callers |-> IF d \in Waiters(c) THEN outcome ELSE answer[d]]

\* finally(): the flight is over, and the promise settles with the outcome of
\* the acquisition.
Finally(c) ==
  /\ PromiseSettled(c)
  /\ SettleWaiters(c)
  /\ inFlight' = None
  /\ acq' = [acq EXCEPT ![c] = NoAcq]
  /\ UNCHANGED <<now, cached>>

\* The caller goes on with its token or its error.
Resume(c) ==
  /\ pc[c] = "done"
  /\ pc' = [pc EXCEPT ![c] = "idle"]
  /\ answer' = [answer EXCEPT ![c] = Failed]
  /\ UNCHANGED <<now, cached, inFlight, acq, joined>>

\* Time passes: only when no callback is ready to run, and never beyond the
\* timeout of a request.
Tick ==
  /\ now < MaxTime
  /\ \A c \in Callers : pc[c] # "done" /\ ~PromiseSettled(c)
  /\ \A c \in Callers : OnTheWire(c) => now < acq[c].sentAt + HttpTimeout
  /\ now' = now + 1
  /\ UNCHANGED <<cached, inFlight, acq, pc, joined, answer>>

GetAccessToken(c) == UseCached(c) \/ Join(c) \/ Start(c)
RequestFails(c) == TryNextStyle(c) \/ GiveUp(c)

Next ==
  \/ \E c \in Callers :
       \/ GetAccessToken(c)
       \/ ServerIssues(c) \/ ReplyArrives(c) \/ RequestFails(c)
       \/ Finally(c) \/ Resume(c)
  \/ Tick

\* Every request settles (axios aborts it at its timeout), and ready callbacks run.
Fairness ==
  \A c \in Callers :
    /\ WF_vars(ReplyArrives(c) \/ RequestFails(c))
    /\ WF_vars(Finally(c))
    /\ WF_vars(Resume(c))

Spec == Init /\ [][Next]_vars
FairSpec == Spec /\ Fairness

-----------------------------------------------------------------------------
\* At most one token request is outstanding in the process, however many
\* calls arrive while the cache is empty or expired.
SingleFlight == Cardinality({c \in Callers : OnTheWire(c)}) <= 1

\* Every waiting call holds the promise of an acquisition that is still going
\* on, and that acquisition is the one this.inFlight names: no call waits for a
\* promise that nothing will settle.
NobodyIsOrphaned ==
  \A c \in Callers : pc[c] = "waiting" =>
    /\ joined[c] # None
    /\ joined[c] = inFlight
    /\ acq[joined[c]].stage # "idle"

\* A call waits for at most one timeout per configured style, whenever in the
\* life of the acquisition it joined: time cannot pass this point while any
\* call waits.
BoundedWait ==
  \A c \in Callers : pc[c] = "waiting" =>
    now <= acq[joined[c]].begunAt + NumStyles * HttpTimeout

\* A token is handed out only while the server accepts it for longer than a REST
\* call may take, whether it comes from the cache or from a reply that was slow:
\* the 30 s margin covers the request that obtained the token and the call.
TokenOutlivesTheCall ==
  \A c \in Callers : pc[c] = "done" /\ answer[c] # Failed =>
    answer[c].validUntil >= now + CallTimeout

\* Whatever expires_in the server reports, 0 included, a token leaves the cache
\* at most Floor + HttpTimeout after the server stopped accepting it.
OverstayIsBounded ==
  cached # None => cached.expiresAt <= cached.token.validUntil + Floor + HttpTimeout

\* A token that could still be served is never replaced: no acquisition
\* competes with a live cached token, not even one that began before another's
\* token was stored.
LiveTokenIsNeverDisplaced ==
  [][cached' # cached /\ cached # None => cached.expiresAt <= now]_vars

\* Every call is answered, the failure of all styles included.
EveryCallIsAnswered == \A c \in Callers : pc[c] = "waiting" ~> pc[c] = "done"

\* The promises of a token source (module TokenService), kept by this cache.
Service == INSTANCE TokenService WITH
  Principals <- {Integration}, UsableFor <- CallTimeout, Nobody <- None,
  principal <- [c \in Callers |-> IF pc[c] = "idle" THEN None ELSE Integration]

ImplementsService == Service!Spec
=============================================================================
