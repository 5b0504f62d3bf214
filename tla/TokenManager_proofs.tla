------------------------- MODULE TokenManager_proofs -------------------------
(***************************************************************************)
(* Proofs about TokenManager for any set of callers, any lifetimes and any *)
(* bound on time.  The inductive invariant says that the acquisitions      *)
(* under way are exactly the one this.inFlight names, that the calls that  *)
(* wait hold its promise, and how the times recorded in an acquisition and *)
(* in the cache relate.  The last part proves what the answers of the      *)
(* token sources are used for: whose identity the calls to ServiceNow carry *)
(* (CallIdentity).                                                         *)
(***************************************************************************)
EXTENDS TokenManager, CallIdentity, FiniteSetTheorems, TLAPS

USE DEF HttpTimeout, Margin, Floor, CallTimeout

\* An acquisition is under way exactly when the published promise is its own.
FlightInv ==
  \A c \in Callers : acq[c].stage # "idle" <=> inFlight = c

\* The calls that wait hold the published promise.
WaitInv ==
  \A c \in Callers : pc[c] = "waiting" => inFlight # None /\ joined[c] = inFlight

\* Each style of an acquisition under way took at most one timeout.
ClockInv ==
  \A c \in Callers : acq[c].stage # "idle" =>
    /\ acq[c].sentAt <= acq[c].begunAt + (acq[c].style - 1)
    /\ acq[c].sentAt <= now
    /\ now <= acq[c].sentAt + 1

\* A token issued to the request under way dates from after it was sent.
IssuedInv ==
  \A c \in Callers : acq[c].stage \in {"issued", "resolved"} =>
    /\ acq[c].lifetime \in Lifetimes
    /\ acq[c].token.validUntil >= acq[c].sentAt + acq[c].lifetime

\* While a request is under way nothing in the cache can be served.
NeedInv ==
  \A c \in Callers : OnTheWire(c) => cached = None \/ cached.expiresAt <= now

IInv == TypeOK /\ FlightInv /\ WaitInv /\ ClockInv /\ IssuedInv /\ NeedInv

\* A cached token lives on for a REST call's timeout after it leaves the cache.
FreshInv ==
  /\ cached # None => cached.token.validUntil >= cached.expiresAt + CallTimeout
  /\ TokenOutlivesTheCall

\* Every lifetime is long enough for the margin to be taken off whole.
LongLived == \A life \in Lifetimes : life >= Margin + Floor

-----------------------------------------------------------------------------
\* Two acquisitions cannot both be under way when one promise is published.
LEMMA FlightIsOne ==
  ASSUME FlightInv
  PROVE  SingleFlight
<1> DEFINE W == {c \in Callers : OnTheWire(c)}
<1>1. \A c \in W : inFlight = c
  BY DEF FlightInv, OnTheWire
<1>2. W = {} \/ W = {inFlight}
  BY <1>1
<1>3. Cardinality(W) <= 1
  BY <1>2, FS_EmptySet, FS_Singleton
<1> QED
  BY <1>3 DEF SingleFlight

\* Type correctness of the cache and of every acquisition.
LEMMA Typing == ASSUME TypeOK, [Next]_vars PROVE TypeOK'
<1> USE NumStylesAssumption, LifetimesAssumption
<1>1. ASSUME NEW c \in Callers, UseCached(c) PROVE TypeOK'
  BY <1>1 DEF TypeOK, UseCached, CacheHit, CachedToken
<1>2. ASSUME NEW c \in Callers, Join(c) PROVE TypeOK'
  BY <1>2 DEF TypeOK, Join
<1>3. ASSUME NEW c \in Callers, Start(c) PROVE TypeOK'
  <2>1. 1 \in 1..NumStyles
    OBVIOUS
  <2>2. NewAcq("sent", now) \in Acq
    BY <2>1 DEF TypeOK, Acq, NewAcq, NoToken, Token
  <2> QED
    BY <1>3, <2>2 DEF TypeOK, Start, Acquire
<1>4. ASSUME NEW c \in Callers, ServerIssues(c) PROVE TypeOK'
  <2>1. PICK life \in Lifetimes :
          acq' = [acq EXCEPT ![c] = [@ EXCEPT !.stage = "issued", !.lifetime = life,
                    !.token = [owner |-> Integration, validUntil |-> now + life]]]
    BY <1>4 DEF ServerIssues
  <2>2. [owner |-> Integration, validUntil |-> now + life] \in Token
    BY DEF TypeOK, Token
  <2>3. life \in Nat /\ acq[c] \in Acq
    BY <2>1, LifetimesAssumption DEF TypeOK
  <2>4. [acq[c] EXCEPT !.stage = "issued", !.lifetime = life,
           !.token = [owner |-> Integration, validUntil |-> now + life]] \in Acq
    BY <2>2, <2>3 DEF Acq
  <2>5. acq' = [acq EXCEPT ![c] =
          [acq[c] EXCEPT !.stage = "issued", !.lifetime = life,
             !.token = [owner |-> Integration, validUntil |-> now + life]]]
    BY <2>1
  <2>6. acq' \in [Callers -> Acq]
    BY <2>4, <2>5 DEF TypeOK
  <2> QED
    BY <1>4, <2>6 DEF TypeOK, ServerIssues
<1>5. ASSUME NEW c \in Callers, ReplyArrives(c) PROVE TypeOK'
  <2>1. acq' \in [Callers -> Acq]
    BY <1>5 DEF TypeOK, Acq, ReplyArrives
  <2>2. cached' \in CachedToken
    BY <1>5 DEF TypeOK, Acq, ReplyArrives, CachedToken, CacheFor
  <2> QED
    BY <1>5, <2>1, <2>2 DEF TypeOK, ReplyArrives
<1>6. ASSUME NEW c \in Callers, TryNextStyle(c) PROVE TypeOK'
  <2>1. acq[c].style + 1 \in 1..NumStyles
    BY <1>6 DEF TypeOK, Acq, TryNextStyle
  <2>2. acq' \in [Callers -> Acq]
    BY <1>6, <2>1 DEF TypeOK, Acq, TryNextStyle, SendStyle
  <2> QED
    BY <1>6, <2>2 DEF TypeOK, TryNextStyle, SendStyle
<1>7. ASSUME NEW c \in Callers, GiveUp(c) PROVE TypeOK'
  BY <1>7 DEF TypeOK, Acq, GiveUp
<1>8. ASSUME NEW c \in Callers, Finally(c) PROVE TypeOK'
  <2>1. NoAcq \in Acq
    BY DEF NoAcq, NewAcq, Acq, NoToken, Token
  <2>2. acq[c].token \in Token
    BY DEF TypeOK, Acq
  <2> QED
    BY <1>8, <2>1, <2>2 DEF TypeOK, Finally, SettleWaiters
<1>9. ASSUME NEW c \in Callers, Resume(c) PROVE TypeOK'
  BY <1>9 DEF TypeOK, Resume
<1>10. CASE Tick
  BY <1>10 DEF TypeOK, Tick
<1>11. CASE UNCHANGED vars
  BY <1>11 DEF TypeOK, vars
<1> QED
  BY <1>1, <1>2, <1>3, <1>4, <1>5, <1>6, <1>7, <1>8, <1>9, <1>10, <1>11
     DEF Next, GetAccessToken, RequestFails

\* The flight, the waiting calls and the times of the acquisition under way.
LEMMA FlightStep ==
  ASSUME TypeOK, FlightInv, WaitInv, ClockInv, [Next]_vars
  PROVE  FlightInv' /\ WaitInv' /\ ClockInv'
<1> USE NumStylesAssumption, NoneAssumption
    DEF FlightInv, WaitInv, ClockInv, TypeOK, Acq
<1>1. ASSUME NEW c \in Callers, UseCached(c) PROVE FlightInv' /\ WaitInv' /\ ClockInv'
  BY <1>1 DEF UseCached
<1>2. ASSUME NEW c \in Callers, Join(c) PROVE FlightInv' /\ WaitInv' /\ ClockInv'
  BY <1>2 DEF Join
<1>3. ASSUME NEW c \in Callers, Start(c) PROVE FlightInv' /\ WaitInv' /\ ClockInv'
  <2>1. acq'[c].stage = "sent" /\ acq'[c].style = 1
        /\ acq'[c].begunAt = now /\ acq'[c].sentAt = now
    BY <1>3 DEF Start, Acquire, NewAcq
  <2>2. \A d \in Callers \ {c} : acq'[d] = acq[d] /\ acq[d].stage = "idle"
    BY <1>3 DEF Start, Acquire
  <2> QED
    BY <1>3, <2>1, <2>2 DEF Start, Acquire
<1>4. ASSUME NEW c \in Callers, ServerIssues(c) PROVE FlightInv' /\ WaitInv' /\ ClockInv'
  <2>1. PICK life \in Lifetimes :
          acq' = [acq EXCEPT ![c] = [@ EXCEPT !.stage = "issued", !.lifetime = life,
                    !.token = [owner |-> Integration, validUntil |-> now + life]]]
    BY <1>4 DEF ServerIssues
  <2>2. \A d \in Callers : /\ acq'[d].style = acq[d].style
                           /\ acq'[d].begunAt = acq[d].begunAt
                           /\ acq'[d].sentAt = acq[d].sentAt
                           /\ acq'[d].stage # "idle" <=> acq[d].stage # "idle"
    BY <1>4, <2>1 DEF ServerIssues
  <2> QED
    BY <1>4, <2>2 DEF ServerIssues
<1>5. ASSUME NEW c \in Callers, ReplyArrives(c) PROVE FlightInv' /\ WaitInv' /\ ClockInv'
  BY <1>5 DEF ReplyArrives
<1>6. ASSUME NEW c \in Callers, TryNextStyle(c) PROVE FlightInv' /\ WaitInv' /\ ClockInv'
  <2>1. acq'[c].stage = "sent" /\ acq'[c].style = acq[c].style + 1
        /\ acq'[c].begunAt = acq[c].begunAt /\ acq'[c].sentAt = now
    BY <1>6 DEF TryNextStyle, SendStyle
  <2>2. \A d \in Callers \ {c} : acq'[d] = acq[d]
    BY <1>6 DEF TryNextStyle, SendStyle
  <2>3. acq[c].stage # "idle"
    BY <1>6 DEF TryNextStyle, OnTheWire
  <2>4. now <= acq[c].begunAt + acq[c].style
    BY <2>3
  <2> QED
    BY <1>6, <2>1, <2>2, <2>3, <2>4 DEF TryNextStyle, SendStyle
<1>7. ASSUME NEW c \in Callers, GiveUp(c) PROVE FlightInv' /\ WaitInv' /\ ClockInv'
  BY <1>7 DEF GiveUp, OnTheWire
<1>8. ASSUME NEW c \in Callers, Finally(c) PROVE FlightInv' /\ WaitInv' /\ ClockInv'
  <2>1. inFlight = c
    BY <1>8 DEF Finally, PromiseSettled
  <2>2. \A d \in Callers : acq'[d].stage = "idle"
    BY <1>8, <2>1 DEF Finally, NoAcq, NewAcq
  <2>3. \A d \in Callers : pc'[d] # "waiting"
    BY <1>8, <2>1 DEF Finally, SettleWaiters, Waiters
  <2> QED
    BY <1>8, <2>2, <2>3 DEF Finally
<1>9. ASSUME NEW c \in Callers, Resume(c) PROVE FlightInv' /\ WaitInv' /\ ClockInv'
  BY <1>9 DEF Resume
<1>10. ASSUME Tick PROVE FlightInv' /\ WaitInv' /\ ClockInv'
  BY <1>10 DEF Tick, OnTheWire, PromiseSettled
<1>11. CASE UNCHANGED vars
  BY <1>11 DEF vars
<1> QED
  BY <1>1, <1>2, <1>3, <1>4, <1>5, <1>6, <1>7, <1>8, <1>9, <1>10, <1>11
     DEF Next, GetAccessToken, RequestFails

\* The token of the acquisition under way, and why the cache is of no use to it.
LEMMA TokenStep ==
  ASSUME TypeOK, FlightInv, ClockInv, IssuedInv, NeedInv, [Next]_vars
  PROVE  IssuedInv' /\ NeedInv'
<1> USE DEF IssuedInv, NeedInv, OnTheWire, TypeOK, Acq
<1>1. ASSUME NEW c \in Callers, UseCached(c) PROVE IssuedInv' /\ NeedInv'
  BY <1>1 DEF UseCached
<1>2. ASSUME NEW c \in Callers, Join(c) PROVE IssuedInv' /\ NeedInv'
  BY <1>2 DEF Join
<1>3. ASSUME NEW c \in Callers, Start(c) PROVE IssuedInv' /\ NeedInv'
  <2>1. acq'[c].stage = "sent" /\ \A d \in Callers \ {c} : acq'[d] = acq[d]
    BY <1>3 DEF Start, Acquire, NewAcq
  <2>2. cached = None \/ cached.expiresAt <= now
    BY <1>3 DEF Start, CacheHit, CachedToken
  <2> QED
    BY <1>3, <2>1, <2>2 DEF Start, Acquire
<1>4. ASSUME NEW c \in Callers, ServerIssues(c) PROVE IssuedInv' /\ NeedInv'
  <2>1. PICK life \in Lifetimes :
          acq' = [acq EXCEPT ![c] = [@ EXCEPT !.stage = "issued", !.lifetime = life,
                    !.token = [owner |-> Integration, validUntil |-> now + life]]]
    BY <1>4 DEF ServerIssues
  <2>2. /\ acq'[c].stage = "issued" /\ acq'[c].lifetime = life
        /\ acq'[c].token.validUntil = now + life
        /\ acq'[c].sentAt = acq[c].sentAt
    BY <2>1
  <2>3. \A d \in Callers \ {c} : acq'[d] = acq[d]
    BY <2>1
  <2>4. acq[c].sentAt <= now
    BY <1>4 DEF ServerIssues, ClockInv
  <2> QED
    BY <1>4, <2>2, <2>3, <2>4, LifetimesAssumption DEF ServerIssues
<1>5. ASSUME NEW c \in Callers, ReplyArrives(c) PROVE IssuedInv' /\ NeedInv'
  <2>1. \A d \in Callers \ {c} : acq[d].stage = "idle"
    BY <1>5 DEF FlightInv, ReplyArrives
  <2>2. acq'[c].stage = "resolved" /\ \A d \in Callers \ {c} : acq'[d] = acq[d]
    BY <1>5 DEF ReplyArrives
  <2> QED
    BY <1>5, <2>1, <2>2 DEF ReplyArrives
<1>6. ASSUME NEW c \in Callers, TryNextStyle(c) PROVE IssuedInv' /\ NeedInv'
  BY <1>6 DEF TryNextStyle, SendStyle
<1>7. ASSUME NEW c \in Callers, GiveUp(c) PROVE IssuedInv' /\ NeedInv'
  BY <1>7 DEF GiveUp
<1>8. ASSUME NEW c \in Callers, Finally(c) PROVE IssuedInv' /\ NeedInv'
  <2>1. acq'[c].stage = "idle" /\ \A d \in Callers \ {c} : acq'[d] = acq[d]
    BY <1>8 DEF Finally, NoAcq, NewAcq
  <2> QED
    BY <1>8, <2>1 DEF Finally
<1>9. ASSUME NEW c \in Callers, Resume(c) PROVE IssuedInv' /\ NeedInv'
  BY <1>9 DEF Resume
<1>10. ASSUME Tick PROVE IssuedInv' /\ NeedInv'
  BY <1>10 DEF Tick, CachedToken
<1>11. CASE UNCHANGED vars
  BY <1>11 DEF vars
<1> QED
  BY <1>1, <1>2, <1>3, <1>4, <1>5, <1>6, <1>7, <1>8, <1>9, <1>10, <1>11
     DEF Next, GetAccessToken, RequestFails

\* The inductive invariant holds initially and is preserved by every step.
THEOREM Inductive == Spec => []IInv
<1>1. Init => IInv
  <2> SUFFICES ASSUME Init PROVE IInv
    OBVIOUS
  <2>1. NoAcq \in Acq
    BY NumStylesAssumption DEF NoAcq, NewAcq, Acq, NoToken, Token
  <2>2. TypeOK
    BY <2>1 DEF Init, TypeOK
  <2>3. \A c \in Callers : acq[c].stage = "idle"
    BY DEF Init, NoAcq, NewAcq
  <2> QED
    BY <2>2, <2>3, NoneAssumption DEF Init, IInv, FlightInv, WaitInv, ClockInv,
       IssuedInv, NeedInv, OnTheWire
<1>2. IInv /\ [Next]_vars => IInv'
  BY Typing, FlightStep, TokenStep DEF IInv
<1> QED
  BY <1>1, <1>2, PTL DEF Spec

\* The types of the cache, the acquisitions and the calls hold for any instance.
THEOREM TypeCorrect == Spec => []TypeOK
<1>1. IInv => TypeOK
  BY DEF IInv
<1> QED
  BY <1>1, Inductive, PTL

\* However many calls overlap, at most one token request is outstanding.
THEOREM OneRequestAtATime == Spec => []SingleFlight
<1>1. IInv => SingleFlight
  BY FlightIsOne DEF IInv
<1> QED
  BY <1>1, Inductive, PTL

\* No call of getAccessToken ever waits for a promise that nothing will settle.
THEOREM NoOrphans == Spec => []NobodyIsOrphaned
<1>1. IInv => NobodyIsOrphaned
  BY DEF IInv, TypeOK, FlightInv, WaitInv, NobodyIsOrphaned
<1> QED
  BY <1>1, Inductive, PTL

\* No call of getAccessToken waits longer than one timeout per style.
THEOREM WaitIsBounded == Spec => []BoundedWait
<1>1. IInv => BoundedWait
  <2> SUFFICES ASSUME IInv, NEW c \in Callers, pc[c] = "waiting"
               PROVE  now <= acq[joined[c]].begunAt + NumStyles
    BY NumStylesAssumption DEF BoundedWait
  <2> DEFINE a == acq[joined[c]]
  <2>1. joined[c] \in Callers /\ a.stage # "idle"
    BY DEF IInv, TypeOK, FlightInv, WaitInv
  <2>2. a.begunAt \in Nat /\ a.sentAt \in Nat /\ a.style \in 1..NumStyles /\ now \in Nat
    BY <2>1 DEF IInv, TypeOK, Acq
  <2>3. a.sentAt <= a.begunAt + (a.style - 1) /\ now <= a.sentAt + 1
    BY <2>1 DEF IInv, ClockInv
  <2> QED
    BY <2>2, <2>3, NumStylesAssumption
<1> QED
  BY <1>1, Inductive, PTL

\* A token that could still be served is never replaced by another one.
THEOREM LiveTokenStays == Spec => LiveTokenIsNeverDisplaced
<1>1. IInv /\ [Next]_vars => [cached' # cached /\ cached # None
                                => cached.expiresAt <= now]_vars
  <2> SUFFICES ASSUME IInv, Next, cached' # cached, cached # None
               PROVE  cached.expiresAt <= now
    BY DEF vars
  <2>1. PICK c \in Callers : ReplyArrives(c)
    BY DEF Next, GetAccessToken, UseCached, Join, Start, Acquire, ServerIssues,
           RequestFails, TryNextStyle, SendStyle, GiveUp, Finally, Resume, Tick
  <2>2. OnTheWire(c)
    BY <2>1 DEF ReplyArrives, OnTheWire
  <2> QED
    BY <2>2 DEF IInv, NeedInv
<1> QED
  BY <1>1, Inductive, PTL DEF Spec, LiveTokenIsNeverDisplaced

-----------------------------------------------------------------------------
\* What a stored token is still worth, from the times of its acquisition.
LEMMA StoredToken ==
  ASSUME IInv, NEW c \in Callers, ReplyArrives(c)
  PROVE  /\ cached'.expiresAt <= cached'.token.validUntil + Floor + HttpTimeout
         /\ LongLived => cached'.token.validUntil >= cached'.expiresAt + CallTimeout
<1> DEFINE a == acq[c]
<1>1. a.stage = "issued" /\ cached' = [token |-> a.token,
                                       expiresAt |-> now + CacheFor(a.lifetime)]
  BY DEF ReplyArrives
<1>2. a.lifetime \in Lifetimes /\ a.token.validUntil >= a.sentAt + a.lifetime
  BY <1>1 DEF IInv, IssuedInv
<1>3. now <= a.sentAt + 1
  BY <1>1 DEF IInv, ClockInv
<1>4. a.lifetime \in Nat /\ a.sentAt \in Nat /\ a.token.validUntil \in Nat /\ now \in Nat
  BY DEF IInv, TypeOK, Acq, Token
<1>5. CacheFor(a.lifetime) \in Nat
      /\ (CacheFor(a.lifetime) = 3 \/ CacheFor(a.lifetime) = a.lifetime - 3)
  BY <1>4 DEF CacheFor
<1>6. LongLived => CacheFor(a.lifetime) = a.lifetime - 3
  BY <1>2, <1>4 DEF CacheFor, LongLived
<1>7. cached'.expiresAt = now + CacheFor(a.lifetime) /\ cached'.token = a.token
  BY <1>1
<1> QED
  BY <1>2, <1>3, <1>4, <1>5, <1>6, <1>7

\* The cache changes only when a reply is stored.
LEMMA CacheWrites ==
  ASSUME Next, cached' # cached
  PROVE  \E c \in Callers : ReplyArrives(c)
BY DEF Next, GetAccessToken, UseCached, Join, Start, Acquire, ServerIssues,
       RequestFails, TryNextStyle, SendStyle, GiveUp, Finally, Resume, Tick

\* Whatever lifetime the server reports, the time a dead token can still be
\* served is bounded by the 30 s floor and one request timeout.
THEOREM OverstayBound == Spec => []OverstayIsBounded
<1>1. Init => OverstayIsBounded
  BY DEF Init, OverstayIsBounded
<1>2. IInv /\ OverstayIsBounded /\ [Next]_vars => OverstayIsBounded'
  <2> SUFFICES ASSUME IInv, OverstayIsBounded, [Next]_vars PROVE OverstayIsBounded'
    OBVIOUS
  <2>1. CASE cached' = cached
    BY <2>1 DEF OverstayIsBounded
  <2>2. CASE cached' # cached
    <3>1. PICK c \in Callers : ReplyArrives(c)
      BY <2>2, CacheWrites DEF vars
    <3> QED
      BY <3>1, StoredToken DEF OverstayIsBounded
  <2> QED
    BY <2>1, <2>2
<1> QED
  BY <1>1, <1>2, Inductive, PTL DEF Spec

\* With lifetimes of 60 s and more, freshness is preserved by every step.
LEMMA FreshStep ==
  ASSUME LongLived, IInv, FreshInv, [Next]_vars
  PROVE  FreshInv'
<1>1. (cached # None => cached.token.validUntil >= cached.expiresAt + CallTimeout)'
  <2>1. CASE cached' = cached
    BY <2>1 DEF FreshInv
  <2>2. CASE cached' # cached
    <3>1. PICK c \in Callers : ReplyArrives(c)
      BY <2>2, CacheWrites DEF vars
    <3> QED
      BY <3>1, StoredToken
  <2> QED
    BY <2>1, <2>2
<1>2. TokenOutlivesTheCall'
  <2> USE DEF FreshInv, TokenOutlivesTheCall, IInv, TypeOK
  <2>1. ASSUME NEW c \in Callers, UseCached(c) PROVE TokenOutlivesTheCall'
    <3>1. cached.token.validUntil >= now + CallTimeout
      BY <2>1 DEF UseCached, CacheHit, CachedToken, Token
    <3> QED
      BY <2>1, <3>1 DEF UseCached
  <2>2. ASSUME NEW c \in Callers, Join(c) PROVE TokenOutlivesTheCall'
    BY <2>2 DEF Join
  <2>3. ASSUME NEW c \in Callers, Start(c) PROVE TokenOutlivesTheCall'
    BY <2>3 DEF Start, Acquire
  <2>4. ASSUME NEW c \in Callers, ServerIssues(c) PROVE TokenOutlivesTheCall'
    BY <2>4 DEF ServerIssues
  <2>5. ASSUME NEW c \in Callers, ReplyArrives(c) PROVE TokenOutlivesTheCall'
    BY <2>5 DEF ReplyArrives
  <2>6. ASSUME NEW c \in Callers, RequestFails(c) PROVE TokenOutlivesTheCall'
    BY <2>6 DEF RequestFails, TryNextStyle, SendStyle, GiveUp
  <2>7. ASSUME NEW c \in Callers, Finally(c) PROVE TokenOutlivesTheCall'
    <3>1. acq[c].stage = "resolved" => acq[c].token.validUntil >= now + CallTimeout
      <4> SUFFICES ASSUME acq[c].stage = "resolved"
                   PROVE  acq[c].token.validUntil >= now + CallTimeout
        OBVIOUS
      <4>1. acq[c].lifetime \in Lifetimes
            /\ acq[c].token.validUntil >= acq[c].sentAt + acq[c].lifetime
            /\ now <= acq[c].sentAt + 1
        BY DEF IssuedInv, ClockInv
      <4>2. acq[c].lifetime \in Nat /\ acq[c].sentAt \in Nat
            /\ acq[c].token.validUntil \in Nat
        BY DEF Acq, Token
      <4> QED
        BY <4>1, <4>2 DEF LongLived
    <3>2. \A d \in Callers : pc'[d] = "done" =>
            \/ pc[d] = "done" /\ answer'[d] = answer[d]
            \/ answer'[d] = Failed
            \/ acq[c].stage = "resolved" /\ answer'[d] = acq[c].token
      BY <2>7 DEF Finally, SettleWaiters
    <3> QED
      BY <2>7, <3>1, <3>2 DEF Finally
  <2>8. ASSUME NEW c \in Callers, Resume(c) PROVE TokenOutlivesTheCall'
    BY <2>8 DEF Resume
  <2>9. CASE Tick
    BY <2>9 DEF Tick
  <2>10. CASE UNCHANGED vars
    BY <2>10 DEF vars
  <2> QED
    BY <2>1, <2>2, <2>3, <2>4, <2>5, <2>6, <2>7, <2>8, <2>9, <2>10
       DEF Next, GetAccessToken
<1> QED
  BY <1>1, <1>2 DEF FreshInv

\* With lifetimes of 60 s and more, the relation between the age of a cached
\* token and its validity is an invariant.
THEOREM FreshTokens == ASSUME LongLived PROVE Spec => []FreshInv
<1>1. Init => FreshInv
  BY DEF Init, FreshInv, TokenOutlivesTheCall
<1>2. IInv /\ FreshInv /\ [Next]_vars => FreshInv'
  BY FreshStep
<1> QED
  BY <1>1, <1>2, Inductive, PTL DEF Spec

\* With lifetimes of 60 s and more, a call is never answered with a token that
\* the server may stop accepting before the REST call it is put on times out.
THEOREM TokensOutliveCalls == ASSUME LongLived PROVE Spec => []TokenOutlivesTheCall
<1>1. FreshInv => TokenOutlivesTheCall
  BY DEF FreshInv
<1> QED
  BY <1>1, FreshTokens, PTL

\* A token with the types of this module is one with the types of TokenService.
LEMMA AnswerIsAcceptable ==
  ASSUME IInv', FreshInv', NEW c \in Callers, pc'[c] = "done", now' = now
  PROVE  Service!Acceptable(answer'[c], Integration)
<1>1. CASE answer'[c] = Failed
  BY <1>1 DEF Service!Acceptable
<1>2. CASE answer'[c] # Failed
  <2>1. answer'[c] \in Token
    BY <1>2 DEF IInv, TypeOK
  <2>2. answer'[c].validUntil >= now + CallTimeout
    BY <1>2 DEF FreshInv, TokenOutlivesTheCall
  <2>3. answer'[c] \in Service!Token /\ answer'[c].owner = Integration
    BY <2>1 DEF Token, Service!Token
  <2> QED
    BY <2>2, <2>3 DEF Service!Acceptable
<1> QED
  BY <1>1, <1>2

\* Every step of the cache is a step of the service it promises, or none.
LEMMA ServiceStep ==
  ASSUME IInv, IInv', FreshInv', [Next]_vars
  PROVE  [Service!Next]_Service!vars
<1> DEFINE P == [c \in Callers |-> Integration]
<1> USE DEF Service!vars, IInv, TypeOK
<1>0. \A c \in Callers : P = [P EXCEPT ![c] = Integration]
  OBVIOUS
<1>1. ASSUME NEW c \in Callers, UseCached(c) PROVE Service!AnswerAtOnce(c, Integration)
  <2>1. pc'[c] = "done" /\ now' = now
    BY <1>1 DEF UseCached
  <2>2. Service!Acceptable(answer'[c], Integration)
    BY <2>1, AnswerIsAcceptable
  <2>3. answer' = [answer EXCEPT ![c] = answer'[c]]
    BY <1>1 DEF UseCached
  <2> QED
    BY <1>0, <1>1, <2>2, <2>3 DEF UseCached, Service!AnswerAtOnce
<1>2. ASSUME NEW c \in Callers, Join(c) \/ Start(c) PROVE Service!Ask(c, Integration)
  BY <1>0, <1>2 DEF Join, Start, Acquire, Service!Ask
<1>3. ASSUME NEW c \in Callers, ServerIssues(c) \/ ReplyArrives(c) \/ RequestFails(c)
      PROVE UNCHANGED Service!vars
  BY <1>3 DEF ServerIssues, ReplyArrives, RequestFails, TryNextStyle, SendStyle, GiveUp
<1>4. ASSUME NEW c \in Callers, Finally(c) PROVE Service!Settle(Waiters(c))
  <2> DEFINE S == Waiters(c)
  <2>1. \A d \in S : pc[d] = "waiting" /\ pc'[d] = "done" /\ d \in Callers
    BY <1>4 DEF Finally, SettleWaiters, Waiters
  <2>2. now' = now
    BY <1>4 DEF Finally
  <2>3. \A d \in S : Service!Acceptable(answer'[d], Integration)
    BY <2>1, <2>2, AnswerIsAcceptable
  <2>4. answer' = [d \in Callers |-> IF d \in S THEN answer'[d] ELSE answer[d]]
    BY <1>4 DEF Finally, SettleWaiters
  <2>5. pc' = [d \in Callers |-> IF d \in S THEN "done" ELSE pc[d]]
    BY <1>4 DEF Finally, SettleWaiters
  <2>6. \A d \in S : P[d] = Integration
    BY <2>1
  <2> QED
    BY <2>1, <2>2, <2>3, <2>4, <2>5, <2>6 DEF Service!Settle
<1>5. ASSUME NEW c \in Callers, Resume(c) PROVE Service!Resume(c)
  BY <1>5 DEF Resume, Service!Resume
<1>6. CASE Tick
  <2>1. Service!Tick
    BY <1>6 DEF Tick, Service!Tick
  <2> QED
    BY <2>1 DEF Service!Next
<1>7. CASE UNCHANGED vars
  BY <1>7 DEF vars
<1>8. \A c \in Callers : Waiters(c) \in SUBSET Callers
  BY DEF Waiters
<1> QED
  BY <1>1, <1>2, <1>3, <1>4, <1>5, <1>6, <1>7, <1>8
     DEF Next, GetAccessToken, Service!Next

\* With lifetimes of 60 s and more, the cache, its single flight and its styles
\* implement the token source that the rest of the program relies on.
THEOREM Refinement == ASSUME LongLived PROVE Spec => ImplementsService
<1>1. Init => Service!Init
  BY DEF Init, Service!Init
<1>2. IInv /\ IInv' /\ FreshInv' /\ [Next]_vars => [Service!Next]_Service!vars
  BY ServiceStep
<1> QED
  BY <1>1, <1>2, Inductive, FreshTokens, PTL DEF Spec, ImplementsService, Service!Spec

-----------------------------------------------------------------------------
(***************************************************************************)
(* Whose identity the calls to ServiceNow carry (CallIdentity), for any    *)
(* operations and any number of calls.  That module takes a token of the   *)
(* principal it asked for granted whenever a token source answers, which   *)
(* Refinement above and its counterpart in OboTokenService_proofs justify. *)
(***************************************************************************)

\* The one identity an operation of the client may use when a caller's token is
\* required: that of the header when there is one, else that of the exchange.
Own(o) ==
  IF ctx[o].header THEN HeaderOf(ctx[o].user) ELSE OboOf(ctx[o].user)

\* With a caller's token required an operation of the client never asks for the
\* integration user's, and carries nothing but its own identity.
ClientOwn(o) ==
  kind[o] = "client" /\ cfg.require =>
    /\ stage[o] # "integration"
    /\ stage[o] = "obo" => ~ctx[o].header
    /\ stage[o] = "send" => bearer[o] = Own(o)
    /\ used[o] \subseteq {Own(o)}

\* A validation uses what it carries and nothing else, and has used nothing while
\* it is still choosing.
ValidateOwn(o) ==
  kind[o] # "client" =>
    /\ used[o] \subseteq {bearer[o]}
    /\ stage[o] \in {"idle", "obo", "integration"} => used[o] = {}

CallsIInv == CallsTypeOK /\ \A o \in Ops : ClientOwn(o) /\ ValidateOwn(o)

LEMMA CallsStart == ASSUME CallsInit PROVE CallsIInv
<1>1. CallsTypeOK
  BY MaxCallsAssumption DEF CallsTypeOK, CallsInit, Stages, Identity
<1>2. \A o \in Ops : ClientOwn(o) /\ ValidateOwn(o)
  BY DEF ClientOwn, ValidateOwn, CallsInit
<1> QED
  BY <1>1, <1>2 DEF CallsIInv

\* Every operation counts a call before it makes it.
LEMMA CallsCounted ==
  ASSUME CallsTypeOK, NEW o \in Ops, BeginCall(o) \/ NextProbe(o)
  PROVE  calls' \in [Ops -> 0..MaxCalls]
<1>1. calls[o] \in 0..MaxCalls /\ calls[o] < MaxCalls /\ calls' = [calls EXCEPT ![o] = calls[o] + 1]
  BY DEF BeginCall, NextProbe, CallsTypeOK
<1>2. calls[o] + 1 \in 0..MaxCalls
  BY <1>1, MaxCallsAssumption
<1> QED
  BY <1>1, <1>2 DEF CallsTypeOK

LEMMA CallsTyping == ASSUME CallsTypeOK, [CallsNext]_callVars PROVE CallsTypeOK'
<1> USE DEF CallsTypeOK, Stages
<1>1. ASSUME NEW o \in Ops
      PROVE  /\ HeaderOf(ctx[o].user) \in Identity
             /\ OboOf(ctx[o].user) \in Identity
             /\ IntegrationUser \in Identity
  BY <1>1 DEF Identity, Contexts
<1>2. ASSUME NEW o \in Ops, BeginCall(o) PROVE CallsTypeOK'
  <2>1. calls' \in [Ops -> 0..MaxCalls]
    BY <1>2, CallsCounted
  <2> QED
    BY <1>1, <1>2, <2>1 DEF BeginCall, Intercept, WithoutToken, Authorize, Goto
<1>3. ASSUME NEW o \in Ops, NextProbe(o) PROVE CallsTypeOK'
  <2>1. calls' \in [Ops -> 0..MaxCalls]
    BY <1>3, CallsCounted
  <2> QED
    BY <1>3, <2>1 DEF NextProbe, Goto
<1>4. ASSUME NEW o \in Ops, ChooseToken(o) \/ OboAnswers(o) \/ IntegrationAnswers(o)
      PROVE  CallsTypeOK'
  BY <1>1, <1>4 DEF ChooseToken, OboAnswers, IntegrationAnswers, Authorize, Goto
<1>5. ASSUME NEW o \in Ops,
             OboFails(o) \/ IntegrationFails(o) \/ Send(o) \/ Caught(o) \/ End(o)
      PROVE  CallsTypeOK'
  BY <1>5 DEF OboFails, IntegrationFails, WithoutToken, Send, Caught, End, Goto
<1>6. CASE UNCHANGED callVars
  BY <1>6 DEF callVars
<1> QED
  BY <1>2, <1>3, <1>4, <1>5, <1>6 DEF CallsNext, Step

\* A step is one operation's: the configuration, the contexts and the state of the
\* other operations stay as they are.
LEMMA OneOperation ==
  ASSUME CallsTypeOK, NEW o \in Ops, Step(o)
  PROVE  /\ cfg' = cfg /\ ctx' = ctx /\ kind' = kind
         /\ \A p \in Ops \ {o} :
              stage'[p] = stage[p] /\ bearer'[p] = bearer[p] /\ used'[p] = used[p]
<1> USE DEF CallsTypeOK
<1>1. CASE BeginCall(o) \/ ChooseToken(o)
  BY <1>1 DEF BeginCall, ChooseToken, Intercept,
     WithoutToken, Authorize, Goto
<1>2. CASE OboAnswers(o) \/ OboFails(o) \/ IntegrationAnswers(o)
             \/ IntegrationFails(o)
  BY <1>2 DEF OboAnswers, OboFails, IntegrationAnswers,
     IntegrationFails, WithoutToken, Authorize, Goto
<1>3. CASE Send(o) \/ Caught(o) \/ End(o) \/ NextProbe(o)
  BY <1>3 DEF Send, Caught, End, NextProbe, Goto
<1> QED
  BY <1>1, <1>2, <1>3 DEF Step

\* An operation of the client keeps to its own identity: the only way to another
\* one is the fallback, which the configuration closes.
LEMMA ClientKeeps ==
  ASSUME CallsTypeOK, NEW o \in Ops, ClientOwn(o), Step(o)
  PROVE  ClientOwn(o)'
<1> SUFFICES ASSUME kind[o] = "client", cfg.require PROVE ClientOwn(o)'
  BY OneOperation DEF ClientOwn
<1>1. cfg' = cfg /\ ctx' = ctx /\ kind' = kind /\ Own(o)' = Own(o)
  BY OneOperation DEF Own, HeaderOf, OboOf
<1>2. /\ stage[o] # "integration"
      /\ stage[o] = "obo" => ~ctx[o].header
      /\ stage[o] = "send" => bearer[o] = Own(o)
      /\ used[o] \subseteq {Own(o)}
  BY DEF ClientOwn
<1>3. SUFFICES /\ stage'[o] # "integration"
               /\ stage'[o] = "obo" => ~ctx[o].header
               /\ stage'[o] = "send" => bearer'[o] = Own(o)
               /\ used'[o] \subseteq {Own(o)}
  BY <1>1 DEF ClientOwn
<1> USE <1>2 DEF CallsTypeOK
<1>4. CASE BeginCall(o)
  BY <1>4 DEF BeginCall, Intercept, WithoutToken,
     Authorize, Goto, Own
<1>5. CASE OboAnswers(o)
  BY <1>5 DEF OboAnswers, Authorize, Goto, Own
<1>6. CASE OboFails(o)
  BY <1>6 DEF OboFails, WithoutToken, Goto
<1>7. CASE Send(o) \/ Caught(o) \/ End(o)
  BY <1>7 DEF Send, Caught, End, Goto
<1>8. ~(IntegrationAnswers(o) \/ IntegrationFails(o))
  BY DEF IntegrationAnswers, IntegrationFails
<1>9. ~(ChooseToken(o) \/ NextProbe(o))
  BY DEF ChooseToken, NextProbe
<1> QED
  BY <1>4, <1>5, <1>6, <1>7, <1>8, <1>9 DEF Step

\* A validation takes up a token only while it has used none.
LEMMA ValidateKeeps ==
  ASSUME CallsTypeOK, NEW o \in Ops, ValidateOwn(o), Step(o)
  PROVE  ValidateOwn(o)'
<1> SUFFICES ASSUME kind[o] # "client" PROVE ValidateOwn(o)'
  BY OneOperation DEF ValidateOwn
<1>1. kind' = kind
  BY OneOperation
<1>2. /\ used[o] \subseteq {bearer[o]}
      /\ stage[o] \in {"idle", "obo", "integration"} => used[o] = {}
  BY DEF ValidateOwn
<1>3. SUFFICES /\ used'[o] \subseteq {bearer'[o]}
               /\ stage'[o] \in {"idle", "obo", "integration"} => used'[o] = {}
  BY <1>1 DEF ValidateOwn
<1> USE <1>2 DEF CallsTypeOK
<1>4. CASE ChooseToken(o)
  BY <1>4 DEF ChooseToken, Authorize, Goto
<1>5. CASE OboAnswers(o) \/ IntegrationAnswers(o)
  BY <1>5 DEF OboAnswers, IntegrationAnswers, Authorize, Goto
<1>6. CASE OboFails(o) \/ IntegrationFails(o)
  BY <1>6 DEF OboFails, IntegrationFails, Goto
<1>7. CASE Send(o) \/ Caught(o) \/ End(o) \/ NextProbe(o)
  BY <1>7 DEF Send, Caught, End, NextProbe, Goto
<1>8. ~BeginCall(o)
  BY DEF BeginCall
<1> QED
  BY <1>4, <1>5, <1>6, <1>7, <1>8 DEF Step

\* Every reachable state satisfies the invariant of the calls.
THEOREM CallsInductive == CallsSpec => []CallsIInv
<1>1. ASSUME CallsIInv, [CallsNext]_callVars PROVE CallsIInv'
  <2>1. CallsTypeOK'
    BY <1>1, CallsTyping DEF CallsIInv
  <2>2. CASE UNCHANGED callVars
    BY <1>1, <2>1, <2>2 DEF CallsIInv, ClientOwn, ValidateOwn, Own, callVars,
       HeaderOf, OboOf
  <2>3. ASSUME NEW o \in Ops, Step(o) PROVE CallsIInv'
    <3>1. ClientOwn(o)' /\ ValidateOwn(o)'
      BY <1>1, <2>3, ClientKeeps, ValidateKeeps DEF CallsIInv
    <3>2. ASSUME NEW p \in Ops \ {o} PROVE ClientOwn(p)' /\ ValidateOwn(p)'
      BY <1>1, <2>3, <3>2, OneOperation
         DEF CallsIInv, ClientOwn, ValidateOwn, Own, HeaderOf, OboOf
    <3> QED
      BY <2>1, <3>1, <3>2 DEF CallsIInv
  <2> QED
    BY <1>1, <2>2, <2>3 DEF CallsNext
<1> QED
  BY <1>1, CallsStart, PTL DEF CallsSpec

\* The calls of every operation stay within their types and their bound.
THEOREM CallsTypeCorrect == CallsSpec => []CallsTypeOK
BY CallsInductive, PTL DEF CallsIInv

\* When a caller's token is required, every call of an operation of the client is
\* made under one identity, the caller's, for any number of calls, failed
\* exchanges and operations.
THEOREM CallerIdentity == CallsSpec => []CallerIdentityWhenRequired
<1>1. CallsIInv => CallerIdentityWhenRequired
  BY DEF CallsIInv, ClientOwn, Own, CallerIdentityWhenRequired, ClientOps
<1> QED
  BY <1>1, CallsInductive, PTL

\* validate_servicenow_configuration makes all its calls with the token it chose.
THEOREM OneTokenEach == CallsSpec => []OneTokenPerValidation
<1>1. CallsIInv => OneTokenPerValidation
  <2>1. SUFFICES ASSUME CallsIInv, NEW o \in Ops, kind[o] # "client"
                 PROVE  Cardinality(used[o]) <= 1
    BY DEF OneTokenPerValidation, ClientOps
  <2>2. used[o] \subseteq {bearer[o]}
    BY <2>1 DEF CallsIInv, ValidateOwn
  <2>3. IsFiniteSet({bearer[o]}) /\ Cardinality({bearer[o]}) = 1
    BY FS_Singleton
  <2> QED
    BY <2>2, <2>3, FS_Subset, FS_CardinalityType
<1> QED
  BY <1>1, CallsInductive, PTL
=============================================================================
