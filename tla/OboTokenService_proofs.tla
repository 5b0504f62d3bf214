----------------------- MODULE OboTokenService_proofs -----------------------
(***************************************************************************)
(* Proofs about OboTokenService for any sets of callers and users, any     *)
(* lifetimes and any latency of an exchange.  The inductive invariant      *)
(* follows a user's identity: from the call to the exchange it started,    *)
(* from there to the token, the cache entry and the answers of the calls   *)
(* that joined.                                                            *)
(***************************************************************************)
EXTENDS OboTokenService, TLAPS

\* The call that started an exchange under way waits for it, and the exchange has
\* the key of the user it is for, or none.
OwnInv ==
  \A c \in Callers : exch[c].stage # "idle" =>
    /\ pc[c] = "waiting" /\ joined[c] = c
    /\ user[c] \in Users /\ exch[c].key \in {user[c], None}

\* A call that waits does so for an exchange under way on behalf of its own user:
\* one it started or one it found under the user's key.
WaitInv ==
  \A c \in Callers : pc[c] = "waiting" =>
    /\ joined[c] \in Callers
    /\ exch[joined[c]].stage # "idle"
    /\ user[joined[c]] = user[c]

\* A token issued to an exchange is that of the user whose assertion it carried.
IssuedInv ==
  \A c \in Callers : exch[c].stage \in {"issued", "resolved"} =>
    exch[c].token \in Token /\ exch[c].token.owner = user[c]

IInv ==
  /\ TypeOK /\ FlightsArePublished /\ OwnInv /\ WaitInv /\ IssuedInv
  /\ TokensAreTheCallersOwn

-----------------------------------------------------------------------------
\* What Entra's answer adds to the exchange it is for.
LEMMA Issuing ==
  ASSUME TypeOK, OwnInv, NEW c \in Callers, EntraIssues(c)
  PROVE  \E life \in Lifetimes :
           /\ exch' \in [Callers -> Exch]
           /\ \A d \in Callers \ {c} : exch'[d] = exch[d]
           /\ exch[c].stage = "sent" /\ exch'[c].stage = "issued"
           /\ exch'[c].key = exch[c].key /\ exch'[c].sentAt = exch[c].sentAt
           /\ exch'[c].expiresOn \in {exch[c].sentAt + life, None}
           /\ exch'[c].token \in Token
           /\ exch'[c].token.owner = user[c] /\ exch'[c].token.validUntil = now + life
<1>1. PICK life \in Lifetimes : \E exp \in {exch[c].sentAt + life, None} :
        exch' = [exch EXCEPT ![c] = [@ EXCEPT !.stage = "issued", !.expiresOn = exp,
                  !.token = [owner |-> user[c], validUntil |-> now + life]]]
  BY DEF EntraIssues
<1>2. PICK exp \in {exch[c].sentAt + life, None} :
        exch' = [exch EXCEPT ![c] = [@ EXCEPT !.stage = "issued", !.expiresOn = exp,
                  !.token = [owner |-> user[c], validUntil |-> now + life]]]
  BY <1>1
<1> DEFINE t == [owner |-> user[c], validUntil |-> now + life]
<1>3. exch[c].stage = "sent" /\ exch[c] \in Exch
  BY DEF EntraIssues, TypeOK
<1>4. t \in Token
  BY <1>3, LifetimesAssumption DEF TypeOK, Token, OwnInv
<1>5. exp \in Nat \cup {None}
  BY <1>3, LifetimesAssumption DEF Exch
<1>6. [exch[c] EXCEPT !.stage = "issued", !.expiresOn = exp, !.token = t] \in Exch
  BY <1>3, <1>4, <1>5 DEF Exch
<1>7. exch' \in [Callers -> Exch]
  BY <1>2, <1>6 DEF TypeOK
<1>8. exch'[c] = [exch[c] EXCEPT !.stage = "issued", !.expiresOn = exp, !.token = t]
  BY <1>2 DEF TypeOK
<1>9. /\ exch'[c].stage = "issued" /\ exch'[c].key = exch[c].key
      /\ exch'[c].sentAt = exch[c].sentAt /\ exch'[c].expiresOn = exp
      /\ exch'[c].token = t
  BY <1>3, <1>8 DEF Exch
<1>10. \A d \in Callers \ {c} : exch'[d] = exch[d]
  BY <1>2 DEF TypeOK
<1> QED
  BY <1>3, <1>4, <1>7, <1>9, <1>10

\* Type correctness of the cache, the table and every exchange.
LEMMA Typing == ASSUME TypeOK, OwnInv, IssuedInv, [Next]_vars PROVE TypeOK'
<1> USE NoneAssumption, LifetimesAssumption
<1>1. ASSUME NEW c \in Callers, NEW u \in Users, Refuse(c, u) PROVE TypeOK'
  BY <1>1 DEF TypeOK, Refuse
<1>2. ASSUME NEW c \in Callers, NEW u \in Users, UseCached(c, u) PROVE TypeOK'
  <2>1. cacheByOid[u].token \in Token
    BY <1>2 DEF TypeOK, UseCached, isCacheHit, CachedToken
  <2> QED
    BY <1>2, <2>1 DEF TypeOK, UseCached
<1>3. ASSUME NEW c \in Callers, NEW u \in Users, Join(c, u) PROVE TypeOK'
  BY <1>3 DEF TypeOK, Join
<1>4. ASSUME NEW c \in Callers, NEW u \in Users, NEW k \in Keys, Exchange(c, u, k),
             inFlight' \in [Users -> Callers \cup {None}]
      PROVE  TypeOK'
  <2>1. NewExch("sent", k, now) \in Exch
    BY DEF TypeOK, NewExch, Exch
  <2> QED
    BY <1>4, <2>1 DEF TypeOK, Exchange
<1>5. ASSUME NEW c \in Callers, NEW u \in Users, StartKeyed(c, u) \/ StartUnkeyed(c, u)
      PROVE  TypeOK'
  BY <1>4, <1>5 DEF TypeOK, StartKeyed, StartUnkeyed, Keys
<1>6. ASSUME NEW c \in Callers, EntraIssues(c) PROVE TypeOK'
  BY <1>6, Issuing DEF TypeOK, EntraIssues
<1>7. ASSUME NEW c \in Callers, ReplyArrives(c) PROVE TypeOK'
  <2>1. exch' \in [Callers -> Exch]
    BY <1>7 DEF TypeOK, Exch, ReplyArrives
  <2>2. exch[c].token \in Token /\ exch[c].expiresOn \in Nat \cup {None}
    BY <1>7 DEF TypeOK, Exch, ReplyArrives, IssuedInv
  <2>3. CacheUntil(exch[c].expiresOn) \in Nat
    BY <2>2 DEF TypeOK, CacheUntil, Margin, Floor, NoExpiry
  <2>4. cacheByOid' \in [Users -> CachedToken \cup {None}]
    BY <1>7, <2>2, <2>3 DEF TypeOK, ReplyArrives, CachedToken
  <2> QED
    BY <1>7, <2>1, <2>4 DEF TypeOK, ReplyArrives
<1>8. ASSUME NEW c \in Callers, ExchangeFails(c) PROVE TypeOK'
  BY <1>8 DEF TypeOK, Exch, ExchangeFails
<1>9. ASSUME NEW c \in Callers, Finally(c) PROVE TypeOK'
  <2>1. NoExch \in Exch
    BY DEF NoExch, NewExch, Exch, Keys
  <2>2. exch[c].stage = "resolved" => exch[c].token \in Token
    BY DEF IssuedInv
  <2> QED
    BY <1>9, <2>1, <2>2 DEF TypeOK, Finally, SettleWaiters
<1>10. ASSUME NEW c \in Callers, Resume(c) PROVE TypeOK'
  BY <1>10 DEF TypeOK, Resume
<1>11. CASE Tick
  BY <1>11 DEF TypeOK, Tick
<1>12. CASE UNCHANGED vars
  BY <1>12 DEF TypeOK, vars
<1> QED
  BY <1>1, <1>2, <1>3, <1>5, <1>6, <1>7, <1>8, <1>9, <1>10, <1>11, <1>12
     DEF Next, getDownstreamTokenForCaller

\* What a step of an exchange leaves alone: who it is for and who waits for it.
LEMMA SameFlight ==
  ASSUME TypeOK, FlightsArePublished, OwnInv, WaitInv, UNCHANGED <<inFlight, pc, user, joined>>,
         \A c \in Callers : /\ exch'[c].key = exch[c].key
                            /\ exch'[c].stage # "idle" <=> exch[c].stage # "idle"
  PROVE  FlightsArePublished' /\ OwnInv' /\ WaitInv'
<1>1. FlightsArePublished'
  BY DEF FlightsArePublished
<1>2. OwnInv'
  BY DEF OwnInv
<1>3. WaitInv'
  BY DEF WaitInv
<1> QED
  BY <1>1, <1>2, <1>3

\* An exchange begins, under a key that is free or none.
LEMMA ExchangeStep ==
  ASSUME TypeOK, FlightsArePublished, OwnInv, WaitInv,
         NEW c \in Callers, NEW u \in Users, StartKeyed(c, u) \/ StartUnkeyed(c, u)
  PROVE  FlightsArePublished' /\ OwnInv' /\ WaitInv'
<1> USE NoneAssumption
<1>1. PICK k \in {u, None} :
        /\ Exchange(c, u, k) /\ pc[c] = "idle"
        /\ IF k = None THEN inFlight' = inFlight
           ELSE inFlight[k] = None /\ inFlight' = [inFlight EXCEPT ![k] = c]
  BY DEF StartKeyed, StartUnkeyed
<1>2. exch[c].stage = "idle"
  BY <1>1 DEF OwnInv
<1>3. /\ exch'[c].stage = "sent" /\ exch'[c].key = k
      /\ pc'[c] = "waiting" /\ user'[c] = u /\ joined'[c] = c
  BY <1>1 DEF TypeOK, Exchange, NewExch
<1>4. \A d \in Callers \ {c} : exch'[d] = exch[d] /\ pc'[d] = pc[d] /\ user'[d] = user[d]
                               /\ joined'[d] = joined[d]
  BY <1>1 DEF TypeOK, Exchange
<1>5. OwnInv'
  BY <1>3, <1>4 DEF OwnInv
<1>6. WaitInv'
  <2> SUFFICES ASSUME NEW d \in Callers \ {c}, pc[d] = "waiting"
               PROVE  /\ joined[d] \in Callers /\ joined[d] # c
                      /\ exch'[joined[d]].stage # "idle" /\ user'[joined[d]] = user[d]
    BY <1>3, <1>4 DEF WaitInv
  <2> QED
    BY <1>2, <1>4 DEF WaitInv
<1>7. FlightsArePublished'
  <2> SUFFICES ASSUME NEW d \in Callers, NEW v \in Users
               PROVE  (exch'[d].stage # "idle" /\ exch'[d].key = v) <=> inFlight'[v] = d
    BY DEF FlightsArePublished
  <2>1. k = v => inFlight[v] = None /\ inFlight'[v] = c
    BY <1>1 DEF TypeOK
  <2>2. k # v => inFlight'[v] = inFlight[v]
    BY <1>1 DEF TypeOK
  <2>3. (exch[d].stage # "idle" /\ exch[d].key = v) <=> inFlight[v] = d
    BY DEF FlightsArePublished
  <2> QED
    BY <1>2, <1>3, <1>4, <2>1, <2>2, <2>3
<1> QED
  BY <1>5, <1>6, <1>7

\* The end of an exchange frees its own key and answers all who waited for it.
LEMMA FinallyStep ==
  ASSUME TypeOK, FlightsArePublished, OwnInv, WaitInv, NEW c \in Callers, Finally(c)
  PROVE  FlightsArePublished' /\ OwnInv' /\ WaitInv'
<1> USE NoneAssumption
<1>1. exch[c].stage # "idle" /\ exch'[c].stage = "idle" /\ exch'[c].key = None
      /\ \A d \in Callers \ {c} : exch'[d] = exch[d]
  BY DEF Finally, PromiseSettled, NoExch, NewExch, TypeOK
<1>2. \A d \in Callers : /\ pc'[d] = "waiting" <=> pc[d] = "waiting" /\ joined[d] # c
                         /\ pc'[d] = "waiting" => joined'[d] = joined[d]
                         /\ user'[d] = user[d]
  BY DEF Finally, SettleWaiters, Waiters
<1>3. FlightsArePublished'
  <2> SUFFICES ASSUME NEW d \in Callers, NEW v \in Users
               PROVE  (exch'[d].stage # "idle" /\ exch'[d].key = v) <=> inFlight'[v] = d
    BY DEF FlightsArePublished
  <2>1. inFlight'[v] = IF v = exch[c].key THEN None ELSE inFlight[v]
    BY DEF Finally
  <2>2. (exch[d].stage # "idle" /\ exch[d].key = v) <=> inFlight[v] = d
    BY DEF FlightsArePublished
  <2>3. v = exch[c].key => inFlight[v] = c
    BY <1>1 DEF FlightsArePublished
  <2>4. v # exch[c].key => inFlight[v] # c
    BY DEF FlightsArePublished
  <2> QED
    BY <1>1, <2>1, <2>2, <2>3, <2>4
<1>4. OwnInv'
  BY <1>1, <1>2 DEF OwnInv
<1>5. WaitInv'
  BY <1>1, <1>2 DEF WaitInv
<1> QED
  BY <1>3, <1>4, <1>5

\* The flights, their owners and the calls that wait, over any step.
LEMMA FlightStep ==
  ASSUME TypeOK, FlightsArePublished, OwnInv, WaitInv, [Next]_vars
  PROVE  FlightsArePublished' /\ OwnInv' /\ WaitInv'
<1> DEFINE Goal == FlightsArePublished' /\ OwnInv' /\ WaitInv'
<1>1. ASSUME NEW c \in Callers, NEW u \in Users, Refuse(c, u) \/ UseCached(c, u) PROVE Goal
  <2>1. \A d \in Callers : pc[d] = "waiting" => pc'[d] = "waiting" /\ user'[d] = user[d] /\ d # c
    BY <1>1 DEF Refuse, UseCached, TypeOK
  <2>2. \A d \in Callers : pc'[d] = "waiting" => pc[d] = "waiting"
    BY <1>1 DEF Refuse, UseCached, TypeOK
  <2>3. UNCHANGED <<inFlight, exch, joined>>
    BY <1>1 DEF Refuse, UseCached
  <2>4. FlightsArePublished'
    BY <2>3 DEF FlightsArePublished
  <2>5. OwnInv'
    BY <2>1, <2>3 DEF OwnInv
  <2>6. WaitInv'
    BY <2>1, <2>2, <2>3 DEF WaitInv, OwnInv
  <2> QED
    BY <2>4, <2>5, <2>6
<1>2. ASSUME NEW c \in Callers, NEW u \in Users, Join(c, u) PROVE Goal
  <2> DEFINE f == inFlight[u]
  <2>1. f \in Callers /\ exch[f].stage # "idle" /\ exch[f].key = u
    BY <1>2 DEF Join, TypeOK, FlightsArePublished
  <2>2. user[f] = u /\ pc[f] = "waiting" /\ f # c
    BY <1>2, <2>1, NoneAssumption DEF Join, OwnInv
  <2>3. pc'[c] = "waiting" /\ user'[c] = u /\ joined'[c] = f
    BY <1>2 DEF Join, TypeOK
  <2>4. \A d \in Callers \ {c} : pc'[d] = pc[d] /\ user'[d] = user[d] /\ joined'[d] = joined[d]
    BY <1>2 DEF Join, TypeOK
  <2>5. exch[c].stage = "idle" /\ UNCHANGED <<inFlight, exch>>
    BY <1>2 DEF Join, OwnInv
  <2>6. FlightsArePublished'
    BY <2>5 DEF FlightsArePublished
  <2>7. OwnInv'
    BY <2>4, <2>5 DEF OwnInv
  <2>8. WaitInv'
    BY <2>1, <2>2, <2>3, <2>4, <2>5 DEF WaitInv
  <2> QED
    BY <2>6, <2>7, <2>8
<1>3. ASSUME NEW c \in Callers, NEW u \in Users, StartKeyed(c, u) \/ StartUnkeyed(c, u)
      PROVE  Goal
  BY <1>3, ExchangeStep
<1>4. ASSUME NEW c \in Callers, EntraIssues(c) PROVE Goal
  <2>1. \A d \in Callers : /\ exch'[d].key = exch[d].key
                           /\ exch'[d].stage # "idle" <=> exch[d].stage # "idle"
    BY <1>4, Issuing
  <2> QED
    BY <1>4, <2>1, SameFlight DEF EntraIssues
<1>5. ASSUME NEW c \in Callers, ReplyArrives(c) \/ ExchangeFails(c) PROVE Goal
  <2>1. \A d \in Callers : /\ exch'[d].key = exch[d].key
                           /\ exch'[d].stage # "idle" <=> exch[d].stage # "idle"
    <3>1. exch[c] \in Exch /\ exch[c].stage # "idle"
      BY <1>5 DEF ReplyArrives, ExchangeFails, OnTheWire, TypeOK
    <3>2. \/ exch' = [exch EXCEPT ![c] = [@ EXCEPT !.stage = "resolved"]]
          \/ exch' = [exch EXCEPT ![c] = [@ EXCEPT !.stage = "rejected"]]
      BY <1>5 DEF ReplyArrives, ExchangeFails
    <3> QED
      BY <3>1, <3>2 DEF TypeOK, Exch
  <2> QED
    BY <1>5, <2>1, SameFlight DEF ReplyArrives, ExchangeFails
<1>6. ASSUME NEW c \in Callers, Finally(c) PROVE Goal
  BY <1>6, FinallyStep
<1>7. ASSUME NEW c \in Callers, Resume(c) PROVE Goal
  <2>1. \A d \in Callers : pc[d] = "waiting" => pc'[d] = "waiting" /\ user'[d] = user[d] /\ d # c
    BY <1>7 DEF Resume, TypeOK
  <2>2. \A d \in Callers : pc'[d] = "waiting" => pc[d] = "waiting"
    BY <1>7 DEF Resume, TypeOK
  <2>3. UNCHANGED <<inFlight, exch, joined>>
    BY <1>7 DEF Resume
  <2>4. FlightsArePublished'
    BY <2>3 DEF FlightsArePublished
  <2>5. OwnInv'
    BY <2>1, <2>3 DEF OwnInv
  <2>6. WaitInv'
    BY <2>1, <2>2, <2>3 DEF WaitInv, OwnInv
  <2> QED
    BY <2>4, <2>5, <2>6
<1>8. CASE Tick
  BY <1>8, SameFlight DEF Tick
<1>9. CASE UNCHANGED vars
  BY <1>9, SameFlight DEF vars
<1> QED
  BY <1>1, <1>2, <1>3, <1>4, <1>5, <1>6, <1>7, <1>8, <1>9
     DEF Next, getDownstreamTokenForCaller

\* Whose a token is, from its issuing to the cache and to the answers.
LEMMA OwnerStep ==
  ASSUME TypeOK, OwnInv, WaitInv, IssuedInv, TokensAreTheCallersOwn, [Next]_vars
  PROVE  IssuedInv' /\ TokensAreTheCallersOwn'
<1> DEFINE Goal == IssuedInv' /\ TokensAreTheCallersOwn'
<1> USE DEF IssuedInv, TokensAreTheCallersOwn
<1>1. ASSUME NEW c \in Callers, NEW u \in Users, Refuse(c, u) PROVE Goal
  BY <1>1 DEF Refuse, TypeOK, OwnInv
<1>2. ASSUME NEW c \in Callers, NEW u \in Users, UseCached(c, u) PROVE Goal
  BY <1>2 DEF UseCached, isCacheHit, TypeOK, OwnInv
<1>3. ASSUME NEW c \in Callers, NEW u \in Users, Join(c, u) PROVE Goal
  BY <1>3 DEF Join, TypeOK, OwnInv
<1>4. ASSUME NEW c \in Callers, NEW u \in Users, NEW k \in Keys, Exchange(c, u, k) PROVE Goal
  <2>1. exch'[c].stage = "sent" /\ pc'[c] = "waiting"
    BY <1>4 DEF Exchange, NewExch, TypeOK
  <2>2. \A d \in Callers \ {c} : exch'[d] = exch[d] /\ pc'[d] = pc[d] /\ user'[d] = user[d]
    BY <1>4 DEF Exchange, TypeOK
  <2> QED
    BY <1>4, <2>1, <2>2 DEF Exchange
<1>5. ASSUME NEW c \in Callers, NEW u \in Users, StartKeyed(c, u) \/ StartUnkeyed(c, u)
      PROVE  Goal
  BY <1>4, <1>5 DEF StartKeyed, StartUnkeyed, Keys
<1>6. ASSUME NEW c \in Callers, EntraIssues(c) PROVE Goal
  <2>1. exch'[c].token \in Token /\ exch'[c].token.owner = user[c]
    BY <1>6, Issuing
  <2>2. \A d \in Callers \ {c} : exch'[d] = exch[d]
    BY <1>6, Issuing
  <2> QED
    BY <1>6, <2>1, <2>2 DEF EntraIssues
<1>7. ASSUME NEW c \in Callers, ReplyArrives(c) PROVE Goal
  <2>1. exch[c].token.owner = user[c] /\ exch[c].key \in {user[c], None}
    BY <1>7 DEF ReplyArrives, OwnInv
  <2>2. \A u \in Users : u = exch[c].key =>
          cacheByOid'[u].token = exch[c].token /\ exch[c].token.owner = u
    BY <1>7, <2>1, NoneAssumption DEF ReplyArrives
  <2>3. \A u \in Users : u # exch[c].key => cacheByOid'[u] = cacheByOid[u]
    BY <1>7 DEF ReplyArrives
  <2>4. IssuedInv'
    BY <1>7 DEF ReplyArrives, TypeOK, Exch
  <2> QED
    BY <1>7, <2>2, <2>3, <2>4 DEF ReplyArrives
<1>8. ASSUME NEW c \in Callers, ExchangeFails(c) PROVE Goal
  BY <1>8 DEF ExchangeFails, TypeOK, Exch
<1>9. ASSUME NEW c \in Callers, Finally(c) PROVE Goal
  <2>1. IssuedInv'
    BY <1>9 DEF Finally, NoExch, NewExch, TypeOK
  <2>2. \A d \in Callers : pc'[d] = "done" =>
          \/ pc[d] = "done" /\ answer'[d] = answer[d]
          \/ answer'[d] = Failed
          \/ /\ exch[c].stage = "resolved" /\ answer'[d] = exch[c].token
             /\ pc[d] = "waiting" /\ joined[d] = c
    BY <1>9 DEF Finally, SettleWaiters, Waiters
  <2>3. \A d \in Callers : pc[d] = "waiting" /\ joined[d] = c => user[d] = user[c]
    BY DEF WaitInv
  <2> QED
    BY <1>9, <2>1, <2>2, <2>3 DEF Finally
<1>10. ASSUME NEW c \in Callers, Resume(c) PROVE Goal
  BY <1>10 DEF Resume, TypeOK, OwnInv
<1>11. CASE Tick
  BY <1>11 DEF Tick
<1>12. CASE UNCHANGED vars
  BY <1>12 DEF vars
<1> QED
  BY <1>1, <1>2, <1>3, <1>5, <1>6, <1>7, <1>8, <1>9, <1>10, <1>11, <1>12
     DEF Next, getDownstreamTokenForCaller

\* The inductive invariant holds initially and is preserved by every step.
THEOREM Inductive == Spec => []IInv
<1>1. Init => IInv
  <2> SUFFICES ASSUME Init PROVE IInv
    OBVIOUS
  <2>1. NoExch \in Exch
    BY DEF NoExch, NewExch, Exch, Keys
  <2>2. TypeOK
    BY <2>1 DEF Init, TypeOK
  <2>3. \A c \in Callers : exch[c].stage = "idle"
    BY DEF Init, NoExch, NewExch
  <2>4. FlightsArePublished
    BY <2>3, NoneAssumption DEF Init, FlightsArePublished
  <2> QED
    BY <2>2, <2>3, <2>4 DEF Init, IInv, OwnInv, WaitInv, IssuedInv, TokensAreTheCallersOwn
<1>2. IInv /\ [Next]_vars => IInv'
  BY Typing, FlightStep, OwnerStep DEF IInv
<1> QED
  BY <1>1, <1>2, PTL DEF Spec

\* The types of the cache, the exchanges and the calls hold for any instance.
THEOREM TypeCorrect == Spec => []TypeOK
<1>1. IInv => TypeOK
  BY DEF IInv
<1> QED
  BY <1>1, Inductive, PTL

\* The table of exchanges in flight names exactly those under way with a key: at
\* most one per user, and none that has ended.
THEOREM FlightsAreKept == Spec => []FlightsArePublished
<1>1. IInv => FlightsArePublished
  BY DEF IInv
<1> QED
  BY <1>1, Inductive, PTL

\* However calls of different users overlap, with and without an oid, nobody is
\* answered with the token of another user, from the cache or by joining.
THEOREM TokensAreKeptApart == Spec => []TokensAreTheCallersOwn
<1>1. IInv => TokensAreTheCallersOwn
  BY DEF IInv
<1> QED
  BY <1>1, Inductive, PTL

\* No call waits for an exchange that has ended, or for one of another user.
THEOREM NobodyWaitsInVain == Spec => []WaitInv
<1>1. IInv => WaitInv
  BY DEF IInv
<1> QED
  BY <1>1, Inductive, PTL

-----------------------------------------------------------------------------
\* An exchange under way takes no longer than it may.
ClockInv ==
  \A c \in Callers : exch[c].stage # "idle" =>
    exch[c].sentAt <= now /\ now <= exch[c].sentAt + MaxLatency

\* A token lives on from its issuing; what MSAL says of its expiry errs on the
\* early side.
LifeInv ==
  \A c \in Callers : exch[c].stage \in {"issued", "resolved"} =>
    \E life \in Lifetimes :
      /\ exch[c].token.validUntil >= exch[c].sentAt + life
      /\ exch[c].expiresOn \in {exch[c].sentAt + life, None}

\* A cached token is good for the margin at every moment before it leaves the cache.
CacheWorth ==
  \A u \in Users : cacheByOid[u] # None =>
    cacheByOid[u].token.validUntil + 1 >= cacheByOid[u].expiresAt + Margin

\* An answer is good for the margin when it is given.
AnswerWorth ==
  \A c \in Callers : pc[c] = "done" /\ answer[c] # Failed =>
    answer[c].validUntil >= now + Margin

TimeInv == ClockInv /\ LifeInv
FreshInv == CacheWorth /\ AnswerWorth

\* Every lifetime leaves room for the margin and the floor after the slowest
\* exchange (a cached token is served before its entry expires, not at that moment).
LongLived == \A life \in Lifetimes : life + 1 >= Margin + Floor + MaxLatency

\* The times of the exchanges under way.
LEMMA TimeStep ==
  ASSUME IInv, TimeInv, [Next]_vars
  PROVE  TimeInv'
<1> USE LatencyAssumption, LifetimesAssumption DEF TimeInv, ClockInv, LifeInv
<1> DEFINE SameTimes(c) ==
      /\ exch'[c].stage # "idle" => exch[c].stage # "idle" /\ exch'[c].sentAt = exch[c].sentAt
      /\ exch'[c].stage \in {"issued", "resolved"} =>
           /\ exch[c].stage \in {"issued", "resolved"}
           /\ exch'[c].token = exch[c].token /\ exch'[c].expiresOn = exch[c].expiresOn
<1>0. ASSUME now' = now, \A c \in Callers : SameTimes(c) PROVE TimeInv'
  BY <1>0
<1>1. ASSUME NEW c \in Callers, NEW u \in Users, Refuse(c, u) \/ UseCached(c, u) \/ Join(c, u)
      PROVE  TimeInv'
  BY <1>1, <1>0 DEF Refuse, UseCached, Join
<1>2. ASSUME NEW c \in Callers, NEW u \in Users, StartKeyed(c, u) \/ StartUnkeyed(c, u)
      PROVE  TimeInv'
  <2>1. now' = now /\ exch'[c].stage = "sent" /\ exch'[c].sentAt = now
        /\ \A d \in Callers \ {c} : exch'[d] = exch[d]
    BY <1>2 DEF StartKeyed, StartUnkeyed, Exchange, NewExch, IInv, TypeOK
  <2>2. now \in Nat
    BY DEF IInv, TypeOK
  <2> QED
    BY <2>1, <2>2
<1>3. ASSUME NEW c \in Callers, EntraIssues(c) PROVE TimeInv'
  <2>1. PICK life \in Lifetimes :
          /\ \A d \in Callers \ {c} : exch'[d] = exch[d]
          /\ exch[c].stage = "sent" /\ exch'[c].sentAt = exch[c].sentAt
          /\ exch'[c].expiresOn \in {exch[c].sentAt + life, None}
          /\ exch'[c].token.validUntil = now + life
    BY <1>3, Issuing DEF IInv
  <2>2. now' = now
    BY <1>3 DEF EntraIssues
  <2>3. exch[c].sentAt \in Nat /\ now \in Nat /\ life \in Nat
    BY DEF IInv, TypeOK, Exch
  <2>4. exch[c].sentAt <= now /\ now <= exch[c].sentAt + MaxLatency
    BY <2>1
  <2>5. ClockInv'
    BY <2>1, <2>2, <2>4
  <2>6. exch'[c].token.validUntil >= exch'[c].sentAt + life
    BY <2>1, <2>3, <2>4
  <2>7. LifeInv'
    BY <2>1, <2>6
  <2> QED
    BY <2>5, <2>7
<1>4. ASSUME NEW c \in Callers, ReplyArrives(c) \/ ExchangeFails(c) PROVE TimeInv'
  <2>1. exch[c] \in Exch /\ exch[c].stage # "idle" /\ now' = now
    BY <1>4 DEF ReplyArrives, ExchangeFails, OnTheWire, IInv, TypeOK
  <2>2. \/ /\ exch[c].stage = "issued"
           /\ exch' = [exch EXCEPT ![c] = [@ EXCEPT !.stage = "resolved"]]
        \/ exch' = [exch EXCEPT ![c] = [@ EXCEPT !.stage = "rejected"]]
    BY <1>4 DEF ReplyArrives, ExchangeFails
  <2>3. \A d \in Callers : SameTimes(d)
    BY <2>1, <2>2 DEF IInv, TypeOK, Exch
  <2> QED
    BY <2>1, <2>3, <1>0
<1>5. ASSUME NEW c \in Callers, Finally(c) PROVE TimeInv'
  BY <1>5, <1>0 DEF Finally, NoExch, NewExch, IInv, TypeOK
<1>6. ASSUME NEW c \in Callers, Resume(c) PROVE TimeInv'
  BY <1>6, <1>0 DEF Resume
<1>7. CASE Tick
  <2>1. exch' = exch /\ now' = now + 1
        /\ \A c \in Callers : OnTheWire(c) => now < exch[c].sentAt + MaxLatency
    BY <1>7 DEF Tick
  <2>2. \A c \in Callers : exch[c].stage # "idle" => OnTheWire(c)
    BY <1>7 DEF Tick, PromiseSettled, OnTheWire, IInv, TypeOK, Exch
  <2>3. now \in Nat /\ \A c \in Callers : exch[c].sentAt \in Nat
    BY DEF IInv, TypeOK, Exch
  <2> QED
    BY <2>1, <2>2, <2>3
<1>8. CASE UNCHANGED vars
  BY <1>8, <1>0 DEF vars
<1> QED
  BY <1>1, <1>2, <1>3, <1>4, <1>5, <1>6, <1>7, <1>8 DEF Next, getDownstreamTokenForCaller

\* What a token that has just arrived, or is handed out, is still worth.
LEMMA ArrivedToken ==
  ASSUME LongLived, IInv, TimeInv, NEW c \in Callers, exch[c].stage \in {"issued", "resolved"}
  PROVE  /\ exch[c].token.validUntil \in Nat /\ now \in Nat
         /\ exch[c].token.validUntil + 1 >= now + Floor + Margin
         /\ exch[c].token.validUntil + 1 >= CacheUntil(exch[c].expiresOn) + Margin
<1> DEFINE e == exch[c]
<1> USE DEF Margin, Floor, NoExpiry
<1>1. PICK life \in Lifetimes : /\ e.token.validUntil >= e.sentAt + life
                                /\ e.expiresOn \in {e.sentAt + life, None}
  BY DEF TimeInv, LifeInv
<1>2. now <= e.sentAt + MaxLatency
  BY DEF TimeInv, ClockInv
<1>3. /\ e.token.validUntil \in Nat /\ now \in Nat /\ e.sentAt \in Nat /\ life \in Nat
      /\ MaxLatency \in Nat
  BY LifetimesAssumption, LatencyAssumption DEF IInv, IssuedInv, TypeOK, Exch, Token
<1>4. life + 1 >= 6 + MaxLatency
  BY DEF LongLived
<1>5. e.token.validUntil + 1 >= now + 6
  BY <1>1, <1>2, <1>3, <1>4
<1>6. CASE e.expiresOn = None
  <2>1. CacheUntil(e.expiresOn) = now + 3
    BY <1>3, <1>6 DEF CacheUntil
  <2> QED
    BY <1>3, <1>5, <2>1
<1>7. CASE e.expiresOn # None
  <2>1. e.expiresOn = e.sentAt + life
    BY <1>1, <1>7
  <2>2. CacheUntil(e.expiresOn) = IF (e.sentAt + life) - 3 > now + 3 THEN (e.sentAt + life) - 3
                                  ELSE now + 3
    BY <1>7, <2>1 DEF CacheUntil
  <2> QED
    BY <1>1, <1>3, <1>5, <2>2
<1> QED
  BY <1>6, <1>7

\* Freshness is preserved by every step.
LEMMA FreshStep ==
  ASSUME LongLived, IInv, TimeInv, FreshInv, [Next]_vars
  PROVE  FreshInv'
<1> USE DEF FreshInv, CacheWorth, AnswerWorth, Margin
<1>0. now \in Nat /\ \A u \in Users : cacheByOid[u] # None =>
        cacheByOid[u].token.validUntil \in Nat /\ cacheByOid[u].expiresAt \in Nat
  BY DEF IInv, TypeOK, CachedToken, Token
<1>1. ASSUME NEW c \in Callers, NEW u \in Users, Refuse(c, u) PROVE FreshInv'
  BY <1>1 DEF Refuse, IInv, TypeOK
<1>2. ASSUME NEW c \in Callers, NEW u \in Users, UseCached(c, u) PROVE FreshInv'
  <2>1. cacheByOid[u].token.validUntil >= now + 3
    BY <1>0, <1>2 DEF UseCached, isCacheHit
  <2> QED
    BY <1>2, <2>1 DEF UseCached, IInv, TypeOK
<1>3. ASSUME NEW c \in Callers, NEW u \in Users, Join(c, u) PROVE FreshInv'
  BY <1>3 DEF Join, IInv, TypeOK
<1>4. ASSUME NEW c \in Callers, NEW u \in Users, StartKeyed(c, u) \/ StartUnkeyed(c, u)
      PROVE  FreshInv'
  BY <1>4 DEF StartKeyed, StartUnkeyed, Exchange, IInv, TypeOK
<1>5. ASSUME NEW c \in Callers, EntraIssues(c) PROVE FreshInv'
  BY <1>5 DEF EntraIssues
<1>6. ASSUME NEW c \in Callers, ReplyArrives(c) PROVE FreshInv'
  <2>1. exch[c].token.validUntil + 1 >= CacheUntil(exch[c].expiresOn) + 3
    BY <1>6, ArrivedToken DEF ReplyArrives
  <2>2. \A u \in Users : cacheByOid'[u] = cacheByOid[u] \/
          /\ cacheByOid'[u].token = exch[c].token
          /\ cacheByOid'[u].expiresAt = CacheUntil(exch[c].expiresOn)
    BY <1>6 DEF ReplyArrives
  <2>3. CacheWorth'
    BY <2>1, <2>2
  <2> QED
    BY <1>6, <2>3 DEF ReplyArrives
<1>7. ASSUME NEW c \in Callers, ExchangeFails(c) PROVE FreshInv'
  BY <1>7 DEF ExchangeFails
<1>8. ASSUME NEW c \in Callers, Finally(c) PROVE FreshInv'
  <2>1. exch[c].stage = "resolved" => exch[c].token.validUntil >= now + 3
    BY ArrivedToken DEF Floor
  <2>2. \A d \in Callers : pc'[d] = "done" =>
          \/ pc[d] = "done" /\ answer'[d] = answer[d]
          \/ answer'[d] = Failed
          \/ exch[c].stage = "resolved" /\ answer'[d] = exch[c].token
    BY <1>8 DEF Finally, SettleWaiters
  <2> QED
    BY <1>8, <2>1, <2>2 DEF Finally
<1>9. ASSUME NEW c \in Callers, Resume(c) PROVE FreshInv'
  BY <1>9 DEF Resume, IInv, TypeOK
<1>10. CASE Tick
  BY <1>10 DEF Tick
<1>11. CASE UNCHANGED vars
  BY <1>11 DEF vars
<1> QED
  BY <1>1, <1>2, <1>3, <1>4, <1>5, <1>6, <1>7, <1>8, <1>9, <1>10, <1>11
     DEF Next, getDownstreamTokenForCaller

\* With lifetimes long enough, what is cached and what is answered is worth using.
THEOREM FreshTokens == ASSUME LongLived PROVE Spec => []FreshInv
<1>1. Init => TimeInv /\ FreshInv
  BY DEF Init, NoExch, NewExch, TimeInv, ClockInv, LifeInv, FreshInv, CacheWorth, AnswerWorth
<1>2. IInv /\ TimeInv /\ FreshInv /\ [Next]_vars => TimeInv' /\ FreshInv'
  BY TimeStep, FreshStep
<1> QED
  BY <1>1, <1>2, Inductive, PTL DEF Spec

\* An answer given in this step is one the service may give.
LEMMA AnswerIsAcceptable ==
  ASSUME IInv', FreshInv', NEW c \in Callers, pc'[c] = "done", now' = now, NEW u, user'[c] = u
  PROVE  Service!Acceptable(answer'[c], u)
<1>1. CASE answer'[c] = Failed
  BY <1>1 DEF Service!Acceptable
<1>2. CASE answer'[c] # Failed
  <2>1. answer'[c] \in Token
    BY <1>2 DEF IInv, TypeOK
  <2>2. answer'[c].owner = u /\ answer'[c].validUntil >= now + Margin
    BY <1>2 DEF IInv, TokensAreTheCallersOwn, FreshInv, AnswerWorth
  <2>3. answer'[c] \in Service!Token
    BY <2>1 DEF Token, Service!Token
  <2> QED
    BY <2>2, <2>3 DEF Service!Acceptable
<1> QED
  BY <1>1, <1>2

\* Every step is a step of the service it promises, or none.
LEMMA ServiceStep ==
  ASSUME IInv, IInv', FreshInv', [Next]_vars
  PROVE  [Service!Next]_Service!vars
<1> USE DEF Service!vars
<1>1. ASSUME NEW c \in Callers, NEW u \in Users, Refuse(c, u) \/ UseCached(c, u)
      PROVE  Service!AnswerAtOnce(c, u)
  <2>1. pc'[c] = "done" /\ user'[c] = u /\ now' = now
    BY <1>1 DEF Refuse, UseCached, IInv, TypeOK
  <2>2. Service!Acceptable(answer'[c], u)
    BY <2>1, AnswerIsAcceptable
  <2>3. answer' = [answer EXCEPT ![c] = answer'[c]]
    BY <1>1 DEF Refuse, UseCached, IInv, TypeOK
  <2> QED
    BY <1>1, <2>2, <2>3 DEF Refuse, UseCached, Service!AnswerAtOnce
<1>2. ASSUME NEW c \in Callers, NEW u \in Users,
             Join(c, u) \/ StartKeyed(c, u) \/ StartUnkeyed(c, u)
      PROVE  Service!Ask(c, u)
  BY <1>2 DEF Join, StartKeyed, StartUnkeyed, Exchange, Service!Ask
<1>3. ASSUME NEW c \in Callers, EntraIssues(c) \/ ReplyArrives(c) \/ ExchangeFails(c)
      PROVE  UNCHANGED Service!vars
  BY <1>3 DEF EntraIssues, ReplyArrives, ExchangeFails
<1>4. ASSUME NEW c \in Callers, Finally(c) PROVE Service!Settle(Waiters(c))
  <2> DEFINE S == Waiters(c)
  <2>1. \A d \in S : pc[d] = "waiting" /\ pc'[d] = "done" /\ d \in Callers /\ user'[d] = user[d]
    BY <1>4 DEF Finally, SettleWaiters, Waiters
  <2>2. now' = now /\ user' = user
    BY <1>4 DEF Finally
  <2>3. \A d \in S : Service!Acceptable(answer'[d], user[d])
    BY <2>1, <2>2, AnswerIsAcceptable
  <2>4. answer' = [d \in Callers |-> IF d \in S THEN answer'[d] ELSE answer[d]]
    BY <1>4 DEF Finally, SettleWaiters
  <2>5. pc' = [d \in Callers |-> IF d \in S THEN "done" ELSE pc[d]]
    BY <1>4 DEF Finally, SettleWaiters
  <2> QED
    BY <2>1, <2>2, <2>3, <2>4, <2>5 DEF Service!Settle
<1>5. ASSUME NEW c \in Callers, Resume(c) PROVE Service!Resume(c)
  BY <1>5 DEF Resume, Service!Resume
<1>6. CASE Tick
  <2>1. Service!Tick
    BY <1>6 DEF Tick, Service!Tick
  <2> QED
    BY <2>1 DEF Service!Next
<1>7. CASE UNCHANGED vars
  BY <1>7 DEF vars
<1>8. \A c \in Callers : Waiters(c) \in SUBSET Callers
  BY DEF Waiters
<1> QED
  BY <1>1, <1>2, <1>3, <1>4, <1>5, <1>6, <1>7, <1>8
     DEF Next, getDownstreamTokenForCaller, Service!Next

\* With lifetimes long enough, the cache per user and its exchanges implement the
\* token source that the rest of the program relies on.
THEOREM Refinement == ASSUME LongLived PROVE Spec => ImplementsService
<1>1. Init => Service!Init
  BY DEF Init, Service!Init
<1>2. IInv /\ IInv' /\ FreshInv' /\ [Next]_vars => [Service!Next]_Service!vars
  BY ServiceStep
<1> QED
  BY <1>1, <1>2, Inductive, FreshTokens, PTL DEF Spec, ImplementsService, Service!Spec
=============================================================================
