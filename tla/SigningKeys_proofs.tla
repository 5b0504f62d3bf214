-------------------------- MODULE SigningKeys_proofs --------------------------
(***************************************************************************)
(* Theorems about SigningKeys, for any number of validations, tenants and  *)
(* keys, any TTL and any bound on the time of a fetch.  The argument is    *)
(* about one moment: that at which a tenant read its keys to answer a      *)
(* fetch.  A key in the response, or in the cache entry made of it, was    *)
(* published then, so if it is not published now it was withdrawn later;   *)
(* and the entry expires one TTL after a moment that lies before it.       *)
(***************************************************************************)
EXTENDS SigningKeys, TLAPS

Read == {"firstRead", "secondRead"}

\* The times of a call in progress: it began, sent its current fetch, and the
\* fetch has not timed out.
ClockInv ==
  \A v \in Validations : call[v].stage # "idle" =>
    /\ call[v].start <= call[v].sentAt
    /\ call[v].sentAt <= now
    /\ call[v].stage \in {"first", "firstRead"} => call[v].sentAt = call[v].start
    /\ call[v].stage \in {"second", "secondRead"} => call[v].sentAt <= call[v].start + FetchTime
    /\ InFetch(v) => now <= call[v].sentAt + FetchTime

SinceInv == \A t \in Tenants, k \in Kids : since[t][k] # None => since[t][k] <= now

\* What a response says of a key held when the tenant read its keys: if it does
\* not hold now, the key was published or withdrawn after the fetch was sent.
ReadInv ==
  \A v \in Validations, k \in Kids : call[v].stage \in Read =>
    LET t == call[v].tenant IN
      (k \in call[v].keys <=> k \in published[t])
        \/ (since[t][k] # None /\ call[v].sentAt <= since[t][k])

\* A key of a cache entry is published, or was withdrawn no longer than TTL
\* before the entry expires.
CacheInv ==
  \A t \in Tenants : jwksCache[t] # None =>
    /\ jwksCache[t].expiresAt <= now + TTL
    /\ \A k \in jwksCache[t].keys :
         k \in published[t]
           \/ (since[t][k] # None /\ jwksCache[t].expiresAt <= since[t][k] + TTL)

IInv ==
  /\ TypeOK
  /\ ClockInv
  /\ SinceInv
  /\ ReadInv
  /\ CacheInv
  /\ AcceptedKeysAreCurrent
  /\ PublishedKeysAreFound

-----------------------------------------------------------------------------
\* A call in progress is a call of some validation for a key of some tenant.
LEMMA CallInProgress ==
  ASSUME TypeOK, NEW v \in Validations, call[v].stage # "idle"
  PROVE  /\ call[v] \in [stage : Fetching \cup Returned, tenant : Tenants, kid : Kids,
                         start : Nat, sentAt : Nat, keys : SUBSET Kids]
         /\ call[v].stage \in Fetching \cup Returned
         /\ call[v].tenant \in Tenants /\ call[v].kid \in Kids
         /\ call[v].start \in Nat /\ call[v].sentAt \in Nat
         /\ call[v].keys \in SUBSET Kids
<1>1. call[v] \in Call
  BY DEF TypeOK
<1>2. call[v] # NoCall
  BY DEF NoCall
<1> QED
  BY <1>1, <1>2 DEF Call

LEMMA InitInv == Init => IInv
BY DEF Init, IInv, TypeOK, ClockInv, SinceInv, ReadInv, CacheInv, Read, NoCall, Call,
       AcceptedKeysAreCurrent, PublishedKeysAreFound

\* The stages are told apart.
LEMMA Stages ==
  /\ \A s \in Fetching : s # "idle" /\ s \notin Returned
  /\ \A s \in Returned : s # "idle"
  /\ Read \subseteq Fetching
BY DEF Fetching, Returned, Read

LEMMA TypeStep == TypeOK /\ [Next]_vars => TypeOK'
<1> SUFFICES ASSUME TypeOK, [Next]_vars PROVE TypeOK'
  OBVIOUS
<1> USE TimesAssumption
<1>1. ASSUME NEW v \in Validations, NEW t \in Tenants, NEW k \in Kids, Begin(v, t, k)
      PROVE  TypeOK'
  <2>1. \A s \in {"first", "second", "found"} : NewCall(s, t, k) \in Call
    BY DEF NewCall, Call, Fetching, Returned, TypeOK
  <2>2. call' \in [Validations -> Call]
    BY <1>1, <2>1 DEF Begin, TypeOK
  <2> QED
    BY <1>1, <2>2 DEF Begin, TypeOK
<1>2. ASSUME NEW v \in Validations, FirstReply(v) PROVE TypeOK'
  <2>1. call[v].stage # "idle"
    BY <1>2 DEF FirstReply
  <2>2. Entry(v) \in JwksCache
    BY <2>1, CallInProgress DEF Entry, JwksCache
  <2>3. /\ [call[v] EXCEPT !.stage = "found"] \in Call
        /\ Refetch(v) \in Call
    BY <2>1, CallInProgress DEF Refetch, Call, Fetching, Returned, TypeOK
  <2>4. call' \in [Validations -> Call]
    BY <1>2, <2>3 DEF FirstReply, TypeOK
  <2>5. jwksCache' \in [Tenants -> JwksCache \cup {None}]
    BY <1>2, <2>2 DEF FirstReply, Store, TypeOK
  <2> QED
    BY <1>2, <2>4, <2>5 DEF FirstReply, TypeOK
<1>3. ASSUME NEW v \in Validations, SecondReply(v) PROVE TypeOK'
  <2>1. call[v].stage # "idle"
    BY <1>3 DEF SecondReply
  <2>2. Entry(v) \in JwksCache
    BY <2>1, CallInProgress DEF Entry, JwksCache
  <2>3. \A s \in Returned : [call[v] EXCEPT !.stage = s] \in Call
    BY <2>1, CallInProgress DEF Call, Returned
  <2>4. call' \in [Validations -> Call]
    BY <1>3, <2>3 DEF SecondReply, TypeOK, Returned
  <2>5. jwksCache' \in [Tenants -> JwksCache \cup {None}]
    BY <1>3, <2>2 DEF SecondReply, Store, TypeOK
  <2> QED
    BY <1>3, <2>4, <2>5 DEF SecondReply, TypeOK
<1>4. ASSUME NEW v \in Validations, FetchFails(v) PROVE TypeOK'
  <2>1. call[v].stage # "idle"
    BY <1>4, Stages DEF FetchFails, InFetch
  <2>2. [call[v] EXCEPT !.stage = "failed"] \in Call
    BY <2>1, CallInProgress DEF Call, Returned
  <2> QED
    BY <1>4, <2>2 DEF FetchFails, TypeOK
<1>5. ASSUME NEW v \in Validations, Resume(v) PROVE TypeOK'
  BY <1>5 DEF Resume, TypeOK, Call
<1>6. ASSUME NEW v \in Validations, Serves(v) PROVE TypeOK'
  <2>1. call[v].stage # "idle"
    BY <1>6 DEF Serves
  <2>2. published[call[v].tenant] \in SUBSET Kids
    BY <2>1, CallInProgress DEF TypeOK
  <2>3. \A s \in {"firstRead", "secondRead"} :
          [call[v] EXCEPT !.stage = s, !.keys = published[call[v].tenant]] \in Call
    BY <2>1, <2>2, CallInProgress DEF Call, Fetching
  <2> QED
    BY <1>6, <2>3 DEF Serves, TypeOK
<1>7. ASSUME NEW t \in Tenants, NEW k \in Kids, Rotate(t, k) PROVE TypeOK'
  <2>1. published' \in [Tenants -> SUBSET Kids]
    BY <1>7 DEF Rotate, TypeOK
  <2>2. since' \in [Tenants -> [Kids -> Nat \cup {None}]]
    BY <1>7 DEF Rotate, TypeOK
  <2> QED
    BY <1>7, <2>1, <2>2 DEF Rotate, TypeOK
<1>8. CASE Tick
  BY <1>8 DEF Tick, TypeOK
<1>9. CASE UNCHANGED vars
  BY <1>9 DEF vars, TypeOK
<1> QED
  BY <1>1, <1>2, <1>3, <1>4, <1>5, <1>6, <1>7, <1>8, <1>9 DEF Next, Reply

\* What the arrival of a response does to the calls.
LEMMA ReplyEffect ==
  ASSUME TypeOK, NEW v \in Validations, Reply(v)
  PROVE  /\ \A w \in Validations \ {v} : call'[w] = call[w]
         /\ call'[v].tenant = call[v].tenant /\ call'[v].kid = call[v].kid
         /\ call'[v].start = call[v].start
         /\ \/ /\ call[v].stage = "firstRead" /\ call'[v].stage = "second"
               /\ call'[v].sentAt = now
            \/ /\ call'[v].stage = "found" /\ call[v].kid \in call[v].keys
               /\ call'[v].sentAt = call[v].sentAt
            \/ /\ call'[v].stage = "unknown" /\ call[v].kid \notin call[v].keys
               /\ call'[v].sentAt = call[v].sentAt
<1>1. call[v] \in [stage : Fetching \cup Returned, tenant : Tenants, kid : Kids,
                   start : Nat, sentAt : Nat, keys : SUBSET Kids]
  BY CallInProgress DEF Reply, FirstReply, SecondReply
<1>2. CASE FirstReply(v)
  <2>1. call' = [call EXCEPT ![v] = IF call[v].kid \in call[v].keys
                                      THEN [call[v] EXCEPT !.stage = "found"]
                                      ELSE Refetch(v)]
    BY <1>2 DEF FirstReply
  <2>2. CASE call[v].kid \in call[v].keys
    <3>1. call' = [call EXCEPT ![v] = [call[v] EXCEPT !.stage = "found"]]
      BY <2>1, <2>2
    <3> QED
      BY <1>1, <3>1, <2>2 DEF TypeOK
  <2>3. CASE call[v].kid \notin call[v].keys
    <3>1. call' = [call EXCEPT ![v] = Refetch(v)]
      BY <2>1, <2>3
    <3> QED
      BY <1>1, <1>2, <3>1, <2>3 DEF FirstReply, Refetch, TypeOK
  <2> QED
    BY <2>2, <2>3
<1>3. CASE SecondReply(v)
  BY <1>1, <1>3 DEF SecondReply, TypeOK
<1> QED
  BY <1>2, <1>3 DEF Reply

\* The clock keeps to the deadline of every fetch: Tick stops at it.
LEMMA ClockStep == TypeOK /\ ClockInv /\ [Next]_vars => ClockInv'
<1> SUFFICES ASSUME TypeOK, ClockInv, [Next]_vars PROVE ClockInv'
  OBVIOUS
<1> USE TimesAssumption DEF InFetch, Fetching, Returned
<1>0. now \in Nat
  BY DEF TypeOK
<1>1. ASSUME NEW v \in Validations, NEW t \in Tenants, NEW k \in Kids, Begin(v, t, k)
      PROVE  ClockInv'
  BY <1>0, <1>1 DEF Begin, NewCall, ClockInv, TypeOK
<1>2. ASSUME NEW v \in Validations, Reply(v) PROVE ClockInv'
  <2>1. call[v].stage # "idle"
    BY <1>2 DEF Reply, FirstReply, SecondReply
  <2>2. call[v].start \in Nat /\ call[v].sentAt \in Nat
    BY <2>1, CallInProgress
  <2>3. now' = now
    BY <1>2 DEF Reply, FirstReply, SecondReply
  <2> QED
    BY <1>0, <1>2, <2>1, <2>2, <2>3, ReplyEffect DEF ClockInv
<1>3. ASSUME NEW v \in Validations, FetchFails(v) PROVE ClockInv'
  BY <1>0, <1>3 DEF FetchFails, ClockInv, TypeOK
<1>4. ASSUME NEW v \in Validations, Resume(v) PROVE ClockInv'
  BY <1>0, <1>4 DEF Resume, NoCall, ClockInv, TypeOK
<1>5. ASSUME NEW v \in Validations, Serves(v) PROVE ClockInv'
  <2>1. call[v].stage # "idle"
    BY <1>5 DEF Serves
  <2> QED
    BY <1>0, <1>5, <2>1, CallInProgress DEF Serves, ClockInv, TypeOK
<1>6. CASE Tick
  <2>1. ASSUME NEW v \in Validations, call[v].stage # "idle"
        PROVE  /\ call[v].start <= call[v].sentAt
               /\ call[v].sentAt <= now + 1
               /\ call[v].stage \in {"first", "firstRead"} => call[v].sentAt = call[v].start
               /\ call[v].stage \in {"second", "secondRead"} => call[v].sentAt <= call[v].start + FetchTime
               /\ InFetch(v) => now + 1 <= call[v].sentAt + FetchTime
    BY <1>0, <1>6, <2>1, CallInProgress DEF Tick, ClockInv
  <2> QED
    BY <1>6, <2>1 DEF Tick, ClockInv
<1>7. ASSUME NEW t \in Tenants, NEW k \in Kids, Rotate(t, k) PROVE ClockInv'
  BY <1>7 DEF Rotate, ClockInv
<1>8. CASE UNCHANGED vars
  BY <1>8 DEF vars, ClockInv
<1> QED
  BY <1>1, <1>2, <1>3, <1>4, <1>5, <1>6, <1>7, <1>8 DEF Next

LEMMA SinceStep == TypeOK /\ SinceInv /\ [Next]_vars => SinceInv'
<1> SUFFICES ASSUME TypeOK, SinceInv, [Next]_vars PROVE SinceInv'
  OBVIOUS
<1>0. now \in Nat /\ now \notin {None}
  BY NoneAssumption DEF TypeOK
<1>1. ASSUME NEW t \in Tenants, NEW k \in Kids, Rotate(t, k) PROVE SinceInv'
  BY <1>0, <1>1 DEF Rotate, SinceInv, TypeOK
<1>2. CASE Tick
  <2>1. \A t \in Tenants, k \in Kids : since[t][k] # None => since[t][k] <= now + 1
    BY <1>0 DEF SinceInv, TypeOK
  <2> QED
    BY <1>2, <2>1 DEF Tick, SinceInv
<1>3. CASE UNCHANGED <<now, since>>
  BY <1>3 DEF SinceInv
<1> QED
  BY <1>1, <1>2, <1>3
  DEF Next, vars, Begin, Reply, FirstReply, SecondReply, FetchFails, Resume, Serves

\* Rotations after the reading are later than the sending of the fetch.
LEMMA ReadStep == TypeOK /\ ClockInv /\ ReadInv /\ [Next]_vars => ReadInv'
<1> SUFFICES ASSUME TypeOK, ClockInv, ReadInv, [Next]_vars PROVE ReadInv'
  OBVIOUS
<1>0. now \in Nat /\ now # None
  BY NoneAssumption DEF TypeOK
<1>1. ASSUME NEW v \in Validations,
             \A w \in Validations \ {v} : call'[w] = call[w],
             call'[v].stage \notin Read, UNCHANGED <<published, since>>
      PROVE  ReadInv'
  BY <1>1 DEF ReadInv
<1>2. ASSUME NEW v \in Validations, NEW t \in Tenants, NEW k \in Kids, Begin(v, t, k)
      PROVE  ReadInv'
  <2>1. \A w \in Validations \ {v} : call'[w] = call[w]
    BY <1>2 DEF Begin, TypeOK
  <2>2. call'[v].stage \in {"first", "second", "found"}
    BY <1>2 DEF Begin, NewCall, TypeOK
  <2> QED
    BY <1>1, <1>2, <2>1, <2>2 DEF Begin, Read
<1>3. ASSUME NEW v \in Validations, Reply(v) \/ FetchFails(v) \/ Resume(v) PROVE ReadInv'
  <2>1. \A w \in Validations \ {v} : call'[w] = call[w]
    BY <1>3 DEF Reply, FirstReply, SecondReply, FetchFails, Resume, TypeOK
  <2>2. call'[v].stage \in {"second", "idle", "found", "unknown", "failed"}
    <3>1. CASE Reply(v)
      BY <3>1, ReplyEffect
    <3>2. CASE FetchFails(v) \/ Resume(v)
      <4>1. CASE FetchFails(v)
        <5>1. call[v].stage # "idle"
          BY <4>1, Stages DEF FetchFails, InFetch
        <5> QED
          BY <4>1, <5>1, CallInProgress DEF FetchFails, TypeOK
      <4>2. CASE Resume(v)
        BY <4>2 DEF Resume, NoCall, TypeOK
      <4> QED
        BY <3>2, <4>1, <4>2
    <3> QED
      BY <1>3, <3>1, <3>2
  <2> QED
    BY <1>1, <1>3, <2>1, <2>2
    DEF Reply, FirstReply, SecondReply, FetchFails, Resume, Read
<1>4. ASSUME NEW v \in Validations, Serves(v) PROVE ReadInv'
  BY <1>4 DEF Serves, ReadInv, TypeOK
<1>5. ASSUME NEW t \in Tenants, NEW k \in Kids, Rotate(t, k) PROVE ReadInv'
  <2> SUFFICES ASSUME NEW v \in Validations, NEW l \in Kids, call[v].stage \in Read
               PROVE  \/ l \in call[v].keys <=> l \in published'[call[v].tenant]
                      \/ /\ since'[call[v].tenant][l] # None
                         /\ call[v].sentAt <= since'[call[v].tenant][l]
    BY <1>5 DEF Rotate, ReadInv
  <2>1. call[v].stage # "idle" /\ call[v].tenant \in Tenants
    BY CallInProgress, Stages DEF Read
  <2>2. CASE call[v].tenant = t /\ l = k
    BY <1>0, <1>5, <2>1, <2>2 DEF Rotate, ClockInv, TypeOK
  <2>3. CASE ~(call[v].tenant = t /\ l = k)
    <3>1. since'[call[v].tenant][l] = since[call[v].tenant][l]
      BY <1>5, <2>1, <2>3 DEF Rotate, TypeOK
    <3>2. l \in published'[call[v].tenant] <=> l \in published[call[v].tenant]
      BY <1>5, <2>1, <2>3 DEF Rotate, TypeOK
    <3> QED
      BY <3>1, <3>2 DEF ReadInv
  <2> QED
    BY <2>2, <2>3
<1>6. CASE Tick \/ UNCHANGED vars
  BY <1>6 DEF Tick, vars, ReadInv
<1> QED
  BY <1>2, <1>3, <1>4, <1>5, <1>6 DEF Next

\* What a response that arrives says of its keys, for the entry made of it.
LEMMA EntryIsCurrent ==
  ASSUME TypeOK, ClockInv, SinceInv, ReadInv, NEW v \in Validations, call[v].stage \in Read
  PROVE  /\ Entry(v).expiresAt <= now + TTL
         /\ \A k \in Entry(v).keys :
              k \in published[call[v].tenant]
                \/ /\ since[call[v].tenant][k] # None
                   /\ Entry(v).expiresAt <= since[call[v].tenant][k] + TTL
<1>1. /\ call[v].stage # "idle" /\ call[v].tenant \in Tenants
      /\ call[v].start \in Nat /\ call[v].sentAt \in Nat
      /\ call[v].keys \in SUBSET Kids
  BY CallInProgress, Stages
<1>2. now \in Nat /\ TTL \in Nat
  BY TimesAssumption DEF TypeOK
<1>3. Entry(v).expiresAt <= now + TTL
  BY <1>1, <1>2 DEF Entry, ClockInv
<1>4. ASSUME NEW k \in call[v].keys, k \notin published[call[v].tenant]
      PROVE  /\ since[call[v].tenant][k] # None
             /\ call[v].start + TTL <= since[call[v].tenant][k] + TTL
  <2>1. k \in Kids
    BY <1>1
  <2>2. since[call[v].tenant][k] \in Nat \cup {None}
    BY <1>1, <2>1 DEF TypeOK
  <2> QED
    BY <1>1, <1>2, <1>4, <2>1, <2>2 DEF ReadInv, ClockInv
<1> QED
  BY <1>3, <1>4 DEF Entry

LEMMA CacheStep ==
  TypeOK /\ ClockInv /\ SinceInv /\ ReadInv /\ CacheInv /\ [Next]_vars => CacheInv'
<1> SUFFICES ASSUME TypeOK, ClockInv, SinceInv, ReadInv, CacheInv, [Next]_vars PROVE CacheInv'
  OBVIOUS
<1>0. now \in Nat /\ now # None /\ TTL \in Nat
  BY NoneAssumption, TimesAssumption DEF TypeOK
<1>1. ASSUME NEW v \in Validations, Reply(v) PROVE CacheInv'
  <2>1. call[v].stage \in Read /\ Store(v) /\ UNCHANGED <<now, published, since>>
    BY <1>1 DEF Reply, FirstReply, SecondReply, Read
  <2>2. call[v].tenant \in Tenants
    BY <2>1, CallInProgress, Stages
  <2>3. \A t \in Tenants : jwksCache'[t] = IF t = call[v].tenant THEN Entry(v) ELSE jwksCache[t]
    BY <2>1 DEF Store, TypeOK
  <2> QED
    BY <2>1, <2>2, <2>3, EntryIsCurrent DEF CacheInv
<1>2. ASSUME NEW t \in Tenants, NEW k \in Kids, Rotate(t, k) PROVE CacheInv'
  <2> SUFFICES ASSUME NEW u \in Tenants, jwksCache[u] # None, NEW l \in jwksCache[u].keys,
                      l \notin published'[u]
               PROVE  since'[u][l] # None /\ jwksCache[u].expiresAt <= since'[u][l] + TTL
    BY <1>2 DEF Rotate, CacheInv
  <2>1. l \in Kids
    BY DEF TypeOK, JwksCache
  <2>2. CASE u = t /\ l = k
    BY <1>0, <1>2, <2>1, <2>2 DEF Rotate, CacheInv, TypeOK
  <2>3. CASE ~(u = t /\ l = k)
    <3>1. since'[u][l] = since[u][l] /\ l \notin published[u]
      BY <1>2, <2>1, <2>3 DEF Rotate, TypeOK
    <3> QED
      BY <3>1 DEF CacheInv
  <2> QED
    BY <2>2, <2>3
<1>3. CASE Tick
  <2>1. \A t \in Tenants : jwksCache[t] # None => jwksCache[t].expiresAt <= now + 1 + TTL
    BY <1>0 DEF CacheInv, TypeOK, JwksCache
  <2> QED
    BY <1>3, <2>1 DEF Tick, CacheInv
<1>4. CASE UNCHANGED <<now, published, since, jwksCache>>
  BY <1>4 DEF CacheInv
<1> QED
  BY <1>1, <1>2, <1>3, <1>4 DEF Next, vars, Begin, FetchFails, Resume, Serves

\* A call that returns a key found it in a live entry, or in the response.
LEMMA AcceptedStep ==
  /\ TypeOK /\ ClockInv /\ SinceInv /\ ReadInv /\ CacheInv
  /\ AcceptedKeysAreCurrent /\ [Next]_vars
  => AcceptedKeysAreCurrent'
<1> SUFFICES ASSUME TypeOK, ClockInv, SinceInv, ReadInv, CacheInv,
                    AcceptedKeysAreCurrent, [Next]_vars
             PROVE  AcceptedKeysAreCurrent'
  OBVIOUS
<1>0. now \in Nat /\ now # None /\ TTL \in Nat /\ FetchTime \in Nat
  BY NoneAssumption, TimesAssumption DEF TypeOK
<1>1. Staleness \in Nat /\ TTL <= Staleness /\ FetchTime <= Staleness
  BY <1>0 DEF Staleness
<1>2. \A t \in Tenants, k \in Kids : since[t][k] \in Nat \cup {None}
  BY DEF TypeOK
<1>3. ASSUME NEW v \in Validations, NEW t \in Tenants, NEW k \in Kids, Begin(v, t, k)
      PROVE  AcceptedKeysAreCurrent'
  <2>1. /\ \A w \in Validations \ {v} : call'[w] = call[w]
        /\ call'[v].tenant = t /\ call'[v].kid = k
        /\ call'[v].stage = "found" => Live(t) /\ k \in jwksCache[t].keys
    BY <1>3 DEF Begin, NewCall, TypeOK
  <2>2. Live(t) /\ k \in jwksCache[t].keys =>
          k \in published[t] \/ (since[t][k] # None /\ now <= since[t][k] + Staleness)
    BY <1>0, <1>1, <1>2 DEF Live, CacheInv, TypeOK, JwksCache
  <2> QED
    BY <1>3, <2>1, <2>2 DEF Begin, AcceptedKeysAreCurrent
<1>4. ASSUME NEW v \in Validations, Reply(v) PROVE AcceptedKeysAreCurrent'
  <2>1. /\ call[v].stage \in Read
        /\ UNCHANGED <<now, published, since>>
    BY <1>4 DEF Reply, FirstReply, SecondReply, Read
  <2>2. /\ call[v].stage # "idle" /\ InFetch(v)
        /\ call[v].tenant \in Tenants /\ call[v].kid \in Kids
        /\ call[v].sentAt \in Nat
    BY <2>1, CallInProgress, Stages DEF InFetch
  <2>3. call[v].kid \in call[v].keys =>
          \/ call[v].kid \in published[call[v].tenant]
          \/ /\ since[call[v].tenant][call[v].kid] # None
             /\ now <= since[call[v].tenant][call[v].kid] + Staleness
    BY <1>0, <1>1, <1>2, <2>1, <2>2 DEF ReadInv, ClockInv
  <2> QED
    BY <1>4, <2>1, <2>3, ReplyEffect DEF AcceptedKeysAreCurrent
<1>5. ASSUME NEW v \in Validations, FetchFails(v) \/ Resume(v) \/ Serves(v)
      PROVE  AcceptedKeysAreCurrent'
  <2>1. \A w \in Validations \ {v} : call'[w] = call[w]
    BY <1>5 DEF FetchFails, Resume, Serves, TypeOK
  <2>2. call'[v].stage # "found"
    <3>1. CASE FetchFails(v) \/ Serves(v)
      <4>1. call[v].stage # "idle"
        BY <3>1, Stages DEF FetchFails, Serves, InFetch
      <4> QED
        BY <3>1, <4>1, CallInProgress DEF FetchFails, Serves, TypeOK
    <3>2. CASE Resume(v)
      BY <3>2 DEF Resume, NoCall, TypeOK
    <3> QED
      BY <1>5, <3>1, <3>2
  <2> QED
    BY <1>5, <2>1, <2>2 DEF FetchFails, Resume, Serves, AcceptedKeysAreCurrent
<1>6. ASSUME NEW t \in Tenants, NEW k \in Kids, Rotate(t, k) PROVE AcceptedKeysAreCurrent'
  <2> SUFFICES ASSUME NEW v \in Validations, call[v].stage = "found",
                      call[v].kid \notin published'[call[v].tenant]
               PROVE  /\ since'[call[v].tenant][call[v].kid] # None
                      /\ now <= since'[call[v].tenant][call[v].kid] + Staleness
    BY <1>6 DEF Rotate, AcceptedKeysAreCurrent
  <2>1. call[v].tenant \in Tenants /\ call[v].kid \in Kids
    BY CallInProgress, Stages
  <2>2. CASE call[v].tenant = t /\ call[v].kid = k
    BY <1>0, <1>1, <1>6, <2>1, <2>2 DEF Rotate, TypeOK
  <2>3. CASE ~(call[v].tenant = t /\ call[v].kid = k)
    <3>1. /\ since'[call[v].tenant][call[v].kid] = since[call[v].tenant][call[v].kid]
          /\ call[v].kid \notin published[call[v].tenant]
      BY <1>6, <2>1, <2>3 DEF Rotate, TypeOK
    <3> QED
      BY <3>1 DEF AcceptedKeysAreCurrent
  <2> QED
    BY <2>2, <2>3
<1>7. CASE Tick
  BY <1>7 DEF Tick, Returned, AcceptedKeysAreCurrent
<1>8. CASE UNCHANGED vars
  BY <1>8 DEF vars, AcceptedKeysAreCurrent
<1> QED
  BY <1>3, <1>4, <1>5, <1>6, <1>7, <1>8 DEF Next

\* A call that gives up has read the keys itself, after it began.
LEMMA UnknownStep ==
  TypeOK /\ ClockInv /\ ReadInv /\ PublishedKeysAreFound /\ [Next]_vars
  => PublishedKeysAreFound'
<1> SUFFICES ASSUME TypeOK, ClockInv, ReadInv, PublishedKeysAreFound, [Next]_vars
             PROVE  PublishedKeysAreFound'
  OBVIOUS
<1>0. now \in Nat /\ now # None
  BY NoneAssumption DEF TypeOK
<1>1. \A t \in Tenants, k \in Kids : since[t][k] \in Nat \cup {None}
  BY DEF TypeOK
<1>2. ASSUME NEW v \in Validations, NEW t \in Tenants, NEW k \in Kids, Begin(v, t, k)
      PROVE  PublishedKeysAreFound'
  <2>1. /\ \A w \in Validations \ {v} : call'[w] = call[w]
        /\ call'[v].stage # "unknown"
    BY <1>2 DEF Begin, NewCall, TypeOK
  <2> QED
    BY <1>2, <2>1 DEF Begin, PublishedKeysAreFound
<1>3. ASSUME NEW v \in Validations, Reply(v) PROVE PublishedKeysAreFound'
  <2>1. /\ call[v].stage \in Read
        /\ UNCHANGED <<now, published, since>>
    BY <1>3 DEF Reply, FirstReply, SecondReply, Read
  <2>2. /\ call[v].stage # "idle"
        /\ call[v].tenant \in Tenants /\ call[v].kid \in Kids
        /\ call[v].start \in Nat /\ call[v].sentAt \in Nat
    BY <2>1, CallInProgress, Stages
  <2>3. call[v].kid \notin call[v].keys /\ call[v].kid \in published[call[v].tenant] =>
          /\ since[call[v].tenant][call[v].kid] # None
          /\ since[call[v].tenant][call[v].kid] >= call[v].start
    BY <1>0, <1>1, <2>1, <2>2 DEF ReadInv, ClockInv
  <2> QED
    BY <1>3, <2>1, <2>3, ReplyEffect DEF PublishedKeysAreFound
<1>4. ASSUME NEW v \in Validations, FetchFails(v) \/ Resume(v) \/ Serves(v)
      PROVE  PublishedKeysAreFound'
  <2>1. \A w \in Validations \ {v} : call'[w] = call[w]
    BY <1>4 DEF FetchFails, Resume, Serves, TypeOK
  <2>2. call'[v].stage # "unknown"
    <3>1. CASE FetchFails(v) \/ Serves(v)
      <4>1. call[v].stage # "idle"
        BY <3>1, Stages DEF FetchFails, Serves, InFetch
      <4> QED
        BY <3>1, <4>1, CallInProgress DEF FetchFails, Serves, TypeOK
    <3>2. CASE Resume(v)
      BY <3>2 DEF Resume, NoCall, TypeOK
    <3> QED
      BY <1>4, <3>1, <3>2
  <2> QED
    BY <1>4, <2>1, <2>2 DEF FetchFails, Resume, Serves, PublishedKeysAreFound
<1>5. ASSUME NEW t \in Tenants, NEW k \in Kids, Rotate(t, k) PROVE PublishedKeysAreFound'
  <2> SUFFICES ASSUME NEW v \in Validations, call[v].stage = "unknown",
                      call[v].kid \in published'[call[v].tenant]
               PROVE  /\ since'[call[v].tenant][call[v].kid] # None
                      /\ since'[call[v].tenant][call[v].kid] >= call[v].start
    BY <1>5 DEF Rotate, PublishedKeysAreFound
  <2>1. /\ call[v].tenant \in Tenants /\ call[v].kid \in Kids
        /\ call[v].start \in Nat /\ call[v].sentAt \in Nat
    BY CallInProgress, Stages
  <2>2. CASE call[v].tenant = t /\ call[v].kid = k
    BY <1>0, <1>5, <2>1, <2>2, Stages DEF Rotate, ClockInv, TypeOK
  <2>3. CASE ~(call[v].tenant = t /\ call[v].kid = k)
    <3>1. /\ since'[call[v].tenant][call[v].kid] = since[call[v].tenant][call[v].kid]
          /\ call[v].kid \in published[call[v].tenant]
      BY <1>5, <2>1, <2>3 DEF Rotate, TypeOK
    <3> QED
      BY <3>1 DEF PublishedKeysAreFound
  <2> QED
    BY <2>2, <2>3
<1>6. CASE Tick \/ UNCHANGED vars
  BY <1>6 DEF Tick, vars, PublishedKeysAreFound
<1> QED
  BY <1>2, <1>3, <1>4, <1>5, <1>6 DEF Next

-----------------------------------------------------------------------------
\* The invariant holds in every reachable state.
THEOREM Inductive == Spec => []IInv
<1>1. IInv /\ [Next]_vars => IInv'
  BY TypeStep, ClockStep, SinceStep, ReadStep, CacheStep, AcceptedStep, UnknownStep DEF IInv
<1> QED
  BY <1>1, InitInv, PTL DEF Spec

\* Every reachable state of the key cache and of its calls is well typed.
THEOREM TypeCorrect == Spec => []TypeOK
<1>1. IInv => TypeOK
  BY DEF IInv
<1> QED
  BY <1>1, Inductive, PTL

\* getSigningKey never returns a key that its tenant withdrew more than a TTL
\* ago, whichever of the concurrent validations filled the cache.
THEOREM KeysAreCurrent == Spec => []AcceptedKeysAreCurrent
<1>1. IInv => AcceptedKeysAreCurrent
  BY DEF IInv
<1> QED
  BY <1>1, Inductive, PTL

\* getSigningKey never reports a key as unknown that was published all along.
THEOREM RotationsAreNoticed == Spec => []PublishedKeysAreFound
<1>1. IInv => PublishedKeysAreFound
  BY DEF IInv
<1> QED
  BY <1>1, Inductive, PTL

\* A validation waits for at most two fetches.
THEOREM TwoFetches == Spec => []AtMostTwoFetches
<1>1. IInv => AtMostTwoFetches
  <2> SUFFICES ASSUME IInv, NEW v \in Validations, InFetch(v)
               PROVE  now <= call[v].start + 2 * FetchTime
    BY DEF AtMostTwoFetches
  <2>1. call[v].stage # "idle" /\ TypeOK /\ ClockInv
    BY Stages DEF IInv, InFetch
  <2>2. call[v].start \in Nat /\ call[v].sentAt \in Nat /\ now \in Nat /\ FetchTime \in Nat
    BY <2>1, CallInProgress, TimesAssumption DEF TypeOK
  <2>3. call[v].sentAt <= call[v].start + FetchTime /\ now <= call[v].sentAt + FetchTime
    BY <2>1, <2>2 DEF ClockInv, InFetch, Fetching
  <2> QED
    BY <2>2, <2>3
<1> QED
  BY <1>1, Inductive, PTL
=============================================================================
