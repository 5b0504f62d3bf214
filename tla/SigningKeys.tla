----------------------------- MODULE SigningKeys -----------------------------
(***************************************************************************)
(* The JWKS cache of src/src/services/entraTokenValidator.ts: the signing  *)
(* keys of every Entra tenant, cached for an hour per tenant and fetched   *)
(* by getSigningKey when the cache has nothing, when it has expired, and   *)
(* once more when it does not know the key id.  Validations run            *)
(* concurrently; nothing keeps two of them from fetching the same keys, or *)
(* a slow response from overwriting a newer one.                           *)
(*                                                                         *)
(* The tenants, which publish and withdraw keys at any time, are external; *)
(* "since" records when they did.                                          *)
(***************************************************************************)
EXTENDS Integers

CONSTANTS
  Validations,  \* validations that can be in progress at once
  Tenants,      \* Entra tenants
  Kids,         \* key ids; tenants may use the same ones
  TTL,          \* JWKS_CACHE_TTL_MS, one hour
  FetchTime,    \* the 10 s timeout of a fetch
  None,         \* no cache entry; the time of what has not happened
  MaxTime       \* bound of the model: the clock stops here

ASSUME TimesAssumption == TTL \in Nat /\ FetchTime \in Nat /\ MaxTime \in Nat
ASSUME NoneAssumption == None \notin Nat

VARIABLES
  now,        \* Date.now()
  published,  \* per tenant: the ids of the keys it publishes
  since,      \* per tenant and key: when it was last published or withdrawn
  jwksCache,  \* jwksCacheByTenant: per tenant None, or its keys and expiresAt
  call        \* per validation: its call of getSigningKey

vars == <<now, published, since, jwksCache, call>>

JwksCache == [keys : SUBSET Kids, expiresAt : Nat]

\* "first" and "second": the fetch is under way and the tenant has yet to read
\* its keys; "firstRead" and "secondRead": the response with them is on its way.
Fetching == {"first", "firstRead", "second", "secondRead"}
Returned == {"found", "unknown", "failed"}

\* start is the "now" of getSigningKey, keys what the tenant answered.
NewCall(stage, t, k) ==
  [stage |-> stage, tenant |-> t, kid |-> k, start |-> now, sentAt |-> now, keys |-> {}]
NoCall == [stage |-> "idle", tenant |-> None, kid |-> None, start |-> 0, sentAt |-> 0,
           keys |-> {}]
Call == {NoCall} \cup
        [stage : Fetching \cup Returned, tenant : Tenants, kid : Kids,
         start : Nat, sentAt : Nat, keys : SUBSET Kids]

InFetch(v) == call[v].stage \in Fetching

TypeOK ==
  /\ now \in Nat
  /\ published \in [Tenants -> SUBSET Kids]
  /\ since \in [Tenants -> [Kids -> Nat \cup {None}]]
  /\ jwksCache \in [Tenants -> JwksCache \cup {None}]
  /\ call \in [Validations -> Call]

Init ==
  /\ now = 0
  /\ published \in [Tenants -> SUBSET Kids]
  /\ since = [t \in Tenants |-> [k \in Kids |-> None]]
  /\ jwksCache = [t \in Tenants |-> None]
  /\ call = [v \in Validations |-> NoCall]

-----------------------------------------------------------------------------

\* Does the tenant's entry answer without a refresh?
Live(t) == jwksCache[t] # None /\ now <= jwksCache[t].expiresAt

\* Mutant: a key that a live entry lacks is unknown.
Begin_NoRefetch(v, t, k) ==
  /\ call[v].stage = "idle"
  /\ LET stage == IF ~Live(t) THEN "first"
                  ELSE IF k \in jwksCache[t].keys THEN "found" ELSE "unknown"
     IN call' = [call EXCEPT ![v] = NewCall(stage, t, k)]
  /\ UNCHANGED <<now, published, since, jwksCache>>

\* getSigningKey up to its first await, or to its end: the key is in a live
\* entry, is missing from it, or there is no live entry.
Begin(v, t, k) ==
  /\ call[v].stage = "idle"
  /\ LET stage == IF ~Live(t) THEN "first"
                  ELSE IF k \in jwksCache[t].keys THEN "found" ELSE "second"
     IN call' = [call EXCEPT ![v] = NewCall(stage, t, k)]
  /\ UNCHANGED <<now, published, since, jwksCache>>

\* Mutant: the hour is counted from the arrival of the response.
Entry_FromArrival(v) == [keys |-> call[v].keys, expiresAt |-> now + TTL]

\* The entry made of a response: the hour is counted from the beginning of the
\* call, for the second fetch as well.
Entry(v) == [keys |-> call[v].keys, expiresAt |-> call[v].start + TTL]

Store(v) == jwksCache' = [jwksCache EXCEPT ![call[v].tenant] = Entry(v)]

\* The second fetch begins.
Refetch(v) == [call[v] EXCEPT !.stage = "second", !.sentAt = now]

\* The first response arrives and is stored; without the key it asked for, the
\* call fetches once more.
FirstReply(v) ==
  /\ call[v].stage = "firstRead"
  /\ Store(v)
  /\ call' = [call EXCEPT ![v] =
       IF @.kid \in @.keys THEN [@ EXCEPT !.stage = "found"] ELSE Refetch(v)]
  /\ UNCHANGED <<now, published, since>>

\* Mutant: the keys are fetched again until they contain the key.
SecondReply_Again(v) ==
  /\ call[v].stage = "secondRead"
  /\ Store(v)
  /\ call' = [call EXCEPT ![v] =
       IF @.kid \in @.keys THEN [@ EXCEPT !.stage = "found"] ELSE Refetch(v)]
  /\ UNCHANGED <<now, published, since>>

\* The second response arrives and is stored; it decides.
SecondReply(v) ==
  /\ call[v].stage = "secondRead"
  /\ Store(v)
  /\ call' = [call EXCEPT ![v].stage =
       IF call[v].kid \in call[v].keys THEN "found" ELSE "unknown"]
  /\ UNCHANGED <<now, published, since>>

\* A fetch fails or times out; what the cache holds stays.
FetchFails(v) ==
  /\ InFetch(v)
  /\ call' = [call EXCEPT ![v].stage = "failed"]
  /\ UNCHANGED <<now, published, since, jwksCache>>

\* The validation goes on with the key or the error.
Resume(v) ==
  /\ call[v].stage \in Returned
  /\ call' = [call EXCEPT ![v] = NoCall]
  /\ UNCHANGED <<now, published, since, jwksCache>>

-----------------------------------------------------------------------------
\* A tenant reads its keys to answer a fetch.
Serves(v) ==
  /\ call[v].stage \in {"first", "second"}
  /\ call' = [call EXCEPT ![v] =
       [@ EXCEPT !.stage = IF call[v].stage = "first" THEN "firstRead" ELSE "secondRead",
                 !.keys = published[call[v].tenant]]]
  /\ UNCHANGED <<now, published, since, jwksCache>>

\* A tenant publishes a new key, or withdraws one.
Rotate(t, k) ==
  /\ published' = [published EXCEPT ![t] = IF k \in @ THEN @ \ {k} ELSE @ \cup {k}]
  /\ since' = [since EXCEPT ![t][k] = now]
  /\ UNCHANGED <<now, jwksCache, call>>

\* Time passes: only when no callback is ready to run, and never beyond the
\* timeout of a fetch.
Tick ==
  /\ now < MaxTime
  /\ \A v \in Validations : call[v].stage \notin Returned
  /\ \A v \in Validations : InFetch(v) => now < call[v].sentAt + FetchTime
  /\ now' = now + 1
  /\ UNCHANGED <<published, since, jwksCache, call>>

Reply(v) == FirstReply(v) \/ SecondReply(v)

Next ==
  \/ \E v \in Validations, t \in Tenants, k \in Kids : Begin(v, t, k)
  \/ \E v \in Validations : Reply(v) \/ FetchFails(v) \/ Resume(v) \/ Serves(v)
  \/ \E t \in Tenants, k \in Kids : Rotate(t, k)
  \/ Tick

Spec == Init /\ [][Next]_vars

-----------------------------------------------------------------------------
\* The longest a withdrawn key can go on being accepted.
Staleness == IF TTL > FetchTime THEN TTL ELSE FetchTime

\* A key that is accepted is one that the tenant of the token itself publishes,
\* or published until no longer than one hour ago, however responses overtake
\* one another and whichever validation filled the cache.
AcceptedKeysAreCurrent ==
  \A v \in Validations : call[v].stage = "found" =>
    LET t == call[v].tenant
        k == call[v].kid
    IN k \in published[t] \/ (since[t][k] # None /\ now <= since[t][k] + Staleness)

\* A key that its tenant publishes from the beginning of the validation on is
\* never reported as unknown: a rotation is noticed at once, even when an
\* overtaken response has just put older keys into the cache.
PublishedKeysAreFound ==
  \A v \in Validations : call[v].stage = "unknown" =>
    LET t == call[v].tenant
        k == call[v].kid
    IN k \in published[t] => since[t][k] # None /\ since[t][k] >= call[v].start

\* A validation waits for at most two fetches.
AtMostTwoFetches ==
  \A v \in Validations : InFetch(v) => now <= call[v].start + 2 * FetchTime
=============================================================================
