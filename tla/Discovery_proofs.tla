--------------------------- MODULE Discovery_proofs ---------------------------
(***************************************************************************)
(* Proofs about Discovery, for any tenants, configurations and numbers of  *)
(* overlapping requests.  The invariant that carries them says of each     *)
(* stage what is already known there: what a document on its way says, how *)
(* old it can be, and that only such documents get into the cache.         *)
(***************************************************************************)
EXTENDS Discovery, TLAPS

\* The authority that Entra's document names.
Named == IF isCrossTenant THEN Common ELSE TenantOf[config.tenantId]

Quotes(m) == m.readAt \in Nat /\ m.fields = [f \in Fields |-> Named]

\* A cached entry quotes Entra and expires within an hour of the reading.
CacheIsRecent ==
  LET e == msMetadataCache[msMetadataTenant]
  IN Enabled /\ e # None => Quotes(e.metadata) /\ e.expiresAt <= e.metadata.readAt + TTL

FetchIsShort(r) ==
  LET q == request[r]
  IN /\ q.stage \in Fetching => Enabled /\ q.start <= now /\ now <= q.start + FetchTime
     /\ q.stage = "read" => Quotes(q.metadata) /\ q.start <= q.metadata.readAt

\* A document says what Entra said or what the configuration says.
DocumentIsTrue(doc) ==
  /\ Enabled
  /\ doc.registration = config.secret
  /\ \A f \in Fields : doc.fields[f] = IF doc.readAt = None THEN msMetadataTenant ELSE Named

Permitted(presented) ==
  \/ config.dcrToken # None /\ presented = config.dcrToken
  \/ config.dcrToken = None /\ config.dcrOpen

AnswerIsTrue(r) ==
  LET q == request[r]
  IN /\ q.stage # "answered" => q.doc = None /\ q.status = 0
     /\ q.doc # None => DocumentIsTrue(q.doc)
     /\ q.status = 201 => Permitted(q.presented)

IInv == TypeOK /\ CacheIsRecent /\ \A r \in Requests : FetchIsShort(r) /\ AnswerIsTrue(r)

USE ConfigsAssumption, NamesAssumption, TimesAssumption

-----------------------------------------------------------------------------
\* On a server that has a tenant, the discovery asks an authority that exists.
LEMMA AuthorityType ==
  ASSUME TypeOK, Enabled
  PROVE  /\ config.tenantId \in Names
         /\ msMetadataTenant \in Authorities
         /\ Named \in Authorities
  BY DEF TypeOK, Enabled, Config, msMetadataTenant, Named, Authorities

\* What Entra answers, and the nothing that a failed fetch leaves, are metadata.
LEMMA MetadataTypes ==
  /\ NoMetadata \in Metadata
  /\ \A a \in Authorities, t \in Nat :
       [fields |-> [f \in Fields |-> a], readAt |-> t] \in Metadata
<1>1. NoMetadata.fields \in [{} -> Authorities]
  BY DEF NoMetadata
<1>2. NoMetadata.fields \in UNION {[F -> Authorities] : F \in {{}, Fields}}
  BY <1>1
<1>3. \A a \in Authorities :
        [f \in Fields |-> a] \in UNION {[F -> Authorities] : F \in {{}, Fields}}
  OBVIOUS
<1> QED
  BY <1>2, <1>3 DEF NoMetadata, Metadata

\* A document assembled from metadata is a document.
LEMMA DocumentType ==
  ASSUME TypeOK, Enabled, NEW m \in Metadata
  PROVE  DiscoveryDocument(m) \in Document
<1>1. msMetadataTenant \in Authorities
  BY AuthorityType
<1>2. \A f \in DOMAIN m.fields : m.fields[f] \in Authorities
  BY DEF Metadata
<1>3. DiscoveryDocument(m).fields \in [Fields -> Authorities]
  BY <1>1, <1>2 DEF DiscoveryDocument
<1>4. getAdvertisedOAuthScopes \in SUBSET Scopes
  BY DEF getAdvertisedOAuthScopes, Scopes, TypeOK, Config
<1>5. config.secret \in BOOLEAN /\ m.readAt \in Nat \cup {None}
  BY DEF TypeOK, Config, Metadata
<1> QED
  BY <1>3, <1>4, <1>5 DEF DiscoveryDocument, Document

\* A document that is assembled from what Entra said, or from nothing, is true.
LEMMA AssembledIsTrue ==
  ASSUME TypeOK, Enabled, NEW m \in Metadata, Quotes(m) \/ m = NoMetadata
  PROVE  DocumentIsTrue(DiscoveryDocument(m))
<1>1. CASE Quotes(m)
  BY <1>1 DEF Quotes, DocumentIsTrue, DiscoveryDocument
<1>2. CASE m = NoMetadata
  BY <1>2 DEF NoMetadata, DocumentIsTrue, DiscoveryDocument
<1> QED
  BY <1>1, <1>2

\* Each answer of a handler leaves a request that is well typed and true.
LEMMA AnswerStep ==
  ASSUME TypeOK, NEW r \in Requests, NEW p \in RegTokens \cup {None},
         NEW status \in Statuses, NEW doc \in Document \cup {None},
         AnswerTo(p, r, status, doc)
  PROVE  /\ request' \in [Requests -> Request]
         /\ request'[r].stage = "answered" /\ request'[r].doc = doc
         /\ request'[r].status = status /\ request'[r].presented = p
         /\ \A q \in Requests \ {r} : request'[q] = request[q]
<1> DEFINE answered ==
      [stage |-> "answered", start |-> 0, metadata |-> NoMetadata, status |-> status,
       doc |-> doc, presented |-> p]
<1>1. answered \in Request
  BY MetadataTypes DEF Request, Stages, Statuses
<1>2. request' = [request EXCEPT ![r] = answered]
  BY DEF AnswerTo
<1> HIDE DEF answered
<1>3. /\ request' \in [Requests -> Request] /\ request'[r] = answered
      /\ \A q \in Requests \ {r} : request'[q] = request[q]
  BY <1>1, <1>2 DEF TypeOK
<1> QED
  BY <1>3 DEF answered

LEMMA InitInv == Init => IInv
<1> SUFFICES ASSUME Init PROVE IInv
  OBVIOUS
<1>1. Idle \in Request
  BY MetadataTypes DEF Idle, Request, Stages, Statuses
<1>2. TypeOK
  BY <1>1 DEF Init, TypeOK
<1>3. CacheIsRecent
  BY <1>2, AuthorityType DEF Init, CacheIsRecent
<1>4. \A r \in Requests : FetchIsShort(r) /\ AnswerIsTrue(r)
  <2> TAKE r \in Requests
  <2>1. request[r].stage = "idle" /\ request[r].doc = None /\ request[r].status = 0
    BY DEF Init, Idle
  <2> QED
    BY <2>1 DEF FetchIsShort, AnswerIsTrue, Fetching
<1> QED
  BY <1>2, <1>3, <1>4 DEF IInv

-----------------------------------------------------------------------------
\* A step that changes one request and keeps the cache in order keeps the invariant
\* when it does so for that request.
LEMMA OneRequestStep ==
  ASSUME IInv, NEW r \in Requests, UNCHANGED <<now, config>>,
         msMetadataCache' \in [Authorities -> CacheEntry \cup {None}], CacheIsRecent',
         request' \in [Requests -> Request],
         \A q \in Requests \ {r} : request'[q] = request[q],
         FetchIsShort(r)', AnswerIsTrue(r)'
  PROVE  IInv'
<1>1. TypeOK'
  BY DEF IInv, TypeOK
<1>2. UNCHANGED <<Enabled, msMetadataTenant, Named>>
  BY DEF Enabled, msMetadataTenant, Named, isCrossTenant
<1>3. \A q \in Requests \ {r} : FetchIsShort(q)' /\ AnswerIsTrue(q)'
  <2> TAKE q \in Requests \ {r}
  <2>1. FetchIsShort(q)'
    BY <1>2 DEF IInv, FetchIsShort, Quotes
  <2>2. AnswerIsTrue(q)'
    BY <1>2 DEF IInv, AnswerIsTrue, DocumentIsTrue, Permitted
  <2> QED
    BY <2>1, <2>2
<1> QED
  BY <1>1, <1>3 DEF IInv

\* The cache stays recent while it is left alone.
LEMMA CacheKept ==
  ASSUME IInv, UNCHANGED <<config, msMetadataCache>>
  PROVE  CacheIsRecent'
<1>1. UNCHANGED <<Enabled, msMetadataTenant, Named>>
  BY DEF Enabled, msMetadataTenant, Named, isCrossTenant
<1> QED
  BY <1>1 DEF IInv, CacheIsRecent, Quotes

\* So does an answer that is true.
LEMMA TrueAnswerStep ==
  ASSUME IInv, NEW r \in Requests, UNCHANGED <<now, config>>,
         NEW p \in RegTokens \cup {None}, NEW status \in Statuses,
         NEW doc \in Document \cup {None}, AnswerTo(p, r, status, doc),
         doc # None => DocumentIsTrue(doc), status = 201 => Permitted(p),
         msMetadataCache' \in [Authorities -> CacheEntry \cup {None}], CacheIsRecent'
  PROVE  IInv'
<1>1. /\ request' \in [Requests -> Request]
      /\ request'[r].stage = "answered" /\ request'[r].doc = doc
      /\ request'[r].status = status /\ request'[r].presented = p
      /\ \A q \in Requests \ {r} : request'[q] = request[q]
  BY AnswerStep DEF IInv
<1>2. FetchIsShort(r)'
  BY <1>1 DEF FetchIsShort, Fetching
<1>3. DocumentIsTrue(doc) => DocumentIsTrue(doc)'
  BY DEF DocumentIsTrue, Enabled, msMetadataTenant, Named, isCrossTenant
<1>4. Permitted(p) => Permitted(p)'
  BY DEF Permitted
<1>5. AnswerIsTrue(r)'
  BY <1>1, <1>3, <1>4 DEF AnswerIsTrue, DocumentIsTrue, Permitted
<1> QED
  BY <1>1, <1>2, <1>5, OneRequestStep

\* A cached entry is metadata that quote Entra, and are still to be served.
LEMMA HitQuotes ==
  ASSUME IInv, Enabled, CacheHit(msMetadataTenant)
  PROVE  LET m == msMetadataCache[msMetadataTenant].metadata
         IN m \in Metadata /\ Quotes(m) /\ now < m.readAt + TTL
<1>1. msMetadataCache[msMetadataTenant] \in CacheEntry
  BY AuthorityType DEF IInv, TypeOK, CacheHit
<1>2. now \in Nat
  BY DEF IInv, TypeOK
<1> QED
  BY <1>1, <1>2 DEF IInv, CacheHit, CacheIsRecent, CacheEntry, Quotes

LEMMA DiscoverStep ==
  ASSUME IInv, NEW r \in Requests, Discover(r)
  PROVE  IInv'
<1>1. UNCHANGED <<now, config, msMetadataCache>> /\ request[r].stage = "idle"
  BY DEF Discover
<1>2. CacheIsRecent'
  BY <1>1, CacheKept
<1>3. msMetadataCache' \in [Authorities -> CacheEntry \cup {None}]
  BY <1>1 DEF IInv, TypeOK
<1>4. CASE ~Enabled
  <2>1. AnswerTo(None, r, 404, None)
    BY <1>4 DEF Discover, Answer
  <2> QED
    BY <1>1, <1>2, <1>3, <2>1, TrueAnswerStep DEF Statuses
<1>5. CASE Enabled /\ CacheHit(msMetadataTenant)
  <2> DEFINE m == msMetadataCache[msMetadataTenant].metadata
  <2>1. m \in Metadata /\ Quotes(m)
    BY <1>5, HitQuotes
  <2>2. AnswerTo(None, r, 200, DiscoveryDocument(m))
    BY <1>5 DEF Discover, Answer
  <2>3. DiscoveryDocument(m) \in Document /\ DocumentIsTrue(DiscoveryDocument(m))
    BY <1>5, <2>1, DocumentType, AssembledIsTrue DEF IInv
  <2> QED
    BY <1>1, <1>2, <1>3, <2>2, <2>3, TrueAnswerStep DEF Statuses
<1>6. CASE Enabled /\ ~CacheHit(msMetadataTenant)
  <2> DEFINE asking == [Idle EXCEPT !.stage = "asked", !.start = now]
  <2>1. request' = [request EXCEPT ![r] = asking]
    BY <1>6 DEF Discover
  <2>2. /\ asking \in Request /\ asking.stage = "asked" /\ asking.start = now
        /\ asking.doc = None /\ asking.status = 0
    BY MetadataTypes DEF IInv, TypeOK, Idle, Request, Stages, Statuses
  <2> HIDE DEF asking
  <2>3. /\ request' \in [Requests -> Request] /\ request'[r] = asking
        /\ \A q \in Requests \ {r} : request'[q] = request[q]
    BY <2>1, <2>2 DEF IInv, TypeOK
  <2>4. Enabled' /\ now \in Nat
    BY <1>1, <1>6 DEF Enabled, IInv, TypeOK
  <2>5. FetchIsShort(r)'
    BY <1>1, <2>2, <2>3, <2>4 DEF FetchIsShort
  <2>6. AnswerIsTrue(r)'
    BY <2>2, <2>3 DEF AnswerIsTrue
  <2> QED
    BY <1>1, <1>2, <1>3, <2>3, <2>5, <2>6, OneRequestStep
<1> QED
  BY <1>4, <1>5, <1>6

LEMMA FetchReturnsStep ==
  ASSUME IInv, NEW r \in Requests, FetchReturns(r)
  PROVE  IInv'
<1> DEFINE m == request[r].metadata
<1>1. UNCHANGED <<now, config>> /\ request[r].stage = "read"
  BY DEF FetchReturns
<1>2. /\ Enabled /\ Quotes(m) /\ request[r].start <= m.readAt
      /\ m \in Metadata /\ request[r].start \in Nat
  BY <1>1 DEF IInv, FetchIsShort, Fetching, TypeOK, Request
<1>3. NewEntry(r) = [metadata |-> m, expiresAt |-> request[r].start + TTL]
  BY DEF NewEntry
<1>4. NewEntry(r) \in CacheEntry /\ NewEntry(r).expiresAt <= m.readAt + TTL
  BY <1>2, <1>3 DEF CacheEntry, Quotes
<1>5. msMetadataTenant \in Authorities
  BY <1>2, AuthorityType DEF IInv
<1>6. /\ msMetadataCache' \in [Authorities -> CacheEntry \cup {None}]
      /\ msMetadataCache'[msMetadataTenant] = NewEntry(r)
  BY <1>4, <1>5 DEF FetchReturns, IInv, TypeOK
<1>7. UNCHANGED <<msMetadataTenant, Named>>
  BY <1>1 DEF msMetadataTenant, Named, isCrossTenant
<1>8. CacheIsRecent'
  BY <1>2, <1>3, <1>4, <1>6, <1>7 DEF CacheIsRecent, Quotes
<1>9. AnswerTo(None, r, 200, DiscoveryDocument(m))
  BY DEF FetchReturns, Answer
<1>10. DiscoveryDocument(m) \in Document /\ DocumentIsTrue(DiscoveryDocument(m))
  BY <1>2, DocumentType, AssembledIsTrue DEF IInv
<1> QED
  BY <1>1, <1>6, <1>8, <1>9, <1>10, TrueAnswerStep DEF Statuses

LEMMA FetchFailsStep ==
  ASSUME IInv, NEW r \in Requests, FetchFails(r)
  PROVE  IInv'
<1>1. UNCHANGED <<now, config, msMetadataCache>> /\ request[r].stage \in Fetching
  BY DEF FetchFails
<1>2. CacheIsRecent' /\ msMetadataCache' \in [Authorities -> CacheEntry \cup {None}]
  BY <1>1, CacheKept DEF IInv, TypeOK
<1>3. Enabled
  BY <1>1 DEF IInv, FetchIsShort
<1>4. /\ DiscoveryDocument(NoMetadata) \in Document
      /\ DocumentIsTrue(DiscoveryDocument(NoMetadata))
  BY <1>3, MetadataTypes, DocumentType, AssembledIsTrue DEF IInv
<1>5. AnswerTo(None, r, 200, DiscoveryDocument(NoMetadata))
  BY DEF FetchFails, Answer
<1> QED
  BY <1>1, <1>2, <1>4, <1>5, TrueAnswerStep DEF Statuses

LEMMA ProtectedResourceStep ==
  ASSUME IInv, NEW r \in Requests, ProtectedResource(r)
  PROVE  IInv'
<1>1. UNCHANGED <<now, config, msMetadataCache>>
  BY DEF ProtectedResource
<1>2. CacheIsRecent' /\ msMetadataCache' \in [Authorities -> CacheEntry \cup {None}]
  BY <1>1, CacheKept DEF IInv, TypeOK
<1>3. AnswerTo(None, r, IF Enabled THEN 200 ELSE 404, None)
  BY DEF ProtectedResource, Answer
<1> QED
  BY <1>1, <1>2, <1>3, TrueAnswerStep DEF Statuses

\* The early returns leave 201 to those who are permitted.
LEMMA RegisterStep ==
  ASSUME IInv, NEW r \in Requests, NEW p \in RegTokens \cup {None}, Register(r, p)
  PROVE  IInv'
<1>1. UNCHANGED <<now, config, msMetadataCache>>
  BY DEF Register
<1>2. CacheIsRecent' /\ msMetadataCache' \in [Authorities -> CacheEntry \cup {None}]
  BY <1>1, CacheKept DEF IInv, TypeOK
<1>3. RegistrationStatus(p) \in Statuses
  BY DEF RegistrationStatus, Statuses
<1>4. RegistrationStatus(p) = 201 => Permitted(p)
  BY DEF RegistrationStatus, Permitted
<1>5. AnswerTo(p, r, RegistrationStatus(p), None)
  BY DEF Register
<1> QED
  BY <1>1, <1>2, <1>3, <1>4, <1>5, TrueAnswerStep

LEMMA LeaveStep ==
  ASSUME IInv, NEW r \in Requests, Leave(r)
  PROVE  IInv'
<1>1. UNCHANGED <<now, config, msMetadataCache>>
  BY DEF Leave
<1>2. CacheIsRecent' /\ msMetadataCache' \in [Authorities -> CacheEntry \cup {None}]
  BY <1>1, CacheKept DEF IInv, TypeOK
<1>3. Idle \in Request
  BY MetadataTypes DEF Idle, Request, Stages, Statuses
<1>4. /\ request' \in [Requests -> Request] /\ request'[r] = Idle
      /\ \A q \in Requests \ {r} : request'[q] = request[q]
  BY <1>3 DEF Leave, IInv, TypeOK
<1>5. request'[r].stage = "idle" /\ request'[r].doc = None /\ request'[r].status = 0
  BY <1>4 DEF Idle
<1>6. FetchIsShort(r)' /\ AnswerIsTrue(r)'
  BY <1>5 DEF FetchIsShort, AnswerIsTrue, Fetching
<1> QED
  BY <1>1, <1>2, <1>4, <1>6, OneRequestStep

LEMMA EntraReadsStep ==
  ASSUME IInv, NEW r \in Requests, EntraReads(r)
  PROVE  IInv'
<1> DEFINE q == request[r]
           m == [fields |-> [f \in Fields |-> Named], readAt |-> now]
<1>1. UNCHANGED <<now, config, msMetadataCache>> /\ q.stage = "asked"
  BY DEF EntraReads
<1>2. CacheIsRecent' /\ msMetadataCache' \in [Authorities -> CacheEntry \cup {None}]
  BY <1>1, CacheKept DEF IInv, TypeOK
<1>3. Enabled /\ q.start <= now /\ now <= q.start + FetchTime /\ now \in Nat /\ q \in Request
  BY <1>1 DEF IInv, FetchIsShort, Fetching, TypeOK
<1>4. m \in Metadata
  BY <1>3, AuthorityType, MetadataTypes DEF IInv
<1>5. Named = IF msMetadataTenant = Common THEN Common ELSE TenantOf[msMetadataTenant]
  BY <1>3, AuthorityType DEF IInv, Named, msMetadataTenant
<1>6. request' = [request EXCEPT ![r].stage = "read", ![r].metadata = m]
  BY <1>5 DEF EntraReads
<1> HIDE DEF m
<1>7. /\ request' \in [Requests -> Request]
      /\ request'[r].stage = "read" /\ request'[r].metadata = m
      /\ request'[r].start = q.start /\ request'[r].doc = q.doc
      /\ request'[r].status = q.status
      /\ \A o \in Requests \ {r} : request'[o] = request[o]
  BY <1>3, <1>4, <1>6 DEF IInv, TypeOK, Request, Stages
<1>8. q.doc = None /\ q.status = 0
  BY <1>1 DEF IInv, AnswerIsTrue
<1>9. UNCHANGED <<Enabled, Named>>
  BY <1>1 DEF Enabled, Named, isCrossTenant
<1>10. FetchIsShort(r)'
  BY <1>1, <1>3, <1>7, <1>9 DEF FetchIsShort, Quotes, m
<1>11. AnswerIsTrue(r)'
  BY <1>7, <1>8 DEF AnswerIsTrue
<1> QED
  BY <1>1, <1>2, <1>7, <1>10, <1>11, OneRequestStep

\* The clock waits for no fetch that is due.
LEMMA TickStep ==
  ASSUME IInv, Tick
  PROVE  IInv'
<1>1. UNCHANGED <<config, msMetadataCache, request>> /\ now' = now + 1 /\ now \in Nat
  BY DEF Tick, IInv, TypeOK
<1>2. TypeOK'
  BY <1>1 DEF IInv, TypeOK
<1>3. UNCHANGED <<Enabled, msMetadataTenant, Named>>
  BY <1>1 DEF Enabled, msMetadataTenant, Named, isCrossTenant
<1>4. CacheIsRecent'
  BY <1>1, CacheKept
<1>5. \A r \in Requests : FetchIsShort(r)'
  <2> TAKE r \in Requests
  <2>1. request[r].start \in Nat
    BY DEF IInv, TypeOK, Request
  <2>2. request[r].stage \in Fetching => now < request[r].start + FetchTime
    BY DEF Tick
  <2> QED
    BY <1>1, <1>3, <2>1, <2>2 DEF IInv, FetchIsShort, Quotes
<1>6. \A r \in Requests : AnswerIsTrue(r)'
  BY <1>1, <1>3 DEF IInv, AnswerIsTrue, DocumentIsTrue, Permitted
<1> QED
  BY <1>2, <1>4, <1>5, <1>6 DEF IInv

LEMMA StutterStep ==
  ASSUME IInv, UNCHANGED vars
  PROVE  IInv'
<1>1. UNCHANGED <<now, config, msMetadataCache, request>>
  BY DEF vars
<1>2. UNCHANGED <<Enabled, msMetadataTenant, Named>>
  BY <1>1 DEF Enabled, msMetadataTenant, Named, isCrossTenant
<1>3. TypeOK' /\ CacheIsRecent'
  BY <1>1, CacheKept DEF IInv, TypeOK
<1>4. \A r \in Requests : FetchIsShort(r)' /\ AnswerIsTrue(r)'
  BY <1>1, <1>2 DEF IInv, FetchIsShort, AnswerIsTrue, DocumentIsTrue, Permitted, Quotes
<1> QED
  BY <1>3, <1>4 DEF IInv

LEMMA StepInv == IInv /\ [Next]_vars => IInv'
<1> SUFFICES ASSUME IInv, [Next]_vars PROVE IInv'
  OBVIOUS
<1>1. ASSUME NEW r \in Requests, Discover(r) PROVE IInv'
  BY <1>1, DiscoverStep
<1>2. ASSUME NEW r \in Requests, ProtectedResource(r) PROVE IInv'
  BY <1>2, ProtectedResourceStep
<1>3. ASSUME NEW r \in Requests, Settle(r) PROVE IInv'
  BY <1>3, FetchReturnsStep, FetchFailsStep DEF Settle
<1>4. ASSUME NEW r \in Requests, Leave(r) PROVE IInv'
  BY <1>4, LeaveStep
<1>5. ASSUME NEW r \in Requests, EntraReads(r) PROVE IInv'
  BY <1>5, EntraReadsStep
<1>6. ASSUME NEW r \in Requests, NEW p \in RegTokens \cup {None}, Register(r, p) PROVE IInv'
  BY <1>6, RegisterStep
<1>7. CASE Tick
  BY <1>7, TickStep
<1>8. CASE UNCHANGED vars
  BY <1>8, StutterStep
<1> QED
  BY <1>1, <1>2, <1>3, <1>4, <1>5, <1>6, <1>7, <1>8 DEF Next

LEMMA Invariance == Spec => []IInv
  BY InitInv, StepInv, PTL DEF Spec

-----------------------------------------------------------------------------
\* Every reachable state of the discovery endpoints is well typed.
THEOREM TypeCorrect == Spec => []TypeOK
<1>1. IInv => TypeOK
  BY DEF IInv
<1> QED
  BY <1>1, Invariance, PTL

\* Whatever is configured, everyone who is invited can sign in with what a document
\* announces, quoted or made up.
THEOREM InvitedCanSignIn == Spec => []EveryoneInvitedCanSignIn
<1>1. IInv => EveryoneInvitedCanSignIn
  <2> SUFFICES ASSUME IInv, NEW r \in Requests, HasDocument(r),
                      NEW t \in Tenants, Invited(t)
               PROVE  LET doc == request[r].doc
                      IN /\ Admits(doc, t)
                         /\ doc.readAt # None \/ config.tenantId \in Tenants => Verifies(doc, t)
    BY DEF EveryoneInvitedCanSignIn
  <2> DEFINE doc == request[r].doc
  <2>1. Enabled /\ \A f \in Fields :
          doc.fields[f] = IF doc.readAt = None THEN msMetadataTenant ELSE Named
    BY DEF IInv, AnswerIsTrue, HasDocument, DocumentIsTrue
  <2>2. config.tenantId \in Names
    BY <2>1, AuthorityType DEF IInv
  <2>3. CASE isCrossTenant
    <3>1. \A f \in Fields : doc.fields[f] = Common
      BY <2>1, <2>3 DEF msMetadataTenant, Named
    <3> QED
      BY <3>1 DEF Fields, Admits, Verifies, LetsIn
  <2>4. CASE ~isCrossTenant
    <3>1. t = TenantOf[config.tenantId]
      BY <2>2, <2>4 DEF isCrossTenant, Invited
    <3>2. \A f \in Fields : doc.fields[f] \in {config.tenantId, t}
      BY <2>1, <2>4, <3>1 DEF msMetadataTenant, Named
    <3>3. Admits(doc, t) /\ LetsIn(doc.fields["jwks_uri"], t)
      BY <3>1, <3>2 DEF Fields, Admits, LetsIn
    <3>4. doc.readAt # None => doc.fields["issuer"] = t
      BY <2>1, <2>4, <3>1 DEF Named, Fields
    <3>5. config.tenantId \in Tenants => doc.fields["issuer"] = t
      BY <3>1, <3>2 DEF Fields
    <3> QED
      BY <3>3, <3>4, <3>5 DEF Verifies
  <2> QED
    BY <2>3, <2>4
<1> QED
  BY <1>1, Invariance, PTL

\* No order of requests hands credentials to anybody the policy does not name, or
\* announces a registration that answers 404.
THEOREM RegistrationIsGuarded == Spec => []RegistrationFollowsPolicy
<1>1. IInv => RegistrationFollowsPolicy
  <2> SUFFICES ASSUME IInv, NEW r \in Requests
               PROVE  /\ request[r].status = 201 => Permitted(request[r].presented)
                      /\ (\E q \in Requests : HasDocument(q) /\ request[q].doc.registration) =>
                           \A p \in RegTokens \cup {None} : RegistrationStatus(p) # 404
    BY DEF RegistrationFollowsPolicy, Permitted
  <2>1. request[r].status = 201 => Permitted(request[r].presented)
    BY DEF IInv, AnswerIsTrue
  <2>2. ASSUME NEW q \in Requests, HasDocument(q), request[q].doc.registration
        PROVE  config.clientId /\ config.secret
    BY <2>2 DEF IInv, AnswerIsTrue, HasDocument, DocumentIsTrue, Enabled
  <2>3. config.clientId /\ config.secret =>
          \A p \in RegTokens \cup {None} : RegistrationStatus(p) # 404
    BY DEF RegistrationStatus
  <2> QED
    BY <2>1, <2>2, <2>3
<1> QED
  BY <1>1, Invariance, PTL

-----------------------------------------------------------------------------
\* A request gets its document from the cache or from the end of its own fetch.
LEMMA DocumentsComeFrom ==
  ASSUME IInv, Next, NEW r \in Requests, request[r].doc = None, request'[r].doc # None
  PROVE  Discover(r) \/ FetchReturns(r) \/ FetchFails(r)
<1>1. ASSUME NEW q \in Requests, q # r,
             Discover(q) \/ ProtectedResource(q) \/ Settle(q) \/ Leave(q) \/ EntraReads(q)
               \/ \E p \in RegTokens \cup {None} : Register(q, p)
      PROVE  request'[r] = request[r]
  BY <1>1 DEF IInv, TypeOK, Discover, ProtectedResource, Settle, FetchReturns, FetchFails,
              Leave, EntraReads, Register, Answer, AnswerTo
<1>2. ~Tick
  BY DEF Tick
<1>3. ~Leave(r) /\ ~ProtectedResource(r) /\ \A p \in RegTokens \cup {None} : ~Register(r, p)
  BY DEF IInv, TypeOK, Leave, Idle, ProtectedResource, Register, Answer, AnswerTo
<1>4. ~EntraReads(r)
  BY DEF IInv, TypeOK, Request, EntraReads
<1> QED
  BY <1>1, <1>2, <1>3, <1>4 DEF Next, Settle

\* What a discovery serves from the cache is recent.
LEMMA DiscoverServes ==
  ASSUME IInv, NEW r \in Requests, Discover(r), request'[r].doc # None
  PROVE  request'[r].doc.readAt \in Nat /\ now < request'[r].doc.readAt + TTL
<1> DEFINE m == msMetadataCache[msMetadataTenant].metadata
<1>1. request \in [Requests -> Request]
  BY DEF IInv, TypeOK
<1>2. ~Enabled => request'[r].doc = None
  BY <1>1 DEF Discover, Answer, AnswerTo
<1>3. Enabled /\ ~CacheHit(msMetadataTenant) => request'[r].doc = None
  BY <1>1 DEF Discover, Idle
<1>4. Enabled /\ CacheHit(msMetadataTenant)
  BY <1>2, <1>3
<1>5. m \in Metadata /\ Quotes(m) /\ now < m.readAt + TTL
  BY <1>4, HitQuotes
<1>6. request'[r].doc = DiscoveryDocument(m)
  BY <1>1, <1>4 DEF Discover, Answer, AnswerTo
<1> QED
  BY <1>5, <1>6 DEF DiscoveryDocument, Quotes

\* However many responses overtake one another, no document quotes what Entra said
\* an hour ago or more, unless the request itself waited for it.
THEOREM DocumentsAreRecent == Spec => ServedMetadataIsRecent
<1> DEFINE Recent == \A r \in Requests : ~HasDocument(r) /\ HasDocument(r)' =>
                       LET readAt == request'[r].doc.readAt
                       IN readAt # None => now < readAt + TTL \/ now <= readAt + FetchTime
<1>1. ASSUME IInv, [Next]_vars PROVE [Recent]_vars
  <2> SUFFICES ASSUME Next, NEW r \in Requests, ~HasDocument(r), HasDocument(r)',
                      request'[r].doc.readAt # None
               PROVE  LET readAt == request'[r].doc.readAt
                      IN now < readAt + TTL \/ now <= readAt + FetchTime
    BY <1>1
  <2>1. Discover(r) \/ FetchReturns(r) \/ FetchFails(r)
    BY <1>1, DocumentsComeFrom DEF HasDocument
  <2>2. CASE Discover(r)
    BY <1>1, <2>2, DiscoverServes DEF HasDocument
  <2>3. CASE FetchReturns(r)
    <3> DEFINE m == request[r].metadata
    <3>1. request[r] \in Request /\ now \in Nat
      BY <1>1 DEF IInv, TypeOK
    <3>2. request[r].stage = "read"
      BY <2>3 DEF FetchReturns
    <3>3. /\ Quotes(m) /\ request[r].start <= m.readAt
          /\ now <= request[r].start + FetchTime /\ request[r].start \in Nat
      BY <1>1, <3>1, <3>2 DEF IInv, FetchIsShort, Fetching, Request
    <3>4. now <= m.readAt + FetchTime
      BY <3>1, <3>3 DEF Quotes
    <3>5. request'[r].doc = DiscoveryDocument(m)
      BY <1>1, <2>3 DEF FetchReturns, Answer, AnswerTo, IInv, TypeOK
    <3> QED
      BY <3>4, <3>5 DEF DiscoveryDocument
  <2>4. CASE FetchFails(r)
    <3>1. request'[r].doc = DiscoveryDocument(NoMetadata)
      BY <1>1, <2>4 DEF FetchFails, Answer, AnswerTo, IInv, TypeOK
    <3> QED
      BY <3>1 DEF DiscoveryDocument, NoMetadata
  <2> QED
    BY <2>1, <2>2, <2>3, <2>4
<1> QED
  BY <1>1, Invariance, PTL DEF Spec, ServedMetadataIsRecent

\* What was made up for one request is never served to another.
THEOREM FailuresStayLocal == Spec => FailuresAreForgotten
<1> DEFINE Forgotten == \A r \in Requests : request[r].stage = "idle" /\ HasDocument(r)' =>
                          request'[r].doc.readAt # None
<1>1. ASSUME IInv, [Next]_vars PROVE [Forgotten]_vars
  <2> SUFFICES ASSUME Next, NEW r \in Requests, request[r].stage = "idle", HasDocument(r)'
               PROVE  request'[r].doc.readAt # None
    BY <1>1
  <2>1. request[r].doc = None
    BY <1>1 DEF IInv, AnswerIsTrue
  <2>2. ~FetchReturns(r) /\ ~FetchFails(r)
    BY DEF FetchReturns, FetchFails, Fetching
  <2>3. Discover(r)
    BY <1>1, <2>1, <2>2, DocumentsComeFrom DEF HasDocument
  <2> QED
    BY <1>1, <2>3, DiscoverServes DEF HasDocument
<1> QED
  BY <1>1, Invariance, PTL DEF Spec, FailuresAreForgotten
=============================================================================
