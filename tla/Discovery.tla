------------------------------ MODULE Discovery ------------------------------
(***************************************************************************)
(* The OAuth discovery endpoints of src/src/functions/oidc.ts: the OpenID  *)
(* discovery document, assembled from Entra's own, which is cached for an  *)
(* hour; the protected resource metadata; and dynamic client registration, *)
(* which hands out the credentials of the Entra application.               *)
(*                                                                         *)
(* Entra is external: it publishes one document for every tenant, found    *)
(* under the tenant's GUID or a domain of it, and one for all tenants      *)
(* ("common").  The GUID is what its documents and its tokens name.        *)
(***************************************************************************)
EXTENDS Integers

CONSTANTS
  Requests,   \* requests that can be in progress at once
  Configs,    \* the configurations of config.entraAuth, see Config
  Tenants,    \* Entra tenants, by their GUIDs
  Names,      \* what ENTRA_TENANT_ID may be set to: GUIDs and domains
  TenantOf,   \* per name: the tenant it denotes
  Common,     \* the authority for users of any tenant
  RegTokens,  \* registration access tokens
  TTL,        \* MS_METADATA_CACHE_TTL_MS, one hour
  FetchTime,  \* the 5 s timeout of a fetch
  None,
  MaxTime     \* bound of the model: the clock stops here

Scopes == {"openid", "profile", "offline_access", "access_as_user", "User.Read"}

\* scopes: ENTRA_OAUTH_SCOPES, empty when it is not set.
Config ==
  [tenantId : Names \cup {None}, clientId : BOOLEAN, secret : BOOLEAN,
   trusted : SUBSET Tenants, allowAny : BOOLEAN,
   dcrToken : RegTokens \cup {None}, dcrOpen : BOOLEAN, scopes : SUBSET Scopes]

ASSUME ConfigsAssumption == Configs \subseteq Config
ASSUME NamesAssumption ==
  /\ Tenants \subseteq Names /\ TenantOf \in [Names -> Tenants]
  /\ \A t \in Tenants : TenantOf[t] = t
  /\ Common \notin Names /\ None \notin Names \cup RegTokens \cup Int
ASSUME TimesAssumption == TTL \in Nat /\ FetchTime \in Nat /\ MaxTime \in Nat

VARIABLES
  now,              \* Date.now()
  config,           \* config.entraAuth
  msMetadataCache,  \* per authority: None, or metadata and when it expires
  request           \* per request: its progress and its answer

vars == <<now, config, msMetadataCache, request>>

Authorities == Names \cup {Common}
Fields == {"issuer", "authorization_endpoint", "token_endpoint", "jwks_uri"}

\* What is known of Entra's document: the authority that each of its fields names,
\* and when Entra read it, which the program does not know.
Metadata == [fields : UNION {[F -> Authorities] : F \in {{}, Fields}}, readAt : Nat \cup {None}]
NoMetadata == [fields |-> [f \in {} |-> Common], readAt |-> None]

CacheEntry == [metadata : Metadata, expiresAt : Nat]

\* "asked": the fetch is under way and Entra has yet to read its document; "read":
\* the response is on its way.
Stages == {"idle", "asked", "read", "answered"}
Fetching == {"asked", "read"}
Statuses == {0, 200, 201, 401, 403, 404}

\* status and doc are the answer; a document of the discovery has these parts.
Document ==
  [fields : [Fields -> Authorities], readAt : Nat \cup {None},
   registration : BOOLEAN, scopes : SUBSET Scopes]
Idle ==
  [stage |-> "idle", start |-> 0, metadata |-> NoMetadata, status |-> 0, doc |-> None,
   presented |-> None]
Request ==
  [stage : Stages, start : Nat, metadata : Metadata, status : Statuses,
   doc : Document \cup {None}, presented : RegTokens \cup {None}]

TypeOK ==
  /\ now \in Nat
  /\ config \in Configs
  /\ msMetadataCache \in [Authorities -> CacheEntry \cup {None}]
  /\ request \in [Requests -> Request]

Init ==
  /\ now = 0
  /\ config \in Configs
  /\ msMetadataCache = [a \in Authorities |-> None]
  /\ request = [r \in Requests |-> Idle]

-----------------------------------------------------------------------------
(* The document *)

\* Mutant: only ENTRA_ALLOW_ANY_TENANT makes the server a cross-tenant one.
isCrossTenant_AnyOnly == config.allowAny

\* Users of other tenants are to sign in as well.
isCrossTenant == config.allowAny \/ config.trusted \ {config.tenantId} # {}

msMetadataTenant == IF isCrossTenant THEN Common ELSE config.tenantId

getAdvertisedOAuthScopes ==
  (IF config.scopes # {} THEN config.scopes ELSE Scopes \ {"User.Read"})
    \cup {"openid", "offline_access"}

\* What the metadata does not say is made up from the configured name.
DiscoveryDocument(metadata) ==
  [fields |-> [f \in Fields |->
     IF f \in DOMAIN metadata.fields THEN metadata.fields[f] ELSE msMetadataTenant],
   readAt |-> metadata.readAt,
   registration |-> config.secret,
   scopes |-> getAdvertisedOAuthScopes]

\* presented: the bearer token of a registration.
AnswerTo(presented, r, status, doc) ==
  request' = [request EXCEPT ![r] =
    [stage |-> "answered", start |-> 0, metadata |-> NoMetadata, status |-> status,
     doc |-> doc, presented |-> presented]]

Answer(r, status, doc) == AnswerTo(None, r, status, doc)

-----------------------------------------------------------------------------
(* /.well-known/openid-configuration and its alias *)

Enabled == config.tenantId # None /\ config.clientId

\* Does the cache answer at this moment?
CacheHit(a) == msMetadataCache[a] # None /\ now < msMetadataCache[a].expiresAt

\* The handler up to the await of the fetch, or to its end.
Discover(r) ==
  /\ request[r].stage = "idle"
  /\ IF ~Enabled THEN Answer(r, 404, None)
     ELSE IF CacheHit(msMetadataTenant)
       THEN Answer(r, 200, DiscoveryDocument(msMetadataCache[msMetadataTenant].metadata))
       ELSE request' = [request EXCEPT ![r] = [Idle EXCEPT !.stage = "asked", !.start = now]]
  /\ UNCHANGED <<now, config, msMetadataCache>>

\* Mutant: the hour is counted from the arrival of the response.
NewEntry_FromArrival(r) == [metadata |-> request[r].metadata, expiresAt |-> now + TTL]

\* The hour is counted from the beginning of the call.
NewEntry(r) == [metadata |-> request[r].metadata, expiresAt |-> request[r].start + TTL]

\* The response arrives and is stored, whatever is in the cache by now.
FetchReturns(r) ==
  /\ request[r].stage = "read"
  /\ msMetadataCache' = [msMetadataCache EXCEPT ![msMetadataTenant] = NewEntry(r)]
  /\ Answer(r, 200, DiscoveryDocument(request[r].metadata))
  /\ UNCHANGED <<now, config>>

\* Mutant: the failure is cached like an answer.
FetchFails_Cached(r) ==
  /\ request[r].stage \in Fetching
  /\ msMetadataCache' = [msMetadataCache EXCEPT ![msMetadataTenant] =
       [metadata |-> NoMetadata, expiresAt |-> request[r].start + TTL]]
  /\ Answer(r, 200, DiscoveryDocument(NoMetadata))
  /\ UNCHANGED <<now, config>>

\* Mutant: the failure is not caught.
FetchFails_Thrown(r) ==
  /\ request[r].stage \in Fetching
  /\ request' = [request EXCEPT ![r] = Idle]
  /\ UNCHANGED <<now, config, msMetadataCache>>

\* The fetch fails or times out: the document is made up, and nothing is cached.
FetchFails(r) ==
  /\ request[r].stage \in Fetching
  /\ Answer(r, 200, DiscoveryDocument(NoMetadata))
  /\ UNCHANGED <<now, config, msMetadataCache>>

-----------------------------------------------------------------------------
(* /.well-known/oauth-protected-resource and /oauth/register *)

\* It names this server as the authorization server of its MCP endpoint.
ProtectedResource(r) ==
  /\ request[r].stage = "idle"
  /\ Answer(r, IF Enabled THEN 200 ELSE 404, None)
  /\ UNCHANGED <<now, config, msMetadataCache>>

\* Mutant: a request without a token is not compared with the configured one.
RegistrationStatus_Unpresented(presented) ==
  IF ~config.clientId \/ ~config.secret THEN 404
  ELSE IF config.dcrToken = None /\ ~config.dcrOpen THEN 403
  ELSE IF presented # None /\ config.dcrToken \notin {None, presented} THEN 401
  ELSE 201

\* The policy of the registration, in the order of its early returns.
RegistrationStatus(presented) ==
  IF ~config.clientId \/ ~config.secret THEN 404
  ELSE IF config.dcrToken = None /\ ~config.dcrOpen THEN 403
  ELSE IF config.dcrToken \notin {None, presented} THEN 401
  ELSE 201

\* 201 carries the client id and the client secret.
Register(r, presented) ==
  /\ request[r].stage = "idle"
  /\ AnswerTo(presented, r, RegistrationStatus(presented), None)
  /\ UNCHANGED <<now, config, msMetadataCache>>

-----------------------------------------------------------------------------
\* The response has been sent; another request may take its place.
Leave(r) ==
  /\ request[r].stage = "answered"
  /\ request' = [request EXCEPT ![r] = Idle]
  /\ UNCHANGED <<now, config, msMetadataCache>>

\* Entra reads its document for the authority, which names tenants by their GUIDs.
EntraReads(r) ==
  /\ request[r].stage = "asked"
  /\ LET a == msMetadataTenant
         named == IF a = Common THEN Common ELSE TenantOf[a]
     IN request' = [request EXCEPT ![r].stage = "read",
          ![r].metadata = [fields |-> [f \in Fields |-> named], readAt |-> now]]
  /\ UNCHANGED <<now, config, msMetadataCache>>

\* Time passes, but not beyond the timeout of a fetch.
Tick ==
  /\ now < MaxTime
  /\ \A r \in Requests : request[r].stage \in Fetching => now < request[r].start + FetchTime
  /\ now' = now + 1
  /\ UNCHANGED <<config, msMetadataCache, request>>

Settle(r) == FetchReturns(r) \/ FetchFails(r)

Next ==
  \/ \E r \in Requests :
       \/ Discover(r) \/ ProtectedResource(r) \/ Settle(r) \/ Leave(r) \/ EntraReads(r)
       \/ \E presented \in RegTokens \cup {None} : Register(r, presented)
  \/ Tick

\* The timeout settles every fetch.
Fairness == \A r \in Requests : WF_vars(Settle(r))

Spec == Init /\ [][Next]_vars
FairSpec == Spec /\ Fairness

-----------------------------------------------------------------------------
HasDocument(r) == request[r].doc # None

\* Who is to be able to sign in: users of the configured tenant, of those trusted
\* besides, or of any.
Invited(t) == t = TenantOf[config.tenantId] \/ t \in config.trusted \/ config.allowAny

\* The authority lets users of the tenant in.
LetsIn(a, t) == a = Common \/ TenantOf[a] = t

\* A user of tenant t can sign in where the document says, and a client finds the
\* issuer of the token, which names t by its GUID, and its key as announced.
Admits(doc, t) == \A f \in {"authorization_endpoint", "token_endpoint"} : LetsIn(doc.fields[f], t)
Verifies(doc, t) == doc.fields["issuer"] \in {Common, t} /\ LetsIn(doc.fields["jwks_uri"], t)

\* The tenant rule of validateEntraToken.
AcceptsTenant(t) == t = config.tenantId \/ t \in config.trusted \/ config.allowAny

\* A document that quotes Entra quotes what Entra read less than an hour ago, or
\* within the fetch of this very request, however responses overtake one another.
ServedMetadataIsRecent ==
  [][\A r \in Requests : ~HasDocument(r) /\ HasDocument(r)' =>
       LET readAt == request'[r].doc.readAt
       IN readAt # None => now < readAt + TTL \/ now <= readAt + FetchTime]_vars

\* A failed fetch costs the request that met it, and no other: what is made up in
\* its place is never served from the cache.
FailuresAreForgotten ==
  [][\A r \in Requests : request[r].stage = "idle" /\ HasDocument(r)' =>
       request'[r].doc.readAt # None]_vars

\* Everyone who is invited can sign in with the announced endpoints and gets a token
\* that its client can verify, whether the document quotes Entra or is made up
\* (unless a domain was configured, which no token names).
EveryoneInvitedCanSignIn ==
  \A r \in Requests : HasDocument(r) =>
    LET doc == request[r].doc
    IN \A t \in Tenants : Invited(t) =>
         /\ Admits(doc, t)
         /\ doc.readAt # None \/ config.tenantId \in Tenants => Verifies(doc, t)

\* A user of the configured tenant who signs in as a document that quotes Entra says,
\* and whose client verified the token, comes back with a token of a tenant that the
\* validator accepts: its primaryTenantId is a "GUID or domain"
\* (src/src/services/entraTokenValidator.ts:123).
HomeTokensAreAccepted ==
  \A r \in Requests : HasDocument(r) =>
    LET own == TenantOf[config.tenantId]
        doc == request[r].doc
    IN doc.readAt # None /\ Admits(doc, own) /\ Verifies(doc, own) => AcceptsTenant(own)

\* Credentials are handed out only as the policy says, to the bearer of the
\* configured token or, without one, on a server opened on purpose; and a client that
\* follows an announced registration endpoint is never told that there is none.
RegistrationFollowsPolicy ==
  \A r \in Requests :
    /\ request[r].status = 201 =>
         \/ config.dcrToken # None /\ request[r].presented = config.dcrToken
         \/ config.dcrToken = None /\ config.dcrOpen
    /\ (\E q \in Requests : HasDocument(q) /\ request[q].doc.registration) =>
         \A p \in RegTokens \cup {None} : RegistrationStatus(p) # 404

\* Every request is answered, whether or not Entra is.
DiscoveriesAreAnswered ==
  \A r \in Requests : request[r].stage \in Fetching ~> request[r].stage = "answered"
=============================================================================
