----------------------------- MODULE RequestGate -----------------------------
(***************************************************************************)
(* The path of an inbound request up to the operation it asks for: the     *)
(* wrapper of the Azure Functions host (functions/wrap.ts), the gate of    *)
(* the MCP endpoint (app.ts) or of the catalog API (functions/             *)
(* catalogApi.ts), entraAuthMiddleware and validateEntraToken, and the     *)
(* request context the operation runs in (requestContext.ts).              *)
(*                                                                         *)
(* External: getSigningKey is known by its promise (module SigningKeys):   *)
(* it answers within two fetches, with a key of the tenant it was asked    *)
(* about; and the MCP transport, which serves POST and refuses other       *)
(* methods.                                                                *)
(***************************************************************************)
EXTENDS Integers, FiniteSets

CONSTANTS
  Requests,   \* requests that can be in progress at once
  Inputs,     \* what requests may ask for, see Input
  Configs,    \* the configurations of config.entraAuth, see Config
  Tenants, Users, Audiences,
  Home,       \* entra.tenantId
  Own,        \* the audiences derived from entra.clientId
  Skew,       \* MAX_CLOCK_SKEW_SECONDS
  FetchTime,  \* the timeout of a fetch of signing keys
  None,
  MaxTime     \* bound of the model: the clock stops here

\* readable: three segments, of which the first two decode to a header and claims
\* with an RS256 key id and a tid.  signedBy: the tenant whose key verifies the
\* signature.  iss: the tenant that a well-formed issuer names, else None.  exp and
\* nbf: None when absent.
Token ==
  [readable : BOOLEAN, tid : Tenants, signedBy : Tenants \cup {None},
   exp : Int \cup {None}, nbf : Int \cup {None}, iss : Tenants \cup {None},
   aud : SUBSET Audiences, user : Users]

\* body: is the body what the route expects?  snToken: x-servicenow-access-token.
Input ==
  [route : {"mcp", "catalog"}, method : {"POST", "GET", "OPTIONS", "DELETE", "PUT"}, body : BOOLEAN,
   token : Token \cup {None}, snToken : Users \cup {None}]

\* complete: are tenantId and clientId set?
Config ==
  [disabled : BOOLEAN, complete : BOOLEAN, trusted : SUBSET Tenants, allowAny : BOOLEAN,
   audience : Audiences \cup {None}, allowed : SUBSET Audiences]

ASSUME InputsAssumption == Inputs \subseteq Input /\ Configs \subseteq Config
ASSUME TimesAssumption == {Skew, FetchTime, MaxTime} \subseteq Nat /\ None \notin Int
ASSUME NamesAssumption ==
  /\ Home \in Tenants /\ Own \subseteq Audiences
  /\ None \notin Tenants \cup Users \cup Requests

VARIABLES
  now,      \* Date.now()
  config,   \* config.entraAuth
  hosted,   \* are requests wrapped by withFunctionContext?
  request,  \* per request: its progress
  store,    \* per request: the value of AsyncLocalStorage in its callbacks
  seen      \* per request: the contexts its operation has read

vars == <<now, config, hosted, request, store, seen>>

\* in is what the request asks for, while that matters; askedAt when its signing key
\* was asked for; replies counts the responses sent.
Idle == [stage |-> "idle", in |-> None, askedAt |-> 0, replies |-> 0]

Stages == {"idle", "arrived", "keys", "serving", "replied", "done"}
ContextKeys == {"logSink", "serviceNowAccessToken", "callerEntraObjectId",
                "callerEntraAccessToken"}
NoContext == [k \in ContextKeys |-> None]

TypeOK ==
  /\ now \in 0..MaxTime
  /\ config \in Configs
  /\ hosted \in BOOLEAN
  /\ \A r \in Requests :
       /\ request[r].stage \in Stages
       /\ request[r].in \in Inputs \cup {None}
       /\ request[r].askedAt \in 0..now
       /\ request[r].replies \in Nat
       /\ DOMAIN store[r] = ContextKeys
       /\ \A c \in seen[r] : DOMAIN c = ContextKeys

Init ==
  /\ now = 0
  /\ config \in Configs
  /\ hosted \in BOOLEAN
  /\ request = [r \in Requests |-> Idle]
  /\ store = [r \in Requests |-> NoContext]
  /\ seen = [r \in Requests |-> {}]

-----------------------------------------------------------------------------
(* validateEntraToken *)

buildAcceptedAudiences == Own \cup ({config.audience} \ {None}) \cup config.allowed

isTrustedTenant(t) == t = Home \/ t \in config.trusted

\* The checks before the signing key is awaited.
WorthAKey(token) == token.readable /\ (isTrustedTenant(token.tid) \/ config.allowAny)

\* The checks after it, against the clock at time t.
Valid(token, t) ==
  /\ token.signedBy = token.tid
  /\ token.exp # None /\ token.exp >= t
  /\ token.nbf # None => token.nbf <= t + Skew
  /\ token.iss = token.tid
  /\ token.aud \cap buildAcceptedAudiences # {}

-----------------------------------------------------------------------------
(* The request context *)

\* { ...outer, ...partial }
Merge(partial, outer) ==
  [k \in ContextKeys |-> IF k \in DOMAIN partial THEN partial[k] ELSE outer[k]]

\* Mutant: one context for the process.
runWithRequestContext_Global(r, partial) ==
  store' = [q \in Requests |-> Merge(partial, store[r])]

runWithRequestContext(r, partial) ==
  store' = [store EXCEPT ![r] = Merge(partial, store[r])]

\* What res.locals and the headers say of the caller.
CallerContext(in, token) ==
  [serviceNowAccessToken |-> in.snToken,
   callerEntraObjectId |-> IF token = None THEN None ELSE token.user,
   callerEntraAccessToken |-> token]

-----------------------------------------------------------------------------
(* The two routes *)

\* Request r is over, after this many further replies.
End(r, further) ==
  /\ request' = [request EXCEPT ![r] =
       [Idle EXCEPT !.stage = "done", !.replies = request[r].replies + further]]
  /\ seen' = [seen EXCEPT ![r] = {}]
  /\ UNCHANGED <<now, config, hosted, store>>

\* It is answered without running an operation.
Answer(r) == End(r, 1)

\* A POST of an acceptable body, or a GET of the catalog API, runs an operation;
\* everything else is answered by the routes, or by the transport, which does not
\* know other methods.
RunsOperation(in) == in.body /\ (in.method = "POST" \/ (in.method = "GET" /\ in.route = "catalog"))

\* What follows next(): the operation begins in the context of the caller.
Handle(r, in, token) ==
  IF RunsOperation(in)
    THEN /\ runWithRequestContext(r, CallerContext(in, token))
         /\ request' = [request EXCEPT ![r] = [@ EXCEPT !.stage = "serving", !.in = in]]
         /\ UNCHANGED <<now, config, hosted, seen>>
    ELSE Answer(r)

\* Requests that entraAuthMiddleware does not validate.
Exempt(in) == config.disabled \/ (in.route = "mcp" /\ in.method # "POST")

\* entraAuthMiddleware up to the await of the signing key: 503 without a complete
\* configuration, 401 without a bearer token or with one that is not worth a key.
Validate(r, in) ==
  IF config.complete /\ in.token # None /\ WorthAKey(in.token)
    THEN /\ request' = [request EXCEPT ![r] = [@ EXCEPT !.stage = "keys", !.in = in, !.askedAt = now]]
         /\ UNCHANGED <<now, config, hosted, store, seen>>
    ELSE Answer(r)

\* A request arrives; the wrapper of the host gives it a context of its own.
Arrive(r) ==
  /\ request[r].stage = "idle"
  /\ request' = [request EXCEPT ![r].stage = "arrived"]
  /\ store' = [store EXCEPT ![r] = [NoContext EXCEPT !["logSink"] = IF hosted THEN r ELSE None]]
  /\ UNCHANGED <<now, config, hosted, seen>>

Dispatch(r, in) ==
  /\ request[r].stage = "arrived"
  /\ IF Exempt(in) THEN Handle(r, in, None) ELSE Validate(r, in)

\* Mutant: the token is checked against the time at which it arrived.
KeysAnswer_ClockOfArrival(r) ==
  /\ request[r].stage = "keys"
  /\ LET in == request[r].in
     IN IF Valid(in.token, request[r].askedAt) THEN Handle(r, in, in.token) ELSE Answer(r)

\* The signing key of the tenant arrives; with a valid token, next() is called.
KeysAnswer(r) ==
  /\ request[r].stage = "keys"
  /\ LET in == request[r].in
     IN IF Valid(in.token, now) THEN Handle(r, in, in.token) ELSE Answer(r)

\* Mutant: a rejection that the middleware does not catch.
KeysFail_Uncaught(r) ==
  /\ request[r].stage = "keys"
  /\ request' = [request EXCEPT ![r].stage = "rejected"]
  /\ UNCHANGED <<now, config, hosted, store, seen>>

\* The key is unknown, or cannot be fetched.
KeysFail(r) ==
  /\ request[r].stage = "keys"
  /\ Answer(r)

getRequestContext(r) == store[r]

\* The operation reads its context, after whatever others did since its last await.
Operate(r) ==
  /\ request[r].stage = "serving"
  /\ seen' = [seen EXCEPT ![r] = @ \cup {getRequestContext(r)}]
  /\ UNCHANGED <<now, config, hosted, request, store>>

\* The operation ends, well or not, and the reply is sent.
Reply(r) ==
  /\ request[r].stage = "serving"
  /\ request' = [request EXCEPT ![r] = [@ EXCEPT !.stage = "replied", !.replies = request[r].replies + 1]]
  /\ UNCHANGED <<now, config, hosted, store, seen>>

\* Mutant: the error is answered whether or not a reply was sent.
HandlerThrows_Again(r) ==
  /\ request[r].stage \in {"serving", "replied"}
  /\ request[r].in.route = "mcp"
  /\ End(r, 1)

\* The handler of the MCP route throws, before or after the transport replied: a
\* 500 is sent unless headers were.
HandlerThrows(r) ==
  /\ request[r].stage \in {"serving", "replied"}
  /\ request[r].in.route = "mcp"
  /\ End(r, IF request[r].stage = "replied" THEN 0 ELSE 1)

HandlerReturns(r) ==
  /\ request[r].stage = "replied"
  /\ End(r, 0)

\* The request is over; another may take its place.
Leave(r) ==
  /\ request[r].stage = "done"
  /\ request' = [request EXCEPT ![r] = Idle]
  /\ store' = [store EXCEPT ![r] = NoContext]
  /\ UNCHANGED <<now, config, hosted, seen>>

\* Time passes, but not beyond the two fetches a signing key takes at most.
Tick ==
  /\ now < MaxTime
  /\ \A r \in Requests : request[r].stage = "keys" => now < request[r].askedAt + 2 * FetchTime
  /\ now' = now + 1
  /\ UNCHANGED <<config, hosted, request, store, seen>>

Serve(r) ==
  \/ \E in \in Inputs : Dispatch(r, in)
  \/ KeysAnswer(r) \/ KeysFail(r)
  \/ Reply(r) \/ HandlerThrows(r) \/ HandlerReturns(r)

Next ==
  \/ \E r \in Requests : Arrive(r) \/ Serve(r) \/ Operate(r) \/ Leave(r)
  \/ Tick

\* The fetches of the validator and the calls of the operations have timeouts; the
\* exchange of a caller token before such a call has none, and is taken to settle.
Fairness == \A r \in Requests : WF_vars(Serve(r))

Spec == Init /\ [][Next]_vars
FairSpec == Spec /\ Fairness

-----------------------------------------------------------------------------
\* Who may run an operation at time t: the bearer of an unexpired token for this
\* application, issued and signed by the tenant it names, if that tenant may be
\* trusted.
Authorized(token, t) ==
  /\ token # None
  /\ token.readable
  /\ token.signedBy = token.tid /\ token.iss = token.tid
  /\ token.tid = Home \/ token.tid \in config.trusted \/ config.allowAny
  /\ token.exp # None /\ token.exp >= t
  /\ token.nbf # None => token.nbf <= t + Skew
  /\ token.aud \cap (Own \cup {config.audience} \cup config.allowed) # {}

Serving(r) == request[r].stage = "serving"

\* Unless authentication is disabled, no operation begins, by whichever route and
\* method, but for an authorized caller of a completely configured server; the token
\* counts at that moment, not when the request came or its key was asked for.
OperationsAreAuthorized ==
  [][\A r \in Requests : ~Serving(r) /\ Serving(r)' /\ ~config.disabled =>
       config.complete /\ Authorized(request'[r].in.token, now)]_vars

\* Whatever other requests do between two awaits of an operation, it acts for the
\* caller whose token was validated, with the header of its own request, and logs
\* to its own invocation: laying the caller over the context of the wrapper does
\* not lose that.
OperationsSeeTheirOwnContext ==
  \A r \in Requests : \A c \in seen[r] :
    /\ c["serviceNowAccessToken"] = request[r].in.snToken
    /\ c["callerEntraAccessToken"] = (IF config.disabled THEN None ELSE request[r].in.token)
    /\ c["callerEntraAccessToken"] # None =>
         c["callerEntraObjectId"] = c["callerEntraAccessToken"].user
    /\ c["logSink"] = (IF hosted THEN r ELSE None)

\* No request is answered twice, and none is over without an answer.
OneReply == \A r \in Requests : request[r].stage = "done" => request[r].replies = 1

\* Every request that arrives is answered.
RequestsAreAnswered == \A r \in Requests : request[r].stage = "arrived" ~> request[r].stage = "done"
=============================================================================
