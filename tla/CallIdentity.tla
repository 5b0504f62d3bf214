---------------------------- MODULE CallIdentity ----------------------------
(***************************************************************************)
(* On whose behalf the server calls ServiceNow.  An operation runs in the  *)
(* context of one inbound request and makes several HTTP calls.            *)
(*   - Operations of ServiceNowClient go through the request interceptor   *)
(*     of its axios instance (src/src/services/servicenowClient.ts), which *)
(*     chooses an identity afresh for every call: the header token, else   *)
(*     an OBO exchange, else the integration user, with two awaits.        *)
(*   - validate_servicenow_configuration                                   *)
(*     (src/src/tools/validateServiceNowConfiguration.ts) chooses a token  *)
(*     once, by a rule of its own, for all of its calls.                   *)
(* Both sources of tokens are known by their promise only (TokenService):  *)
(* an answer is a failure or a token of the principal it was asked for.    *)
(***************************************************************************)
EXTENDS Integers, FiniteSets

CONSTANTS
  Ops,       \* operations in progress
  Users,     \* callers of the server
  MaxCalls,  \* bound: HTTP calls an operation makes at most
  Nobody     \* no user: the owner of the integration identity

ASSUME MaxCallsAssumption == MaxCalls \in Nat

VARIABLES
  cfg,    \* the configuration: requireCallerAccessToken, isOboEnabled()
  ctx,    \* per operation: the request context
  kind,   \* per operation: "client", "validate" or "validate_forced"
  stage,  \* per operation: where it is
  calls,  \* per operation: HTTP calls begun
  bearer, \* per operation: the identity put on the call being sent
  used    \* per operation: the identities that authenticated its calls

callVars == <<cfg, ctx, kind, stage, calls, bearer, used>>

HeaderOf(u) == [source |-> "caller_header", user |-> u]
OboOf(u) == [source |-> "obo", user |-> u]
IntegrationUser == [source |-> "integration_user", user |-> Nobody]
Identity == {HeaderOf(u) : u \in Users} \cup {OboOf(u) : u \in Users} \cup {IntegrationUser}

Configs == [require : BOOLEAN, obo : BOOLEAN]
Contexts == [user : Users, header : BOOLEAN, entra : BOOLEAN]
Kinds == {"client", "validate", "validate_forced"}
\* "obo" and "integration" are the awaits of the two token sources, "send" has
\* a token, "threw" is a call that failed before it was sent.
Stages == {"idle", "ready", "obo", "integration", "send", "threw", "ended"}

CallsTypeOK ==
  /\ cfg \in Configs
  /\ ctx \in [Ops -> Contexts]
  /\ kind \in [Ops -> Kinds]
  /\ stage \in [Ops -> Stages]
  /\ calls \in [Ops -> 0..MaxCalls]
  /\ bearer \in [Ops -> Identity]
  /\ used \in [Ops -> SUBSET Identity]

CallsInit ==
  /\ cfg \in Configs
  /\ ctx \in [Ops -> Contexts]
  /\ kind \in [Ops -> Kinds]
  /\ stage = [o \in Ops |-> "idle"]
  /\ calls = [o \in Ops |-> 0]
  /\ bearer = [o \in Ops |-> IntegrationUser]
  /\ used = [o \in Ops |-> {}]

Goto(o, s) == stage' = [stage EXCEPT ![o] = s]
Authorize(o, id) == bearer' = [bearer EXCEPT ![o] = id] /\ Goto(o, "send")

\* Is an OBO exchange attempted for this operation?
UsesObo(o) == cfg.obo /\ ctx[o].entra

-----------------------------------------------------------------------------
\* The interceptor goes on without a token: it throws when the configuration
\* requires a caller's token, and asks for the integration user's otherwise.
WithoutToken(o) ==
  IF cfg.require THEN Goto(o, "threw") ELSE Goto(o, "integration")

\* The interceptor up to its first await.
Intercept(o) ==
  \/ /\ ctx[o].header
     /\ Authorize(o, HeaderOf(ctx[o].user))
  \/ /\ ~ctx[o].header
     /\ IF UsesObo(o) THEN Goto(o, "obo") ELSE WithoutToken(o)
     /\ UNCHANGED bearer

\* An operation of ServiceNowClient begins its next HTTP call.
BeginCall(o) ==
  /\ kind[o] = "client"
  /\ stage[o] \in {"idle", "ready"}
  /\ calls[o] < MaxCalls
  /\ calls' = [calls EXCEPT ![o] = @ + 1]
  /\ Intercept(o)
  /\ UNCHANGED <<cfg, ctx, kind, used>>

\* The exchange succeeded: the call is made as the caller.
OboAnswers(o) ==
  /\ stage[o] = "obo"
  /\ Authorize(o, OboOf(ctx[o].user))
  /\ UNCHANGED <<cfg, ctx, kind, calls, used>>

\* Mutant: a failed exchange always falls back.
OboFails_AlwaysFallsBack(o) ==
  /\ stage[o] = "obo"
  /\ Goto(o, "integration")
  /\ UNCHANGED <<cfg, ctx, kind, calls, bearer, used>>

\* The exchange failed: the interceptor rethrows or falls back; the tool fails.
OboFails(o) ==
  /\ stage[o] = "obo"
  /\ IF kind[o] = "client" THEN WithoutToken(o) ELSE Goto(o, "ended")
  /\ UNCHANGED <<cfg, ctx, kind, calls, bearer, used>>

\* TokenManager answers with the integration user's token ...
IntegrationAnswers(o) ==
  /\ stage[o] = "integration"
  /\ Authorize(o, IntegrationUser)
  /\ UNCHANGED <<cfg, ctx, kind, calls, used>>

\* ... or rejects.
IntegrationFails(o) ==
  /\ stage[o] = "integration"
  /\ Goto(o, IF kind[o] = "client" THEN "threw" ELSE "ended")
  /\ UNCHANGED <<cfg, ctx, kind, calls, bearer, used>>

\* The call goes out; the operation goes on whatever comes back.
Send(o) ==
  /\ stage[o] = "send"
  /\ used' = [used EXCEPT ![o] = @ \cup {bearer[o]}]
  /\ Goto(o, "ready")
  /\ UNCHANGED <<cfg, ctx, kind, calls, bearer>>

\* A call that threw ends the operation, or is caught by it (a failed lookup,
\* enrichment or patch) and the operation goes on.
Caught(o) == stage[o] = "threw" /\ Goto(o, "ready") /\ UNCHANGED <<cfg, ctx, kind, calls, bearer, used>>
End(o) ==
  /\ stage[o] \in {"ready", "threw"}
  /\ Goto(o, "ended")
  /\ UNCHANGED <<cfg, ctx, kind, calls, bearer, used>>

\* validate_servicenow_configuration chooses its token, once.
ChooseToken(o) ==
  /\ kind[o] # "client"
  /\ stage[o] = "idle"
  /\ LET forced == kind[o] = "validate_forced" IN
       \/ /\ ~forced /\ ctx[o].header
          /\ Authorize(o, HeaderOf(ctx[o].user))
       \/ /\ ~forced /\ ~ctx[o].header /\ UsesObo(o)
          /\ Goto(o, "obo") /\ UNCHANGED bearer
       \/ /\ forced \/ (~ctx[o].header /\ ~UsesObo(o))
          /\ Goto(o, "integration") /\ UNCHANGED bearer
  /\ UNCHANGED <<cfg, ctx, kind, calls, used>>

\* Mutant: the token is asked for again before every probe.
NextProbe_NewToken(o) ==
  /\ kind[o] # "client"
  /\ stage[o] = "ready"
  /\ calls[o] < MaxCalls
  /\ calls' = [calls EXCEPT ![o] = @ + 1]
  /\ Goto(o, "integration")
  /\ UNCHANGED <<cfg, ctx, kind, bearer, used>>

\* ... and makes every further call with it.
NextProbe(o) ==
  /\ kind[o] # "client"
  /\ stage[o] = "ready"
  /\ calls[o] < MaxCalls
  /\ calls' = [calls EXCEPT ![o] = @ + 1]
  /\ Goto(o, "send")
  /\ UNCHANGED <<cfg, ctx, kind, bearer, used>>

Step(o) ==
  \/ BeginCall(o) \/ OboAnswers(o) \/ OboFails(o)
  \/ IntegrationAnswers(o) \/ IntegrationFails(o)
  \/ Send(o) \/ Caught(o) \/ End(o) \/ ChooseToken(o) \/ NextProbe(o)

CallsNext == \E o \in Ops : Step(o)

CallsSpec == CallsInit /\ [][CallsNext]_callVars

-----------------------------------------------------------------------------
ClientOps == {o \in Ops : kind[o] = "client"}

\* When a caller's token is required, every call of an operation of the client
\* is made under one and the same identity, the caller's, however often the
\* exchange fails and recovers while the operation runs.
CallerIdentityWhenRequired ==
  \A o \in ClientOps : cfg.require =>
    used[o] \subseteq {HeaderOf(ctx[o].user)} \/ used[o] \subseteq {OboOf(ctx[o].user)}

\* validate_servicenow_configuration reports one authMode: all of its calls are
\* made with the one token it chose.
OneTokenPerValidation ==
  \A o \in Ops \ ClientOps : Cardinality(used[o]) <= 1

\* config.ts:30-32: when the option is set, all ServiceNow calls use a caller's
\* token, and nothing falls back to the shared integration identity.
AllCallsUseCallerToken ==
  cfg.require => \A o \in Ops : IntegrationUser \notin used[o]
=============================================================================
