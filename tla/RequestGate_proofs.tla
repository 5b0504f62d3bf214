-------------------------- MODULE RequestGate_proofs --------------------------
(***************************************************************************)
(* Proofs about RequestGate, for any number of concurrent requests and any *)
(* tokens, configurations and times.                                       *)
(***************************************************************************)
EXTENDS RequestGate, TLAPS

\* The context that the wrapper of the host gives a request.
Outer(r) == [NoContext EXCEPT !["logSink"] = IF hosted THEN r ELSE None]

\* The token of the caller on whose behalf a request is served.
Whose(r) == IF config.disabled THEN None ELSE request[r].in.token

Progress == [stage : Stages, in : Inputs \cup {None}, askedAt : Nat, replies : Nat]

TypeInv ==
  /\ now \in 0..MaxTime
  /\ config \in Configs
  /\ hosted \in BOOLEAN
  /\ request \in [Requests -> Progress]
  /\ DOMAIN store = Requests
  /\ DOMAIN seen = Requests

\* A request that awaits a key has passed the first checks; one that is served
\* passed all of them, or needs none.
Admitted(r) ==
  /\ request[r].askedAt <= now
  /\ request[r].stage \in {"keys", "serving", "replied"} =>
       /\ request[r].in \in Inputs
       /\ config.disabled \/
            /\ config.complete
            /\ request[r].in.token # None
            /\ WorthAKey(request[r].in.token)
  /\ request[r].stage = "keys" => ~Exempt(request[r].in)

\* What a request has in its context at each stage, and what its operation can have
\* read there.
InContext(r) ==
  /\ request[r].stage \in {"arrived", "keys"} => store[r] = Outer(r)
  /\ request[r].stage \in {"serving", "replied"} =>
       store[r] = Merge(CallerContext(request[r].in, Whose(r)), Outer(r))
  /\ request[r].stage \notin {"serving", "replied"} => seen[r] = {}
  /\ seen[r] \subseteq {store[r]}
  /\ DOMAIN store[r] = ContextKeys

Replies(r) ==
  request[r].replies = (IF request[r].stage \in {"replied", "done"} THEN 1 ELSE 0)

RInv(r) == Admitted(r) /\ InContext(r) /\ Replies(r)

IInv == TypeInv /\ \A r \in Requests : RInv(r)

-----------------------------------------------------------------------------
\* A context laid over another has the same keys.
LEMMA MergeKeys == \A partial, outer : DOMAIN Merge(partial, outer) = ContextKeys
BY DEF Merge

\* The context of the host has the keys of every context.
LEMMA OuterKeys == \A r : DOMAIN Outer(r) = ContextKeys
BY DEF Outer, NoContext

\* What a step leaves as it was of one request keeps that request's invariant.
LEMMA Frame ==
  ASSUME NEW q \in Requests, RInv(q), now <= now', now \in Int, now' \in Int,
         request[q].askedAt \in Int,
         request'[q] = request[q], store'[q] = store[q], seen'[q] = seen[q],
         config' = config, hosted' = hosted
  PROVE  RInv(q)'
<1>1. Admitted(q)'
  BY DEF RInv, Admitted, Exempt, WorthAKey, isTrustedTenant
<1>2. InContext(q)'
  BY DEF RInv, InContext, Outer, Whose
<1>3. Replies(q)'
  BY DEF RInv, Replies
<1> QED BY <1>1, <1>2, <1>3 DEF RInv

\* So it is enough to look at the request that a step is about.
LEMMA OneRequest ==
  ASSUME IInv, NEW r \in Requests,
         request' \in [Requests -> Progress], DOMAIN store' = Requests, DOMAIN seen' = Requests,
         \A q \in Requests \ {r} :
           request'[q] = request[q] /\ store'[q] = store[q] /\ seen'[q] = seen[q],
         UNCHANGED <<now, config, hosted>>,
         RInv(r)'
  PROVE  IInv'
<1>1. TypeInv'
  BY DEF IInv, TypeInv
<1>2. ASSUME NEW q \in Requests, q # r PROVE RInv(q)'
  <2>1. now \in Int /\ now <= now' /\ now' \in Int
    BY TimesAssumption DEF IInv, TypeInv
  <2>2. request[q].askedAt \in Int
    BY DEF IInv, TypeInv, Progress
  <2> QED BY <1>2, <2>1, <2>2, Frame DEF IInv
<1> QED BY <1>1, <1>2 DEF IInv

LEMMA InitInv == Init => IInv
<1> SUFFICES ASSUME Init PROVE IInv
  OBVIOUS
<1>1. TypeInv
  BY TimesAssumption DEF Init, TypeInv, Idle, Progress, Stages
<1>2. ASSUME NEW r \in Requests PROVE RInv(r)
  <2>1. request[r] = Idle /\ store[r] = NoContext /\ seen[r] = {}
    BY DEF Init
  <2> QED BY <2>1, TimesAssumption DEF Init, RInv, Admitted, InContext, Replies, Idle, NoContext
<1> QED BY <1>1, <1>2 DEF IInv

\* A request that is over satisfies the invariant if it has been answered once.
LEMMA EndInv ==
  ASSUME IInv, NEW r \in Requests, NEW further \in Nat, End(r, further),
         request[r].replies + further = 1
  PROVE  IInv'
<1>1. request'[r] = [Idle EXCEPT !.stage = "done", !.replies = request[r].replies + further]
  BY DEF End, IInv, TypeInv
<1>2. request' \in [Requests -> Progress]
  <2>1. [Idle EXCEPT !.stage = "done", !.replies = 1] \in Progress
    BY DEF Idle, Progress, Stages
  <2> QED BY <2>1 DEF End, IInv, TypeInv
<1>3. /\ DOMAIN store' = Requests /\ DOMAIN seen' = Requests
      /\ UNCHANGED <<now, config, hosted, store>>
      /\ seen'[r] = {}
  BY DEF End, IInv, TypeInv
<1>4. RInv(r)'
  BY <1>1, <1>3, TimesAssumption DEF RInv, IInv, TypeInv, Admitted, InContext, Replies, Idle
<1>5. \A q \in Requests \ {r} :
        request'[q] = request[q] /\ store'[q] = store[q] /\ seen'[q] = seen[q]
  BY DEF End, IInv, TypeInv
<1> QED BY <1>2, <1>3, <1>4, <1>5, OneRequest

\* A request whose caller has been established, or needs none, may go on.
LEMMA HandleInv ==
  ASSUME IInv, NEW r \in Requests, NEW in \in Inputs, NEW token,
         request[r].stage \in {"arrived", "keys"},
         Handle(r, in, token),
         RunsOperation(in) => token = (IF config.disabled THEN None ELSE in.token),
         RunsOperation(in) /\ ~config.disabled =>
           config.complete /\ in.token # None /\ WorthAKey(in.token)
  PROVE  IInv'
<1>1. CASE ~RunsOperation(in)
  <2>1. End(r, 1)
    BY <1>1 DEF Handle, Answer
  <2>2. request[r].replies + 1 = 1
    BY DEF IInv, RInv, Replies
  <2> QED BY <2>1, <2>2, EndInv
<1>2. CASE RunsOperation(in)
  <2>1. /\ store' = [store EXCEPT ![r] = Merge(CallerContext(in, token), store[r])]
        /\ request' = [request EXCEPT ![r] = [@ EXCEPT !.stage = "serving", !.in = in]]
        /\ UNCHANGED <<now, config, hosted, seen>>
    BY <1>2 DEF Handle, runWithRequestContext
  <2>2. /\ request'[r] = [request[r] EXCEPT !.stage = "serving", !.in = in]
        /\ store'[r] = Merge(CallerContext(in, token), store[r])
        /\ request[r] \in Progress
    BY <2>1 DEF IInv, TypeInv
  <2>3. request'[r] \in Progress /\ request'[r].stage = "serving" /\ request'[r].in = in
        /\ request'[r].askedAt = request[r].askedAt /\ request'[r].replies = request[r].replies
    BY <2>2 DEF Progress, Stages
  <2>4. request' \in [Requests -> Progress] /\ DOMAIN store' = Requests /\ DOMAIN seen' = Requests
    BY <2>1, <2>2, <2>3 DEF IInv, TypeInv
  <2>5. Admitted(r)'
    BY <1>2, <2>1, <2>3 DEF IInv, RInv, Admitted, WorthAKey, isTrustedTenant
  <2>6. store[r] = Outer(r) /\ seen[r] = {}
    BY DEF IInv, RInv, InContext
  <2>7. InContext(r)'
    <3>1. Whose(r)' = token
      BY <1>2, <2>1, <2>3 DEF Whose
    <3>2. Outer(r)' = Outer(r)
      BY <2>1 DEF Outer
    <3>3. store'[r] = Merge(CallerContext(request'[r].in, Whose(r)'), Outer(r)')
      BY <2>2, <2>3, <2>6, <3>1, <3>2
    <3>4. CallerContext(request[r].in, Whose(r))' = CallerContext(request'[r].in, Whose(r)')
      BY DEF CallerContext
    <3>5. seen'[r] = {}
      BY <2>1, <2>6
    <3>6. DOMAIN store'[r] = ContextKeys
      BY <3>3, MergeKeys
    <3> QED BY <2>3, <3>3, <3>5, <3>6 DEF InContext, Merge, CallerContext
  <2>8. Replies(r)'
    BY <2>3 DEF IInv, RInv, Replies
  <2>9. \A q \in Requests \ {r} :
          request'[q] = request[q] /\ store'[q] = store[q] /\ seen'[q] = seen[q]
    BY <2>1 DEF IInv, TypeInv
  <2> QED BY <2>1, <2>4, <2>5, <2>7, <2>8, <2>9, OneRequest DEF RInv
<1> QED BY <1>1, <1>2

LEMMA StepInv == IInv /\ [Next]_vars => IInv'
<1> SUFFICES ASSUME IInv, [Next]_vars PROVE IInv'
  OBVIOUS
<1>1. ASSUME NEW r \in Requests, Arrive(r) PROVE IInv'
  <2>1. /\ request' = [request EXCEPT ![r].stage = "arrived"]
        /\ store' = [store EXCEPT ![r] = Outer(r)]
        /\ UNCHANGED <<now, config, hosted, seen>>
        /\ request[r].stage = "idle"
    BY <1>1 DEF Arrive, Outer
  <2>2. request[r] \in Progress /\ request'[r] = [request[r] EXCEPT !.stage = "arrived"]
    BY <2>1 DEF IInv, TypeInv
  <2>3. request'[r] \in Progress /\ request'[r].stage = "arrived"
        /\ request'[r].askedAt = request[r].askedAt /\ request'[r].replies = request[r].replies
    BY <2>2 DEF Progress, Stages
  <2>4. request' \in [Requests -> Progress] /\ DOMAIN store' = Requests /\ DOMAIN seen' = Requests
    BY <2>1, <2>2, <2>3 DEF IInv, TypeInv
  <2>5. Admitted(r)' /\ Replies(r)'
    BY <2>1, <2>3 DEF IInv, RInv, Admitted, Replies
  <2>6. InContext(r)'
    <3>1. store'[r] = Outer(r) /\ seen'[r] = {}
      BY <2>1 DEF IInv, TypeInv, RInv, InContext
    <3>2. Outer(r)' = Outer(r)
      BY <2>1 DEF Outer
    <3> QED BY <2>3, <3>1, <3>2, OuterKeys DEF InContext
  <2>7. \A q \in Requests \ {r} :
          request'[q] = request[q] /\ store'[q] = store[q] /\ seen'[q] = seen[q]
    BY <2>1 DEF IInv, TypeInv
  <2> QED BY <2>1, <2>4, <2>5, <2>6, <2>7, OneRequest DEF RInv
<1>2. ASSUME NEW r \in Requests, NEW in \in Inputs, Dispatch(r, in) PROVE IInv'
  <2>1. request[r].stage = "arrived"
    BY <1>2 DEF Dispatch
  <2>2. CASE Exempt(in)
    <3>1. Handle(r, in, None)
      BY <1>2, <2>2 DEF Dispatch
    <3>2. RunsOperation(in) => config.disabled
      BY <2>2 DEF Exempt, RunsOperation
    <3> QED BY <2>1, <3>1, <3>2, HandleInv
  <2>3. CASE ~Exempt(in) /\ ~(config.complete /\ in.token # None /\ WorthAKey(in.token))
    <3>1. End(r, 1)
      BY <1>2, <2>3 DEF Dispatch, Validate, Answer
    <3>2. request[r].replies + 1 = 1
      BY <2>1 DEF IInv, RInv, Replies
    <3> QED BY <3>1, <3>2, EndInv
  <2>4. CASE ~Exempt(in) /\ config.complete /\ in.token # None /\ WorthAKey(in.token)
    <3>1. /\ request' = [request EXCEPT ![r] = [@ EXCEPT !.stage = "keys", !.in = in, !.askedAt = now]]
          /\ UNCHANGED <<now, config, hosted, store, seen>>
      BY <1>2, <2>4 DEF Dispatch, Validate
    <3>2. /\ request[r] \in Progress
          /\ request'[r] = [request[r] EXCEPT !.stage = "keys", !.in = in, !.askedAt = now]
      BY <3>1 DEF IInv, TypeInv
    <3>3. now \in Nat
      BY TimesAssumption DEF IInv, TypeInv
    <3>4. request'[r] \in Progress /\ request'[r].stage = "keys" /\ request'[r].in = in
          /\ request'[r].askedAt = now /\ request'[r].replies = request[r].replies
      BY <3>2, <3>3 DEF Progress, Stages
    <3>5. request' \in [Requests -> Progress] /\ DOMAIN store' = Requests /\ DOMAIN seen' = Requests
      BY <3>1, <3>2, <3>4 DEF IInv, TypeInv
    <3>6. Admitted(r)'
      BY <2>4, <3>1, <3>3, <3>4 DEF Admitted, Exempt, WorthAKey, isTrustedTenant
    <3>7. InContext(r)' /\ Replies(r)'
      BY <2>1, <3>1, <3>4 DEF IInv, RInv, InContext, Replies, Outer
    <3>8. \A q \in Requests \ {r} :
            request'[q] = request[q] /\ store'[q] = store[q] /\ seen'[q] = seen[q]
      BY <3>1 DEF IInv, TypeInv
    <3> QED BY <3>1, <3>5, <3>6, <3>7, <3>8, OneRequest DEF RInv
  <2> QED BY <2>2, <2>3, <2>4
<1>3. ASSUME NEW r \in Requests, KeysAnswer(r) PROVE IInv'
  <2> DEFINE in == request[r].in
  <2>1. /\ request[r].stage = "keys" /\ in \in Inputs
        /\ ~config.disabled /\ config.complete /\ in.token # None /\ WorthAKey(in.token)
    BY <1>3 DEF KeysAnswer, IInv, RInv, Admitted, Exempt
  <2>2. CASE Valid(in.token, now)
    <3>1. Handle(r, in, in.token)
      BY <1>3, <2>2 DEF KeysAnswer
    <3> HIDE DEF in
    <3> QED BY <2>1, <3>1, HandleInv
  <2>3. CASE ~Valid(in.token, now)
    <3>1. End(r, 1)
      BY <1>3, <2>3 DEF KeysAnswer, Answer
    <3>2. request[r].replies + 1 = 1
      BY <2>1 DEF IInv, RInv, Replies
    <3> QED BY <3>1, <3>2, EndInv
  <2> QED BY <2>2, <2>3
<1>4. ASSUME NEW r \in Requests, KeysFail(r) PROVE IInv'
  <2>1. End(r, 1)
    BY <1>4 DEF KeysFail, Answer
  <2>2. request[r].replies + 1 = 1
    BY <1>4 DEF KeysFail, IInv, RInv, Replies
  <2> QED BY <2>1, <2>2, EndInv
<1>5. ASSUME NEW r \in Requests, Reply(r) PROVE IInv'
  <2>1. /\ request' = [request EXCEPT ![r] =
             [@ EXCEPT !.stage = "replied", !.replies = request[r].replies + 1]]
        /\ UNCHANGED <<now, config, hosted, store, seen>>
        /\ request[r].stage = "serving"
    BY <1>5 DEF Reply
  <2>2. request[r].replies + 1 = 1
    BY <2>1 DEF IInv, RInv, Replies
  <2>3. request' = [request EXCEPT ![r] = [@ EXCEPT !.stage = "replied", !.replies = 1]]
    BY <2>1, <2>2
  <2>4. request[r] \in Progress /\ request'[r] = [request[r] EXCEPT !.stage = "replied", !.replies = 1]
    BY <2>3 DEF IInv, TypeInv
  <2>5. request'[r] \in Progress /\ request'[r].stage = "replied" /\ request'[r].in = request[r].in
        /\ request'[r].askedAt = request[r].askedAt
        /\ request'[r].replies = 1
    <3>1. ASSUME NEW p \in Progress
          PROVE  LET q == [p EXCEPT !.stage = "replied", !.replies = 1]
                 IN q \in Progress /\ q.stage = "replied" /\ q.in = p.in /\ q.askedAt = p.askedAt
                    /\ q.replies = 1
      BY DEF Progress, Stages
    <3> QED BY <2>4, <3>1
  <2>6. request' \in [Requests -> Progress] /\ DOMAIN store' = Requests /\ DOMAIN seen' = Requests
    BY <2>1, <2>4, <2>5 DEF IInv, TypeInv
  <2>7. Admitted(r)'
    BY <2>1, <2>5 DEF IInv, RInv, Admitted, WorthAKey, isTrustedTenant
  <2>8. InContext(r)'
    BY <2>1, <2>5 DEF IInv, RInv, InContext, Outer, Whose
  <2>9. Replies(r)'
    BY <2>1, <2>5 DEF IInv, RInv, Replies
  <2>10. \A q \in Requests \ {r} :
          request'[q] = request[q] /\ store'[q] = store[q] /\ seen'[q] = seen[q]
    BY <2>1 DEF IInv, TypeInv
  <2> QED BY <2>1, <2>6, <2>7, <2>8, <2>9, <2>10, OneRequest DEF RInv
<1>6. ASSUME NEW r \in Requests, HandlerThrows(r) PROVE IInv'
  <2>1. End(r, IF request[r].stage = "replied" THEN 0 ELSE 1)
    BY <1>6 DEF HandlerThrows
  <2>2. request[r].replies + (IF request[r].stage = "replied" THEN 0 ELSE 1) = 1
    BY <1>6 DEF HandlerThrows, IInv, RInv, Replies
  <2>3. (IF request[r].stage = "replied" THEN 0 ELSE 1) \in Nat
    OBVIOUS
  <2> QED BY <2>1, <2>2, <2>3, EndInv
<1>7. ASSUME NEW r \in Requests, HandlerReturns(r) PROVE IInv'
  <2>1. End(r, 0) /\ request[r].replies + 0 = 1
    BY <1>7 DEF HandlerReturns, IInv, RInv, Replies
  <2> QED BY <2>1, EndInv
<1>8. ASSUME NEW r \in Requests, Operate(r) PROVE IInv'
  <2>1. /\ seen' = [seen EXCEPT ![r] = @ \cup {store[r]}]
        /\ UNCHANGED <<now, config, hosted, request, store>>
        /\ request[r].stage = "serving"
    BY <1>8 DEF Operate, getRequestContext
  <2>2. seen'[r] \subseteq {store[r]} /\ DOMAIN seen' = Requests
    BY <2>1 DEF IInv, TypeInv, RInv, InContext
  <2>3. RInv(r)'
    BY <2>1, <2>2 DEF IInv, RInv, Admitted, InContext, Replies, Outer, Whose, WorthAKey,
                      isTrustedTenant
  <2>4. \A q \in Requests \ {r} :
          request'[q] = request[q] /\ store'[q] = store[q] /\ seen'[q] = seen[q]
    BY <2>1 DEF IInv, TypeInv
  <2> QED BY <2>1, <2>2, <2>3, <2>4, OneRequest DEF IInv, TypeInv
<1>9. ASSUME NEW r \in Requests, Leave(r) PROVE IInv'
  <2>1. /\ request' = [request EXCEPT ![r] = Idle]
        /\ store' = [store EXCEPT ![r] = NoContext]
        /\ UNCHANGED <<now, config, hosted, seen>>
        /\ request[r].stage = "done"
    BY <1>9 DEF Leave
  <2>2. Idle \in Progress
    BY DEF Idle, Progress, Stages
  <2>3. request'[r] = Idle /\ store'[r] = NoContext /\ seen'[r] = {}
    BY <2>1 DEF IInv, TypeInv, RInv, InContext
  <2>4. request' \in [Requests -> Progress] /\ DOMAIN store' = Requests /\ DOMAIN seen' = Requests
    BY <2>1, <2>2 DEF IInv, TypeInv
  <2>5. RInv(r)'
    BY <2>1, <2>3, TimesAssumption
       DEF IInv, TypeInv, RInv, Admitted, InContext, Replies, Idle, NoContext
  <2>6. \A q \in Requests \ {r} :
          request'[q] = request[q] /\ store'[q] = store[q] /\ seen'[q] = seen[q]
    BY <2>1 DEF IInv, TypeInv
  <2> QED BY <2>1, <2>4, <2>5, <2>6, OneRequest
<1>10. CASE Tick
  <2>1. /\ now' = now + 1 /\ now < MaxTime /\ UNCHANGED <<config, hosted, request, store, seen>>
    BY <1>10 DEF Tick
  <2>2. now \in Int /\ now <= now' /\ now' \in 0..MaxTime
    BY <2>1, TimesAssumption DEF IInv, TypeInv
  <2>3. ASSUME NEW q \in Requests PROVE RInv(q)'
    <3>1. request[q].askedAt \in Int
      BY DEF IInv, TypeInv, Progress
    <3> QED BY <2>1, <2>2, <3>1, Frame DEF IInv
  <2> QED BY <2>1, <2>2, <2>3 DEF IInv, TypeInv
<1>11. CASE UNCHANGED vars
  <2>1. /\ now' = now /\ UNCHANGED <<config, hosted, request, store, seen>>
    BY <1>11 DEF vars
  <2>2. now \in Int /\ now <= now'
    BY <2>1, TimesAssumption DEF IInv, TypeInv
  <2>3. ASSUME NEW q \in Requests PROVE RInv(q)'
    <3>1. request[q].askedAt \in Int
      BY DEF IInv, TypeInv, Progress
    <3> QED BY <2>1, <2>2, <3>1, Frame DEF IInv
  <2> QED BY <2>1, <2>3 DEF IInv, TypeInv
<1> QED
  BY <1>1, <1>2, <1>3, <1>4, <1>5, <1>6, <1>7, <1>8, <1>9, <1>10, <1>11 DEF Next, Serve

\* The invariant holds in every reachable state.
THEOREM Inductive == Spec => []IInv
BY InitInv, StepInv, PTL DEF Spec

-----------------------------------------------------------------------------
\* Every reachable state of the request path is well typed.
THEOREM TypeCorrect == Spec => []TypeOK
<1>1. IInv => TypeOK
  <2> SUFFICES ASSUME IInv PROVE TypeOK
    OBVIOUS
  <2>1. ASSUME NEW r \in Requests
        PROVE  /\ request[r].stage \in Stages
               /\ request[r].in \in Inputs \cup {None}
               /\ request[r].askedAt \in 0..now
               /\ request[r].replies \in Nat
               /\ DOMAIN store[r] = ContextKeys
               /\ \A c \in seen[r] : DOMAIN c = ContextKeys
    BY TimesAssumption DEF IInv, TypeInv, Progress, RInv, Admitted, InContext
  <2> QED BY <2>1 DEF IInv, TypeInv, TypeOK
<1> QED BY <1>1, Inductive, PTL

\* What an operation reads as its context, after whichever of its awaits, is what was
\* established for its own request: caller, header and log sink.
THEOREM ContextsAreKept == Spec => []OperationsSeeTheirOwnContext
<1>1. IInv => OperationsSeeTheirOwnContext
  <2> SUFFICES ASSUME IInv, NEW r \in Requests, NEW c \in seen[r]
               PROVE  /\ c["serviceNowAccessToken"] = request[r].in.snToken
                      /\ c["callerEntraAccessToken"] =
                           (IF config.disabled THEN None ELSE request[r].in.token)
                      /\ c["callerEntraAccessToken"] # None =>
                           c["callerEntraObjectId"] = c["callerEntraAccessToken"].user
                      /\ c["logSink"] = (IF hosted THEN r ELSE None)
    BY DEF OperationsSeeTheirOwnContext
  <2>1. c = Merge(CallerContext(request[r].in, Whose(r)), Outer(r))
    BY DEF IInv, RInv, InContext
  <2>2. c["logSink"] = Outer(r)["logSink"]
    BY <2>1 DEF Merge, CallerContext, ContextKeys
  <2>3. c["logSink"] = (IF hosted THEN r ELSE None)
    BY <2>2 DEF Outer, NoContext, ContextKeys
  <2>4. /\ c["serviceNowAccessToken"] = request[r].in.snToken
        /\ c["callerEntraAccessToken"] = Whose(r)
        /\ c["callerEntraObjectId"] = (IF Whose(r) = None THEN None ELSE Whose(r).user)
    BY <2>1 DEF Merge, CallerContext, ContextKeys
  <2> QED BY <2>3, <2>4 DEF Whose
<1> QED BY <1>1, Inductive, PTL

\* A request that is over has been answered exactly once.
THEOREM AnsweredOnce == Spec => []OneReply
<1>1. IInv => OneReply
  BY DEF IInv, RInv, Replies, OneReply
<1> QED BY <1>1, Inductive, PTL

\* A request begins to be served only by the action that dispatches it or by the
\* arrival of its signing key.
LEMMA HowServingBegins ==
  ASSUME IInv, Next, NEW r \in Requests, ~Serving(r), Serving(r)'
  PROVE  KeysAnswer(r) \/ \E in \in Inputs : Dispatch(r, in)
<1>1. ASSUME NEW q \in Requests, q # r,
             \/ Arrive(q) \/ (\E in \in Inputs : Dispatch(q, in)) \/ KeysAnswer(q) \/ KeysFail(q)
             \/ Reply(q) \/ HandlerThrows(q) \/ HandlerReturns(q) \/ Operate(q) \/ Leave(q)
      PROVE  request'[r] = request[r]
  BY <1>1 DEF Arrive, Dispatch, KeysAnswer, KeysFail, Reply, HandlerThrows, HandlerReturns, Operate,
              Leave, Handle, Validate, Answer, End, IInv, TypeInv
<1>2. ASSUME Arrive(r) \/ KeysFail(r) \/ Reply(r) \/ HandlerThrows(r) \/ HandlerReturns(r) \/ Leave(r)
      PROVE  request'[r].stage # "serving"
  <2>1. request[r] \in Progress
    BY DEF IInv, TypeInv
  <2>2. ASSUME Arrive(r) PROVE request'[r].stage = "arrived"
    BY <2>1, <2>2 DEF Arrive, IInv, TypeInv, Progress
  <2>3. ASSUME Reply(r) PROVE request'[r].stage = "replied"
    <3>1. request'[r] = [request[r] EXCEPT !.stage = "replied", !.replies = request[r].replies + 1]
      BY <2>3 DEF Reply, IInv, TypeInv
    <3> QED BY <2>1, <3>1 DEF Progress
  <2>4. ASSUME Leave(r) PROVE request'[r].stage = "idle"
    BY <2>4 DEF Leave, Idle, IInv, TypeInv
  <2>5. ASSUME NEW further, End(r, further) PROVE request'[r].stage = "done"
    BY <2>5 DEF End, Idle, IInv, TypeInv
  <2> QED BY <1>2, <2>2, <2>3, <2>4, <2>5 DEF KeysFail, HandlerThrows, HandlerReturns, Answer
<1>3. ASSUME Operate(r) \/ Tick PROVE request' = request
  BY <1>3 DEF Operate, Tick
<1> QED BY <1>1, <1>2, <1>3 DEF Next, Serve, Serving

\* No operation begins but for a caller authorized at that moment.
THEOREM AccessIsAuthorized == Spec => OperationsAreAuthorized
<1> DEFINE Step == \A r \in Requests : ~Serving(r) /\ Serving(r)' /\ ~config.disabled =>
                     config.complete /\ Authorized(request'[r].in.token, now)
<1>1. IInv /\ [Next]_vars => [Step]_vars
  <2> SUFFICES ASSUME IInv, Next, NEW r \in Requests, ~Serving(r), Serving(r)', ~config.disabled
               PROVE  config.complete /\ Authorized(request'[r].in.token, now)
    OBVIOUS
  <2>1. request[r] \in Progress
    BY DEF IInv, TypeInv
  <2>2. ASSUME NEW in \in Inputs, Dispatch(r, in) PROVE FALSE
    <3>1. CASE Exempt(in)
      <4>1. End(r, 1)
        BY <2>2, <3>1 DEF Dispatch, Handle, Exempt, RunsOperation, Answer
      <4> QED BY <4>1 DEF End, Serving, Idle, IInv, TypeInv
    <3>2. CASE ~Exempt(in)
      <4>1. CASE End(r, 1)
        BY <4>1 DEF End, Serving, Idle, IInv, TypeInv
      <4>2. CASE request' = [request EXCEPT ![r] = [@ EXCEPT !.stage = "keys", !.in = in, !.askedAt = now]]
        <5>1. request'[r] = [request[r] EXCEPT !.stage = "keys", !.in = in, !.askedAt = now]
          BY <4>2 DEF IInv, TypeInv
        <5>2. request'[r].stage = "keys"
          BY <2>1, <5>1 DEF Progress
        <5> QED BY <5>2 DEF Serving
      <4> QED BY <2>2, <3>2, <4>1, <4>2 DEF Dispatch, Validate, Answer
    <3> QED BY <3>1, <3>2
  <2>3. KeysAnswer(r)
    BY <2>2, HowServingBegins
  <2> DEFINE in == request[r].in
  <2>4. config.complete /\ in.token # None /\ WorthAKey(in.token)
    BY <2>3 DEF KeysAnswer, IInv, RInv, Admitted
  <2>5. CASE ~Valid(in.token, now)
    <3>1. End(r, 1)
      BY <2>3, <2>5 DEF KeysAnswer, Answer
    <3> QED BY <3>1 DEF End, Serving, Idle, IInv, TypeInv
  <2>6. CASE Valid(in.token, now)
    <3>1. Handle(r, in, in.token)
      BY <2>3, <2>6 DEF KeysAnswer
    <3>2. request'[r].in = in
      <4>1. CASE RunsOperation(in)
        <5>1. request' = [request EXCEPT ![r] = [@ EXCEPT !.stage = "serving", !.in = in]]
          BY <3>1, <4>1 DEF Handle
        <5>2. request'[r] = [request[r] EXCEPT !.stage = "serving", !.in = in]
          BY <5>1 DEF IInv, TypeInv
        <5> QED BY <2>1, <5>2 DEF Progress
      <4>2. CASE ~RunsOperation(in)
        <5>1. End(r, 1)
          BY <3>1, <4>2 DEF Handle, Answer
        <5> QED BY <5>1 DEF End, Serving, Idle, IInv, TypeInv
      <4> QED BY <4>1, <4>2
    <3>3. Authorized(in.token, now)
      BY <2>4, <2>6 DEF Authorized, Valid, WorthAKey, isTrustedTenant, buildAcceptedAudiences
    <3> QED BY <2>4, <3>2, <3>3
  <2> QED BY <2>5, <2>6
<1> QED BY <1>1, Inductive, PTL DEF Spec, OperationsAreAuthorized
=============================================================================
