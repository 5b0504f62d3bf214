----------------------------- MODULE PlaceOrder -----------------------------
(***************************************************************************)
(* One placement of an order: ServiceNowClient.placeOrder with its         *)
(* resolveRequestedFor, updateRequestRequestedFor and                      *)
(* updateRequestItemsRequestedFor (src/src/services/servicenowClient.ts),  *)
(* against a ServiceNow that processes every request it gets at most once  *)
(* but at any later time, the client's timeout notwithstanding.  The items *)
(* are patched by mapWithConcurrency (module FanOut).                      *)
(*                                                                         *)
(* What ServiceNow does is external: order_now creates the request with    *)
(* the requested_for it was given or with its own default, which is why    *)
(* the code patches it.                                                    *)
(***************************************************************************)
EXTENDS Integers, FiniteSets

CONSTANTS
  ItemLimit,    \* sysparm_limit of the list of items (100 in the code)
  MaxCreated,   \* bound: items ServiceNow creates for one order, at most
  Concurrency,  \* SERVICENOW_FANOUT_CONCURRENCY
  Caller,       \* the user whose request is served
  Other,        \* another user
  None,         \* no requested_for
  Default       \* the requested_for ServiceNow chooses by itself

ASSUME LimitsAssumption == ItemLimit \in Nat /\ MaxCreated \in Nat
ASSUME ConcurrencyAssumption == Concurrency \in Nat \ {0}

VARIABLES
  \* the placement
  step,       \* where placeOrder is
  explicit,   \* input.requestedFor
  known,      \* does the request context carry caller values?
  resolved,   \* requestedForResolution.value
  source,     \* requestedForResolution.diagnostics.source
  identified, \* does the reply of order_now name the request by a sys_id?
  warned,     \* was a failed patch logged?
  \* its calls: "unsent", on the "wire", "applied" by ServiceNow or "lost"
  orderCall, requestCall, itemCall,
  \* ServiceNow
  ordered,    \* requests created
  created,    \* items of the request
  requestFor, \* requested_for of the request
  itemFor,    \* requested_for of its items
  \* the fan-out over the listed items (module FanOut)
  outcome, n, nextIndex, runner, at, results

placement == <<step, explicit, known, resolved, source, identified, warned>>
serviceNow == <<ordered, created, requestFor, itemFor>>
fanOut == <<outcome, n, nextIndex, runner, at, results>>
vars == <<placement, orderCall, requestCall, itemCall, serviceNow, fanOut>>

Patches == INSTANCE FanOut WITH MaxItems <- ItemLimit

\* A requested_for is the sys_id of a user, or some other text about one.
SysId(u) == [form |-> "sys_id", of |-> u]
Text(u) == [form |-> "text", of |-> u]
Values == {SysId(u) : u \in {Caller, Other}} \cup {Text(u) : u \in {Caller, Other}}

isLikelyServiceNowSysId(v) == v \in {SysId(Caller), SysId(Other)}

Listed == 0..(ItemLimit - 1)
Items == 0..(MaxCreated - 1)
CallStates == {"unsent", "wire", "applied", "lost"}
Steps == {"idle", "lookup", "order", "ordering", "patchRequest", "listItems",
          "patchItems", "succeeded", "failed"}

TypeOK ==
  /\ step \in Steps
  /\ explicit \in Values \cup {None}
  /\ known \in BOOLEAN
  /\ resolved \in Values \cup {None}
  /\ source \in {"explicit", "caller_lookup", "caller_fallback", "none"}
  /\ identified \in BOOLEAN /\ warned \in BOOLEAN
  /\ orderCall \in CallStates /\ requestCall \in CallStates
  /\ itemCall \in [Listed -> CallStates]
  /\ ordered \in 0..1
  /\ created \in 0..MaxCreated
  /\ requestFor \in Values \cup {None, Default}
  /\ itemFor \in [Items -> Values \cup {None, Default}]
  /\ Patches!TypeOK

Init ==
  /\ step = "idle"
  /\ explicit \in {None, Text(Other), SysId(Other)}
  /\ known \in BOOLEAN
  /\ resolved = None /\ source = "none"
  /\ identified = FALSE /\ warned = FALSE
  /\ orderCall = "unsent" /\ requestCall = "unsent"
  /\ itemCall = [i \in Listed |-> "unsent"]
  /\ ordered = 0 /\ created = 0
  /\ requestFor = None
  /\ itemFor = [i \in Items |-> None]
  /\ Patches!Init

-----------------------------------------------------------------------------
(* resolveRequestedFor *)

Resolve(v, s) ==
  /\ resolved' = v
  /\ source' = s
  /\ step' = "order"
  /\ UNCHANGED <<explicit, known, identified, warned, orderCall, requestCall, itemCall,
                 serviceNow, fanOut>>

\* Mutant: an explicit value that cannot be looked up is treated as absent.
ResolveUnmatched_DropsExplicit(fallback) ==
  IF known /\ fallback THEN Resolve(Text(Caller), "caller_fallback") ELSE Resolve(None, "none")

\* Without a match the explicit value is passed through, else the caller's own
\* value is the fallback, if the configuration has it.
ResolveUnmatched(fallback) ==
  IF explicit # None THEN Resolve(explicit, "explicit")
  ELSE IF known /\ fallback THEN Resolve(Text(Caller), "caller_fallback")
  ELSE Resolve(None, "none")

\* The user is looked up when there is a value, and a field, to look for.
Begin(lookups, fallback) ==
  /\ step = "idle"
  /\ IF lookups /\ (explicit # None \/ known)
       THEN /\ step' = "lookup"
            /\ UNCHANGED <<explicit, known, identified, resolved, source, warned, orderCall,
                           requestCall, itemCall, serviceNow, fanOut>>
       ELSE ResolveUnmatched(fallback)

\* An active user matches.  The lookup fields hold e-mail addresses and names:
\* a sys_id given explicitly matches none.
LookupMatches ==
  /\ step = "lookup"
  /\ \/ explicit # None /\ explicit.form = "text" /\ Resolve(SysId(explicit.of), "explicit")
     \/ explicit = None /\ Resolve(SysId(Caller), "caller_lookup")

\* Nobody matches, or the lookup fails in whatever way.
LookupFails(fallback) ==
  /\ step = "lookup"
  /\ ResolveUnmatched(fallback)

-----------------------------------------------------------------------------
(* placeOrder *)

\* The POST of order_now goes out.
SendOrder ==
  /\ step = "order"
  /\ step' = "ordering"
  /\ orderCall' = "wire"
  /\ UNCHANGED <<explicit, known, identified, resolved, source, warned, requestCall, itemCall,
                 serviceNow, fanOut>>

\* The reply, which may lack a sys_id of the request, or have something else in its
\* place: the request is patched when that and the user's both look like sys_ids.
OrderReplied ==
  /\ step = "ordering"
  /\ orderCall = "applied"
  /\ identified' \in BOOLEAN
  /\ IF identified' /\ isLikelyServiceNowSysId(resolved)
       THEN step' = "patchRequest" /\ requestCall' = "wire"
       ELSE step' = "succeeded" /\ UNCHANGED requestCall
  /\ UNCHANGED <<explicit, known, resolved, source, warned, orderCall, itemCall,
                 serviceNow, fanOut>>

\* Mutant: a failed POST is reported like a failed patch.
OrderFails_Swallowed ==
  /\ step \in {"order", "ordering"}
  /\ step' = "succeeded" /\ warned' = TRUE
  /\ UNCHANGED <<explicit, known, identified, resolved, source, orderCall,
                 requestCall, itemCall, serviceNow, fanOut>>

\* No token, a refused or lost call, or a timeout: the error is thrown on.
OrderFails ==
  /\ step \in {"order", "ordering"}
  /\ step' = "failed"
  /\ UNCHANGED <<explicit, known, identified, resolved, source, warned, orderCall,
                 requestCall, itemCall, serviceNow, fanOut>>

\* The reply to the patch of the request: its items are listed.
RequestPatched ==
  /\ step = "patchRequest"
  /\ requestCall = "applied"
  /\ step' = "listItems"
  /\ UNCHANGED <<explicit, known, identified, resolved, source, warned, orderCall, requestCall,
                 itemCall, serviceNow, fanOut>>

\* The first page of items arrives and the fan-out over them begins.
ItemsListed ==
  /\ step = "listItems"
  /\ step' = "patchItems"
  /\ Patches!Call(IF created < ItemLimit THEN created ELSE ItemLimit)
  /\ UNCHANGED <<explicit, known, identified, resolved, source, warned, orderCall, requestCall,
                 itemCall, serviceNow>>

\* A runner's PATCH goes out.
SendItemPatch(r) ==
  /\ r \in Patches!Busy
  /\ itemCall[at[r]] = "unsent"
  /\ itemCall' = [itemCall EXCEPT ![at[r]] = "wire"]
  /\ UNCHANGED <<placement, orderCall, requestCall, serviceNow, fanOut>>

\* The reply to a runner's PATCH.
ItemPatched(r) ==
  /\ itemCall[at[r]] = "applied"
  /\ Patches!WorkerReturns(r)
  /\ UNCHANGED <<placement, orderCall, requestCall, itemCall, serviceNow>>

\* A runner's PATCH fails: before it was sent, at ServiceNow, or on the way.
ItemPatchFails(r) ==
  /\ Patches!WorkerThrows(r)
  /\ UNCHANGED <<placement, orderCall, requestCall, itemCall, serviceNow>>

\* Promise.all of the fan-out settles.
FanOutSettles ==
  /\ Patches!Fulfill \/ Patches!Reject
  /\ UNCHANGED <<placement, orderCall, requestCall, itemCall, serviceNow>>

\* Mutant: the order counts as placed as soon as the items are listed.
PatchesDone_NotAwaited ==
  /\ step = "patchItems" /\ step' = "succeeded"
  /\ UNCHANGED <<explicit, known, identified, resolved, source, warned, orderCall, requestCall,
                 itemCall, serviceNow, fanOut>>

\* Every listed item is patched, and the order placed.
PatchesDone ==
  /\ step = "patchItems"
  /\ outcome = "fulfilled"
  /\ step' = "succeeded"
  /\ UNCHANGED <<explicit, known, identified, resolved, source, warned, orderCall, requestCall,
                 itemCall, serviceNow, fanOut>>

\* Mutant: a failed patch of the request does not keep the items from being
\* patched.
PatchFails_GoesOn ==
  /\ \/ step = "patchRequest" /\ step' = "listItems"
     \/ step = "listItems" /\ step' = "succeeded"
     \/ step = "patchItems" /\ outcome = "rejected" /\ step' = "succeeded"
  /\ warned' = TRUE
  /\ UNCHANGED <<explicit, known, identified, resolved, source, orderCall, requestCall,
                 itemCall, serviceNow, fanOut>>

\* A patch, or the list of the items, fails: it is logged, and the order is
\* reported as placed all the same.
PatchFails ==
  /\ \/ step \in {"patchRequest", "listItems"}
     \/ step = "patchItems" /\ outcome = "rejected"
  /\ step' = "succeeded"
  /\ warned' = TRUE
  /\ UNCHANGED <<explicit, known, identified, resolved, source, orderCall, requestCall,
                 itemCall, serviceNow, fanOut>>

PlaceOrder ==
  \/ \E lookups, fallback \in BOOLEAN : Begin(lookups, fallback)
  \/ LookupMatches
  \/ \E fallback \in BOOLEAN : LookupFails(fallback)
  \/ SendOrder \/ OrderReplied \/ OrderFails
  \/ RequestPatched \/ ItemsListed \/ PatchesDone \/ PatchFails
  \/ FanOutSettles
  \/ \E r \in Patches!Runners : SendItemPatch(r) \/ ItemPatched(r) \/ ItemPatchFails(r)

-----------------------------------------------------------------------------
(* ServiceNow *)

\* order_now creates the request and its items.
CreatesOrder ==
  /\ orderCall = "wire"
  /\ orderCall' = "applied"
  /\ ordered' = ordered + 1
  /\ created' \in 0..MaxCreated
  /\ \E v \in {Default} \cup (IF resolved = None THEN {} ELSE {resolved}) :
       /\ requestFor' = v
       /\ itemFor' = [i \in Items |-> IF i < created' THEN v ELSE None]
  /\ UNCHANGED <<placement, requestCall, itemCall, fanOut>>

PatchesRequest ==
  /\ requestCall = "wire"
  /\ requestCall' = "applied"
  /\ requestFor' = resolved
  /\ UNCHANGED <<placement, orderCall, itemCall, ordered, created, itemFor, fanOut>>

PatchesItem(i) ==
  /\ itemCall[i] = "wire"
  /\ itemCall' = [itemCall EXCEPT ![i] = "applied"]
  /\ itemFor' = [itemFor EXCEPT ![i] = resolved]
  /\ UNCHANGED <<placement, orderCall, requestCall, ordered, created, requestFor, fanOut>>

\* A call never reaches ServiceNow, or is refused by it.
LosesCall ==
  /\ \/ orderCall = "wire" /\ orderCall' = "lost" /\ UNCHANGED <<requestCall, itemCall>>
     \/ requestCall = "wire" /\ requestCall' = "lost" /\ UNCHANGED <<orderCall, itemCall>>
     \/ \E i \in Listed :
          /\ itemCall[i] = "wire" /\ itemCall' = [itemCall EXCEPT ![i] = "lost"]
          /\ UNCHANGED <<orderCall, requestCall>>
  /\ UNCHANGED <<placement, serviceNow, fanOut>>

ServiceNow ==
  \/ CreatesOrder \/ PatchesRequest \/ LosesCall
  \/ \E i \in Listed : PatchesItem(i)

-----------------------------------------------------------------------------
\* The placement has been answered and nothing of it is left in the background.
Finished ==
  /\ step \in {"succeeded", "failed"}
  /\ Patches!Busy = {}
  /\ UNCHANGED vars

Next ==
  \/ PlaceOrder
  \/ ServiceNow
  \/ Finished

Spec == Init /\ [][Next]_vars

-----------------------------------------------------------------------------
\* A placement orders at most once, whatever is lost or late, and an order that
\* is reported as placed exists.  (One that is reported as failed may exist.)
PlacedMeansOrderedOnce == ordered <= 1 /\ (step = "succeeded" => ordered = 1)

\* An explicit requestedFor is never replaced by the caller, nor by anything but
\* the sys_id of the user it names, however the lookup ends.
ExplicitIsNeverGuessed ==
  step \notin {"idle", "lookup"} /\ explicit # None =>
    resolved \in {explicit, SysId(explicit.of)} /\ source = "explicit"

\* No item carries a patched requested_for while its request does not: the
\* request is patched first, and a failure to do so leaves the items alone.
ItemsFollowTheRequest ==
  (\E i \in Listed : itemCall[i] # "unsent") => requestCall = "applied"

\* What a placement that succeeded without a warning has patched.  If the user was resolved
\* to a sys_id and the reply named the request: the request, and every item of the first
\* page of its items; they are requested for that user.  If not: nothing at all, though
\* nothing is logged either.  (Items beyond the first page are never patched.)
CleanSuccessIsConsistent ==
  step = "succeeded" /\ ~warned =>
    IF identified /\ isLikelyServiceNowSysId(resolved)
    THEN /\ requestFor = resolved
         /\ \A i \in Listed : i < created => itemFor[i] = resolved
    ELSE requestCall = "unsent" /\ \A i \in Listed : itemCall[i] = "unsent"
=============================================================================
