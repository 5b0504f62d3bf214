-------------------------- MODULE Ordering_proofs --------------------------
(***************************************************************************)
(* Proofs about the two halves of an order: the form that the user fills   *)
(* in, module CatalogItemForm, and its placement, module PlaceOrder, for   *)
(* any number of items, any page size, any concurrency, any catalog and    *)
(* any hints and contexts.                                                 *)
(*                                                                         *)
(* Placement: the inductive invariant ties every call to the step of the   *)
(* placement that makes it and to what ServiceNow has done with it; what   *)
(* it needs to know of the fan-out is the inductive invariant of module    *)
(* FanOut_proofs, whose lemmas are used as they are.                       *)
(*                                                                         *)
(* Form: little of it is in the state; the invariant says that the lookups *)
(* are those of the item.  The rest is what the operators compute: which   *)
(* variables are visited, which are selected, what comes first, which kind *)
(* of input the rules give.  The definitions that recur over a sequence    *)
(* are unfolded by induction, which the well-foundedness of < provides.    *)
(***************************************************************************)
EXTENDS PlaceOrder, CatalogItemForm, SequenceTheorems, WellFoundedInduction, TLAPS

PatchesP == INSTANCE FanOut_proofs WITH MaxItems <- ItemLimit

\* The steps that only an answered order reaches.
AfterOrder == {"patchRequest", "listItems", "patchItems", "succeeded"}

\* order_now is sent once, and the placement goes on only when it was answered.
OrderInv ==
  /\ ordered = IF orderCall = "applied" THEN 1 ELSE 0
  /\ step \in {"idle", "lookup", "order"} => orderCall = "unsent"
  /\ step \in AfterOrder => orderCall = "applied"

\* The request that the reply named is patched for a resolved user, after the order.
RequestInv ==
  /\ requestCall # "unsent" =>
       step \in AfterOrder /\ identified /\ isLikelyServiceNowSysId(resolved)
  /\ requestCall = "applied" => requestFor = resolved
  /\ step \in {"listItems", "patchItems"} => requestCall = "applied"

\* The fan-out runs over the first page of items of the patched request, and a
\* call of it is made for an item only while it runs.
ItemsInv ==
  /\ outcome # "none" =>
       /\ step \in {"patchItems", "succeeded"}
       /\ requestCall = "applied"
       /\ n = IF created < ItemLimit THEN created ELSE ItemLimit
  /\ \A i \in Listed : itemCall[i] # "unsent" => outcome # "none"
  /\ \A i \in Listed : i < created /\ itemCall[i] = "applied" => itemFor[i] = resolved
  /\ \A i \in Listed : results[i] => itemCall[i] = "applied"

\* Without a warning, a placement for a resolved user whose request was named by the
\* reply waits for every patch.
CleanInv ==
  step = "succeeded" /\ ~warned /\ identified /\ isLikelyServiceNowSysId(resolved) =>
    outcome = "fulfilled"

IInv ==
  /\ TypeOK
  /\ OrderInv
  /\ ExplicitIsNeverGuessed
  /\ RequestInv
  /\ ItemsInv
  /\ CleanInv
  /\ PatchesP!IInv

-----------------------------------------------------------------------------
(* The fan-out, as module FanOut_proofs knows it *)

\* The assumptions of module FanOut hold for the list of items.
LEMMA FanOutAssumptions ==
  PatchesP!MaxItemsAssumption /\ PatchesP!ConcurrencyAssumption
BY LimitsAssumption, ConcurrencyAssumption
   DEF PatchesP!MaxItemsAssumption, PatchesP!ConcurrencyAssumption

\* Its types are among what its invariant says.
LEMMA FanOutTyped == PatchesP!IInv => Patches!TypeOK
BY DEF PatchesP!IInv, PatchesP!TypeOK, Patches!TypeOK, PatchesP!Runners,
       Patches!Runners, PatchesP!Indices, Patches!Indices

\* What the placement needs of the fan-out: nobody is busy before the call, a
\* runner's index is one of the listed ones, and a fulfilled promise has every
\* result.
LEMMA FanOutFacts ==
  ASSUME PatchesP!IInv
  PROVE  /\ \A r \in Patches!Busy : outcome # "none" /\ at[r] \in Listed
         /\ outcome = "fulfilled" => \A i \in 0..(n - 1) : results[i]
<1>1. \A r \in Patches!Busy : outcome # "none" /\ at[r] \in Listed
  BY DEF PatchesP!IInv, PatchesP!IdleInv, PatchesP!TypeOK, PatchesP!Runners,
         PatchesP!Indices, Patches!Busy, Patches!Runners, Listed
<1>2. ASSUME outcome = "fulfilled", NEW i \in 0..(n - 1) PROVE results[i]
  <2>1. nextIndex \in Nat /\ n \in 0..ItemLimit
    BY DEF PatchesP!IInv, PatchesP!TypeOK
  <2>2. nextIndex >= n /\ PatchesP!Holders = {}
    BY <1>2 DEF PatchesP!IInv, PatchesP!EndInv
  <2> QED
    BY <2>1, <2>2, LimitsAssumption DEF PatchesP!IInv, PatchesP!CoverInv
<1> QED
  BY <1>1, <1>2

\* Initially the fan-out satisfies its invariant.
LEMMA FanOutInit == Patches!Init => PatchesP!IInv
<1>1. Patches!Init => PatchesP!Init
  BY DEF Patches!Init, PatchesP!Init, Patches!Runners, PatchesP!Runners,
         Patches!Indices, PatchesP!Indices
<1> QED
  BY <1>1, FanOutAssumptions, PatchesP!InitInv

\* Every step of the fan-out keeps its invariant and its types.
LEMMA FanOutStep ==
  ASSUME PatchesP!IInv,
         \/ \E m \in 0..ItemLimit : Patches!Call(m)
         \/ \E r \in Patches!Runners : Patches!WorkerReturns(r) \/ Patches!WorkerThrows(r)
         \/ Patches!Fulfill \/ Patches!Reject
         \/ UNCHANGED fanOut
  PROVE  PatchesP!IInv' /\ Patches!TypeOK'
<1>1. ASSUME NEW m \in 0..ItemLimit, Patches!Call(m) PROVE PatchesP!IInv'
  <2>1. PatchesP!Call(m)
    BY <1>1 DEF Patches!Call, PatchesP!Call, Patches!limit, PatchesP!limit,
                Patches!Runners, PatchesP!Runners
  <2> QED
    BY <2>1, FanOutAssumptions, PatchesP!CallStep
<1>2. ASSUME NEW r \in Patches!Runners, Patches!WorkerReturns(r) PROVE PatchesP!IInv'
  <2>1. PatchesP!WorkerReturns(r) /\ r \in PatchesP!Runners
    BY <1>2 DEF Patches!WorkerReturns, PatchesP!WorkerReturns, Patches!TakeNext,
                PatchesP!TakeNext, Patches!Runners, PatchesP!Runners
  <2> QED
    BY <2>1, FanOutAssumptions, PatchesP!ReturnStep
<1>3. ASSUME NEW r \in Patches!Runners, Patches!WorkerThrows(r) PROVE PatchesP!IInv'
  <2>1. PatchesP!WorkerThrows(r) /\ r \in PatchesP!Runners
    BY <1>3 DEF Patches!WorkerThrows, PatchesP!WorkerThrows, Patches!Runners,
                PatchesP!Runners
  <2> QED
    BY <2>1, FanOutAssumptions, PatchesP!ThrowStep
<1>4. ASSUME Patches!Fulfill \/ Patches!Reject PROVE PatchesP!IInv'
  <2>1. PatchesP!Fulfill \/ PatchesP!Reject
    BY <1>4 DEF Patches!Fulfill, PatchesP!Fulfill, Patches!Reject, PatchesP!Reject,
                Patches!Busy, PatchesP!Busy, Patches!Threw, PatchesP!Threw,
                Patches!Runners, PatchesP!Runners
  <2> QED
    BY <2>1, FanOutAssumptions, PatchesP!SettleStep
<1>5. ASSUME UNCHANGED fanOut PROVE PatchesP!IInv'
  BY <1>5 DEF fanOut, PatchesP!IInv, PatchesP!TypeOK, PatchesP!IdleInv,
              PatchesP!HoldInv, PatchesP!CoverInv, PatchesP!EndInv,
              PatchesP!Holders, PatchesP!Busy, PatchesP!Threw
<1>6. PatchesP!IInv'
  BY <1>1, <1>2, <1>3, <1>4, <1>5
<1>7. PatchesP!IInv' => Patches!TypeOK'
  BY DEF PatchesP!IInv, PatchesP!TypeOK, Patches!TypeOK, PatchesP!Runners,
         Patches!Runners, PatchesP!Indices, Patches!Indices
<1> QED
  BY <1>6, <1>7

-----------------------------------------------------------------------------
(* The placement *)

\* Initially no call has been made.
LEMMA InitInv == Init => IInv
<1> SUFFICES ASSUME Init PROVE IInv
  OBVIOUS
<1> USE DEF Init
<1>1. PatchesP!IInv
  BY FanOutInit
<1>2. /\ outcome = "none"
      /\ \A i \in Listed : itemCall[i] = "unsent" /\ ~results[i]
  BY DEF Patches!Init, Patches!Indices, Listed
<1>3. TypeOK
  <2>1. explicit \in Values \cup {None}
    BY DEF Values, Text, SysId
  <2>2. Patches!TypeOK
    BY <1>1, FanOutTyped
  <2>3. itemCall \in [Listed -> CallStates] /\ itemFor \in [Items -> Values \cup {None, Default}]
    BY DEF CallStates
  <2>4. ordered \in 0..1 /\ created \in 0..MaxCreated
    BY LimitsAssumption
  <2> QED
    BY <2>1, <2>2, <2>3, <2>4 DEF TypeOK, Steps, CallStates
<1>4. OrderInv /\ RequestInv /\ ItemsInv
  BY <1>2 DEF OrderInv, RequestInv, ItemsInv, AfterOrder
<1>5. ExplicitIsNeverGuessed /\ CleanInv
  BY DEF ExplicitIsNeverGuessed, CleanInv
<1> QED
  BY <1>1, <1>3, <1>4, <1>5 DEF IInv

\* Every resolution keeps an explicit value, or puts the sys_id of its user.
LEMMA ResolutionStep ==
  ASSUME IInv, step \in {"idle", "lookup"},
         \/ \E lookups, fallback \in BOOLEAN : Begin(lookups, fallback)
         \/ LookupMatches
         \/ \E fallback \in BOOLEAN : LookupFails(fallback)
  PROVE  IInv'
<1> DEFINE Kept == UNCHANGED <<explicit, known, identified, warned, orderCall, requestCall,
                               itemCall, serviceNow, fanOut>>
           Resolved == /\ step' = "order"
                       /\ resolved' \in Values \cup {None}
                       /\ source' \in {"explicit", "caller_lookup", "caller_fallback", "none"}
                       /\ explicit # None =>
                            resolved' \in {explicit, SysId(explicit.of)} /\ source' = "explicit"
<1>1. Kept /\ (Resolved \/ (step' = "lookup" /\ UNCHANGED <<resolved, source>>))
  <2>1. explicit \in Values \cup {None} /\ Text(Caller) \in Values /\ SysId(Caller) \in Values
    BY DEF IInv, TypeOK, Values
  <2>2. explicit # None => SysId(explicit.of) \in Values
    BY <2>1 DEF Values, SysId, Text
  <2>3. ASSUME NEW fallback \in BOOLEAN, ResolveUnmatched(fallback) PROVE Kept /\ Resolved
    BY <2>1, <2>3 DEF ResolveUnmatched, Resolve
  <2>4. ASSUME LookupMatches PROVE Kept /\ Resolved
    BY <2>1, <2>2, <2>4 DEF LookupMatches, Resolve
  <2> QED
    BY <2>3, <2>4 DEF Begin, LookupFails
<1>2. PatchesP!IInv' /\ Patches!TypeOK'
  BY <1>1, FanOutStep DEF IInv
<1>3. orderCall = "unsent" /\ requestCall = "unsent" /\ outcome = "none"
      /\ \A i \in Listed : itemCall[i] = "unsent"
  BY DEF IInv, OrderInv, RequestInv, ItemsInv, AfterOrder, TypeOK
<1>4. TypeOK'
  BY <1>1, <1>2 DEF IInv, TypeOK, Steps, serviceNow
<1>5. OrderInv' /\ RequestInv'
  BY <1>1, <1>3 DEF IInv, OrderInv, RequestInv, AfterOrder, serviceNow
<1>6. ExplicitIsNeverGuessed'
  BY <1>1 DEF ExplicitIsNeverGuessed
<1>7. ItemsInv' /\ CleanInv'
  BY <1>1, <1>3 DEF IInv, ItemsInv, CleanInv, serviceNow, fanOut
<1> QED
  BY <1>2, <1>4, <1>5, <1>6, <1>7 DEF IInv

\* The order is sent, answered or given up.
LEMMA OrderStep ==
  ASSUME IInv, SendOrder \/ OrderReplied \/ OrderFails
  PROVE  IInv'
<1>1. /\ UNCHANGED <<explicit, known, resolved, source, warned, itemCall, serviceNow, fanOut>>
      /\ \/ step = "order" /\ step' = "ordering" /\ orderCall' = "wire"
            /\ UNCHANGED <<identified, requestCall>>
         \/ /\ step = "ordering" /\ orderCall = "applied" /\ UNCHANGED orderCall
            /\ identified' \in BOOLEAN
            /\ \/ step' = "patchRequest" /\ requestCall' = "wire"
                  /\ identified' /\ isLikelyServiceNowSysId(resolved)
               \/ step' = "succeeded" /\ UNCHANGED requestCall
                  /\ ~(identified' /\ isLikelyServiceNowSysId(resolved))
         \/ step \in {"order", "ordering"} /\ step' = "failed"
            /\ UNCHANGED <<identified, orderCall, requestCall>>
  BY DEF SendOrder, OrderReplied, OrderFails
<1>2. PatchesP!IInv' /\ Patches!TypeOK'
  BY <1>1, FanOutStep DEF IInv
<1>3. TypeOK'
  BY <1>1, <1>2 DEF IInv, TypeOK, Steps, CallStates, serviceNow
<1>4. /\ step \in {"order", "ordering"}
      /\ requestCall = "unsent" /\ outcome = "none"
      /\ \A i \in Listed : itemCall[i] = "unsent"
  BY <1>1 DEF IInv, RequestInv, ItemsInv, AfterOrder, TypeOK
<1>5. OrderInv'
  BY <1>1 DEF IInv, OrderInv, AfterOrder, serviceNow
<1>6. RequestInv' /\ ItemsInv'
  BY <1>1, <1>4 DEF IInv, RequestInv, ItemsInv, AfterOrder, serviceNow, fanOut
<1>7. ExplicitIsNeverGuessed' /\ CleanInv'
  BY <1>1, <1>4 DEF IInv, ExplicitIsNeverGuessed, CleanInv, isLikelyServiceNowSysId, SysId
<1> QED
  BY <1>2, <1>3, <1>5, <1>6, <1>7 DEF IInv

\* The placement goes from patch to patch, or ends.
LEMMA PatchStep ==
  ASSUME IInv, RequestPatched \/ ItemsListed \/ PatchesDone \/ PatchFails
  PROVE  IInv'
<1>1. /\ UNCHANGED <<explicit, known, resolved, source, identified, orderCall, requestCall,
                     itemCall, serviceNow>>
      /\ warned' \in BOOLEAN
  BY DEF RequestPatched, ItemsListed, PatchesDone, PatchFails, IInv, TypeOK
<1>2. /\ step \in {"patchRequest", "listItems", "patchItems"}
      /\ step' \in {"listItems", "patchItems", "succeeded"}
      /\ step' = "listItems" => step = "patchRequest" /\ requestCall = "applied"
      /\ step' = "patchItems" => step = "listItems"
      /\ step' = "succeeded" => UNCHANGED fanOut /\ (outcome = "fulfilled" \/ warned')
  BY DEF RequestPatched, ItemsListed, PatchesDone, PatchFails
<1>3. ASSUME step' # "patchItems" PROVE UNCHANGED fanOut /\ outcome' = outcome
  BY <1>3 DEF RequestPatched, ItemsListed, PatchesDone, PatchFails, fanOut
<1>4. ASSUME step' = "patchItems"
      PROVE  \E m \in 0..ItemLimit :
               /\ Patches!Call(m)
               /\ m = IF created < ItemLimit THEN created ELSE ItemLimit
  BY <1>4, LimitsAssumption DEF RequestPatched, ItemsListed, PatchesDone, PatchFails, IInv, TypeOK
<1>5. PatchesP!IInv' /\ Patches!TypeOK'
  BY <1>3, <1>4, FanOutStep DEF IInv
<1>6. TypeOK'
  BY <1>1, <1>2, <1>5 DEF IInv, TypeOK, Steps, serviceNow
<1>7. OrderInv' /\ RequestInv' /\ ExplicitIsNeverGuessed'
  BY <1>1, <1>2
     DEF IInv, OrderInv, RequestInv, ExplicitIsNeverGuessed, AfterOrder, serviceNow
<1>8. ItemsInv'
  <2>1. \A i \in Listed : results'[i] = results[i]
    BY <1>3, <1>4 DEF fanOut, Patches!Call
  <2>2. outcome' # "none" =>
          /\ step' \in {"patchItems", "succeeded"}
          /\ requestCall = "applied"
          /\ n' = IF created < ItemLimit THEN created ELSE ItemLimit
    <3>1. CASE step' = "patchItems"
      BY <3>1, <1>2, <1>4 DEF IInv, RequestInv, Patches!Call
    <3>2. CASE step' # "patchItems"
      BY <3>2, <1>2, <1>3 DEF IInv, ItemsInv, fanOut
    <3> QED
      BY <3>1, <3>2
  <2>3. outcome # "none" => outcome' # "none"
    BY <1>3, <1>4 DEF Patches!Call, fanOut
  <2> QED
    BY <1>1, <2>1, <2>2, <2>3 DEF IInv, ItemsInv, serviceNow
<1>9. CleanInv'
  BY <1>1, <1>2 DEF CleanInv, fanOut
<1> QED
  BY <1>5, <1>6, <1>7, <1>8, <1>9 DEF IInv

\* A runner sends its patch, gets its answer or fails; or the promise settles.
LEMMA ItemStep ==
  ASSUME IInv,
         FanOutSettles \/ \E r \in Patches!Runners :
           SendItemPatch(r) \/ ItemPatched(r) \/ ItemPatchFails(r)
  PROVE  IInv'
<1> DEFINE FanOutGoesOn ==
             /\ PatchesP!IInv' /\ Patches!TypeOK'
             /\ n' = n /\ (outcome = "none" => outcome' = "none")
             /\ outcome # "none" => outcome' # "none"
             /\ outcome = "fulfilled" => outcome' = "fulfilled"
           CallsMatch ==
             /\ itemCall' \in [Listed -> CallStates]
             /\ \A i \in Listed :
                  /\ itemCall'[i] # "unsent" => outcome # "none"
                  /\ itemCall'[i] = "applied" <=> itemCall[i] = "applied"
                  /\ results'[i] => itemCall'[i] = "applied"
<1>1. UNCHANGED <<placement, orderCall, requestCall, serviceNow>>
  BY DEF FanOutSettles, SendItemPatch, ItemPatched, ItemPatchFails
<1>2. FanOutGoesOn
  <2>1. CASE FanOutSettles
    BY <2>1, FanOutStep DEF IInv, FanOutSettles, Patches!Fulfill, Patches!Reject
  <2>2. ASSUME NEW r \in Patches!Runners, SendItemPatch(r) PROVE FanOutGoesOn
    BY <2>2, FanOutStep DEF IInv, SendItemPatch, fanOut
  <2>3. ASSUME NEW r \in Patches!Runners, ItemPatched(r) \/ ItemPatchFails(r) PROVE FanOutGoesOn
    BY <2>3, FanOutStep
       DEF IInv, ItemPatched, ItemPatchFails, Patches!WorkerReturns, Patches!WorkerThrows
  <2> QED
    BY <2>1, <2>2, <2>3
<1>3. CallsMatch
  <2>1. CASE FanOutSettles
    BY <2>1 DEF IInv, TypeOK, ItemsInv, FanOutSettles, Patches!Fulfill, Patches!Reject
  <2>2. ASSUME NEW r \in Patches!Runners, SendItemPatch(r) PROVE CallsMatch
    <3>1. outcome # "none" /\ at[r] \in Listed
      BY <2>2, FanOutFacts DEF IInv, SendItemPatch
    <3>2. itemCall[at[r]] = "unsent" /\ itemCall' = [itemCall EXCEPT ![at[r]] = "wire"]
          /\ results' = results
      BY <2>2 DEF SendItemPatch, fanOut
    <3> QED
      BY <3>1, <3>2 DEF IInv, TypeOK, ItemsInv, CallStates
  <2>3. ASSUME NEW r \in Patches!Runners, ItemPatched(r) PROVE CallsMatch
    <3>1. /\ itemCall' = itemCall /\ itemCall[at[r]] = "applied"
          /\ results' = [results EXCEPT ![at[r]] = TRUE]
      BY <2>3 DEF ItemPatched, Patches!WorkerReturns
    <3>2. results \in [Listed -> BOOLEAN]
      BY DEF IInv, TypeOK, Patches!TypeOK, Patches!Indices, Listed
    <3> QED
      BY <3>1, <3>2 DEF IInv, TypeOK, ItemsInv
  <2>4. ASSUME NEW r \in Patches!Runners, ItemPatchFails(r) PROVE CallsMatch
    BY <2>4 DEF IInv, TypeOK, ItemsInv, ItemPatchFails, Patches!WorkerThrows
  <2> QED
    BY <2>1, <2>2, <2>3, <2>4
<1>4. TypeOK'
  BY <1>1, <1>2, <1>3 DEF IInv, TypeOK, placement, serviceNow
<1>5. OrderInv' /\ RequestInv' /\ ExplicitIsNeverGuessed'
  BY <1>1
     DEF IInv, OrderInv, RequestInv, ExplicitIsNeverGuessed, AfterOrder, placement, serviceNow
<1>6. ItemsInv' /\ CleanInv'
  BY <1>1, <1>2, <1>3 DEF IInv, ItemsInv, CleanInv, placement, serviceNow
<1> QED
  BY <1>2, <1>4, <1>5, <1>6 DEF IInv

\* ServiceNow creates the order before any patch of it, and patches for the
\* resolved user only.
LEMMA ServiceNowStep ==
  ASSUME IInv, ServiceNow
  PROVE  IInv'
<1>1. UNCHANGED <<placement, fanOut>>
  BY DEF ServiceNow, CreatesOrder, PatchesRequest, LosesCall, PatchesItem
<1>2. PatchesP!IInv' /\ Patches!TypeOK'
  BY <1>1, FanOutStep DEF IInv
<1>3. /\ UNCHANGED <<step, explicit, known, resolved, source, identified, warned>>
      /\ UNCHANGED <<outcome, n, results>>
  BY <1>1 DEF placement, fanOut
<1>4. ExplicitIsNeverGuessed' /\ CleanInv'
  BY <1>3 DEF IInv, ExplicitIsNeverGuessed, CleanInv, isLikelyServiceNowSysId, SysId
<1>5. CASE CreatesOrder
  <2>1. /\ orderCall = "wire" /\ orderCall' = "applied" /\ ordered' = ordered + 1
        /\ UNCHANGED <<requestCall, itemCall>>
        /\ created' \in 0..MaxCreated
        /\ requestFor' \in Values \cup {None, Default}
        /\ itemFor' \in [Items -> Values \cup {None, Default}]
    <3>1. PICK v \in {Default} \cup (IF resolved = None THEN {} ELSE {resolved}) :
            requestFor' = v /\ itemFor' = [i \in Items |-> IF i < created' THEN v ELSE None]
      BY <1>5 DEF CreatesOrder
    <3>2. v \in Values \cup {Default}
      BY <3>1 DEF IInv, TypeOK
    <3> QED
      BY <1>5, <3>1, <3>2 DEF CreatesOrder
  <2>2. ordered = 0 /\ step \notin AfterOrder /\ requestCall = "unsent" /\ outcome = "none"
        /\ \A i \in Listed : itemCall[i] = "unsent"
    BY <2>1 DEF IInv, OrderInv, RequestInv, ItemsInv, AfterOrder, TypeOK
  <2>3. TypeOK'
    BY <1>2, <1>3, <2>1, <2>2 DEF IInv, TypeOK, CallStates
  <2>4. OrderInv'
    BY <1>3, <2>1, <2>2 DEF IInv, OrderInv, AfterOrder
  <2>5. RequestInv' /\ ItemsInv'
    BY <1>3, <2>1, <2>2 DEF IInv, RequestInv, ItemsInv, AfterOrder
  <2> QED
    BY <1>2, <1>4, <2>3, <2>4, <2>5 DEF IInv
<1>6. CASE PatchesRequest
  <2>1. /\ requestCall = "wire" /\ requestCall' = "applied" /\ requestFor' = resolved
        /\ UNCHANGED <<orderCall, itemCall, ordered, created, itemFor>>
    BY <1>6 DEF PatchesRequest
  <2>2. TypeOK'
    BY <1>2, <1>3, <2>1 DEF IInv, TypeOK, CallStates
  <2>3. OrderInv' /\ RequestInv'
    BY <1>3, <2>1 DEF IInv, OrderInv, RequestInv
  <2>4. ItemsInv'
    BY <1>3, <2>1 DEF IInv, ItemsInv, RequestInv
  <2> QED
    BY <1>2, <1>4, <2>2, <2>3, <2>4 DEF IInv
<1>7. ASSUME NEW i \in Listed, PatchesItem(i) PROVE IInv'
  <2>1. /\ itemCall[i] = "wire"
        /\ itemCall' = [itemCall EXCEPT ![i] = "applied"]
        /\ itemFor' = [itemFor EXCEPT ![i] = resolved]
        /\ UNCHANGED <<orderCall, requestCall, ordered, created, requestFor>>
    BY <1>7 DEF PatchesItem
  <2>2. TypeOK'
    BY <1>2, <1>3, <2>1 DEF IInv, TypeOK, CallStates
  <2>3. OrderInv' /\ RequestInv'
    BY <1>3, <2>1 DEF IInv, OrderInv, RequestInv
  <2>4. \A j \in Listed : j < created => j \in Items
    BY LimitsAssumption DEF IInv, TypeOK, Listed, Items
  <2>5. ItemsInv'
    BY <1>3, <2>1, <2>4 DEF IInv, TypeOK, ItemsInv
  <2> QED
    BY <1>2, <1>4, <2>2, <2>3, <2>5 DEF IInv
<1>8. CASE LosesCall
  <2>1. UNCHANGED <<ordered, created, requestFor, itemFor>>
    BY <1>8 DEF LosesCall, serviceNow
  <2>2. /\ orderCall' \in CallStates /\ requestCall' \in CallStates
        /\ itemCall' \in [Listed -> CallStates]
        /\ orderCall' = orderCall \/ (orderCall = "wire" /\ orderCall' = "lost")
        /\ requestCall' = requestCall \/ (requestCall = "wire" /\ requestCall' = "lost")
        /\ \A i \in Listed : itemCall'[i] = itemCall[i]
                             \/ (itemCall[i] = "wire" /\ itemCall'[i] = "lost")
    BY <1>8 DEF LosesCall, IInv, TypeOK, CallStates
  <2>3. TypeOK'
    BY <1>2, <1>3, <2>1, <2>2 DEF IInv, TypeOK
  <2>4. OrderInv' /\ RequestInv'
    BY <1>3, <2>1, <2>2 DEF IInv, OrderInv, RequestInv, AfterOrder
  <2>5. ItemsInv'
    BY <1>3, <2>1, <2>2 DEF IInv, ItemsInv, RequestInv
  <2> QED
    BY <1>2, <1>4, <2>3, <2>4, <2>5 DEF IInv
<1> QED
  BY <1>5, <1>6, <1>7, <1>8 DEF ServiceNow

-----------------------------------------------------------------------------
\* The order of the calls of a placement, and what each has done at ServiceNow, is
\* an invariant however the calls are lost, refused or late.
THEOREM Inductive == Spec => []IInv
<1>1. IInv /\ [Next]_vars => IInv'
  <2> SUFFICES ASSUME IInv, [Next]_vars PROVE IInv'
    OBVIOUS
  <2>1. CASE UNCHANGED vars
    <3>1. PatchesP!IInv' /\ Patches!TypeOK'
      BY <2>1, FanOutStep DEF vars, IInv
    <3>2. /\ UNCHANGED <<step, explicit, known, resolved, source, identified, warned>>
          /\ UNCHANGED <<orderCall, requestCall, itemCall>>
          /\ UNCHANGED <<ordered, created, requestFor, itemFor>>
          /\ UNCHANGED <<outcome, n, results>>
      BY <2>1 DEF vars, placement, serviceNow, fanOut
    <3> QED
      BY <3>1, <3>2
         DEF IInv, TypeOK, OrderInv, ExplicitIsNeverGuessed, RequestInv, ItemsInv, CleanInv,
             isLikelyServiceNowSysId, SysId
  <2>2. CASE PlaceOrder
    <3>1. ASSUME NEW lookups \in BOOLEAN, NEW fallback \in BOOLEAN, Begin(lookups, fallback)
          PROVE  IInv'
      BY <3>1, ResolutionStep DEF Begin
    <3>2. ASSUME NEW fallback \in BOOLEAN, LookupMatches \/ LookupFails(fallback)
          PROVE  IInv'
      BY <3>2, ResolutionStep DEF LookupMatches, LookupFails
    <3> QED
      BY <2>2, <3>1, <3>2, OrderStep, PatchStep, ItemStep DEF PlaceOrder
  <2> QED
    BY <2>1, <2>2, ServiceNowStep DEF Next, Finished
<1> QED
  BY <1>1, InitInv, PTL DEF Spec

THEOREM TypeCorrect == Spec => []TypeOK
<1>1. IInv => TypeOK
  BY DEF IInv
<1> QED
  BY <1>1, Inductive, PTL

\* However late or lost its calls, a placement orders at most once, and never
\* reports success without an order.
THEOREM OrderedOnce == Spec => []PlacedMeansOrderedOnce
<1>1. IInv => PlacedMeansOrderedOnce
  BY DEF IInv, OrderInv, AfterOrder, PlacedMeansOrderedOnce
<1> QED
  BY <1>1, Inductive, PTL

\* Whatever the lookup answers, an explicit requestedFor is never replaced by
\* somebody else.
THEOREM ExplicitIsKept == Spec => []ExplicitIsNeverGuessed
<1>1. IInv => ExplicitIsNeverGuessed
  BY DEF IInv
<1> QED
  BY <1>1, Inductive, PTL

\* No item is patched unless its request has been.
THEOREM RequestFirst == Spec => []ItemsFollowTheRequest
<1>1. IInv => ItemsFollowTheRequest
  BY DEF IInv, ItemsInv, ItemsFollowTheRequest
<1> QED
  BY <1>1, Inductive, PTL

\* A success without a warning means that every call of the placement was applied, for
\* any number of items and runners, or that no patch of it was ever sent: the reply did
\* not name the request, or the user was not resolved to a sys_id.
THEOREM CleanSuccess == Spec => []CleanSuccessIsConsistent
<1>1. IInv => CleanSuccessIsConsistent
  <2> SUFFICES ASSUME IInv, step = "succeeded", ~warned PROVE CleanSuccessIsConsistent
    BY DEF CleanSuccessIsConsistent
  <2>1. CASE identified /\ isLikelyServiceNowSysId(resolved)
    <3>1. outcome = "fulfilled"
      BY <2>1 DEF IInv, CleanInv
    <3>2. requestCall = "applied" /\ n = IF created < ItemLimit THEN created ELSE ItemLimit
      BY <3>1 DEF IInv, ItemsInv
    <3>3. requestFor = resolved
      BY <3>2 DEF IInv, RequestInv
    <3>4. ASSUME NEW i \in Listed, i < created PROVE itemFor[i] = resolved
      <4>1. i \in 0..(n - 1)
        BY <3>2, <3>4, LimitsAssumption DEF IInv, TypeOK, Listed
      <4>2. results[i]
        BY <3>1, <4>1, FanOutFacts DEF IInv
      <4> QED
        BY <3>4, <4>2 DEF IInv, ItemsInv
    <3> QED
      BY <2>1, <3>3, <3>4 DEF CleanSuccessIsConsistent
  <2>2. CASE ~(identified /\ isLikelyServiceNowSysId(resolved))
    <3>1. requestCall = "unsent"
      BY <2>2 DEF IInv, RequestInv
    <3>2. \A i \in Listed : itemCall[i] = "unsent"
      BY <3>1 DEF IInv, ItemsInv
    <3> QED
      BY <2>2, <3>1, <3>2 DEF CleanSuccessIsConsistent
  <2> QED
    BY <2>1, <2>2
<1> QED
  BY <1>1, Inductive, PTL

-----------------------------------------------------------------------------
\* The patches of the items are a fan-out as module FanOut describes it: the
\* placement calls mapWithConcurrency once, and otherwise leaves it alone.
THEOREM PatchesAreAFanOut == Spec => Patches!Spec
<1>1. Init => Patches!Init
  BY DEF Init
<1>2. IInv /\ [Next]_vars => [Patches!Next]_(Patches!vars)
  <2> SUFFICES ASSUME IInv, [Next]_vars PROVE Patches!Next \/ UNCHANGED fanOut
    BY DEF fanOut, Patches!vars
  <2>1. CASE UNCHANGED vars
    BY <2>1 DEF vars
  <2>2. CASE PlaceOrder
    <3>1. CASE ItemsListed
      BY <3>1, LimitsAssumption DEF ItemsListed, Patches!Next, IInv, TypeOK
    <3>2. CASE FanOutSettles
      BY <3>2 DEF FanOutSettles, Patches!Next
    <3>3. ASSUME NEW r \in Patches!Runners, SendItemPatch(r) \/ ItemPatched(r) \/ ItemPatchFails(r)
          PROVE  Patches!Next \/ UNCHANGED fanOut
      BY <3>3 DEF SendItemPatch, ItemPatched, ItemPatchFails, Patches!Next
    <3>4. ASSUME NEW fallback \in BOOLEAN,
                 \/ \E lookups \in BOOLEAN : Begin(lookups, fallback)
                 \/ LookupMatches \/ LookupFails(fallback)
          PROVE  UNCHANGED fanOut
      BY <3>4 DEF Begin, LookupMatches, LookupFails, ResolveUnmatched, Resolve
    <3>5. ASSUME SendOrder \/ OrderReplied \/ OrderFails \/ RequestPatched \/ PatchesDone
                 \/ PatchFails
          PROVE  UNCHANGED fanOut
      BY <3>5 DEF SendOrder, OrderReplied, OrderFails, RequestPatched, PatchesDone, PatchFails
    <3>6. LookupMatches => UNCHANGED fanOut
      BY DEF LookupMatches, Resolve
    <3> QED
      BY <2>2, <3>1, <3>2, <3>3, <3>4, <3>5, <3>6 DEF PlaceOrder
  <2>3. CASE ServiceNow
    BY <2>3 DEF ServiceNow, CreatesOrder, PatchesRequest, LosesCall, PatchesItem
  <2> QED
    BY <2>1, <2>2, <2>3 DEF Next, Finished
<1> QED
  BY <1>1, <1>2, Inductive, PTL DEF Spec, Patches!Spec

\* So no item is ever patched by two runners, nor again after its patch failed.
THEOREM NoItemPatchedTwice == Spec => []Patches!NoItemTwice
<1>1. IInv => Patches!NoItemTwice
  BY DEF IInv, PatchesP!IInv, PatchesP!HoldInv, PatchesP!Holders, PatchesP!Busy,
         PatchesP!Threw, PatchesP!Runners, Patches!NoItemTwice, Patches!Busy,
         Patches!Threw, Patches!Runners
<1> QED
  BY <1>1, Inductive, PTL

-----------------------------------------------------------------------------
(* Recursion over sequences *)

\* Induction over the natural numbers, for a set of them.
LEMMA Induction ==
  ASSUME NEW S \in SUBSET Nat, 0 \in S, \A k \in S : k + 1 \in S
  PROVE  S = Nat
<1>1. SUFFICES ASSUME Nat \ S # {} PROVE FALSE
  OBVIOUS
<1>2. PICK m \in Nat \ S : \A k \in Nat \ S : ~(<<k, m>> \in OpToRel(<, Nat))
  BY <1>1, NatLessThanWellFounded, WFMin
<1>3. m \in Nat /\ m \notin S
  BY <1>2
<1>4. \A k \in Nat \ S : ~(k < m)
  BY <1>2, <1>3 DEF OpToRel
<1> HIDE <1>2
<1>5. m # 0
  BY <1>3
<1>6. m - 1 \in Nat /\ m - 1 < m /\ (m - 1) + 1 = m
  BY <1>3, <1>5
<1>7. m - 1 \in S
  BY <1>4, <1>6
<1> QED
  BY <1>3, <1>6, <1>7

\* Applying the functions of a sequence one after the other.
Iterates(D, a, size, f) ==
  \E g \in [0..size -> D] : g[0] = a /\ \A i \in 1..size : g[i] = f[i][g[i - 1]]

\* They can be applied.
LEMMA Iteration ==
  ASSUME NEW D, NEW a \in D, NEW size \in Nat, NEW f \in [1..size -> [D -> D]]
  PROVE  Iterates(D, a, size, f)
<1> DEFINE Upto(k) == Iterates(D, a, k, f)
<1> DEFINE S == {k \in Nat : k <= size => Upto(k)}
<1>1. 0 \in S
  <2> DEFINE z == [i \in 0..0 |-> a]
  <2>1. z \in [0..0 -> D] /\ z[0] = a /\ \A i \in 1..0 : FALSE
    OBVIOUS
  <2> HIDE DEF z
  <2>2. Upto(0)
    BY <2>1 DEF Iterates
  <2> QED
    BY <2>2
<1>2. ASSUME NEW k \in S PROVE k + 1 \in S
  <2>1. SUFFICES ASSUME k + 1 <= size PROVE Upto(k + 1)
    <3>1. k + 1 \in Nat
      BY <1>2
    <3> HIDE DEF Upto
    <3> QED
      BY <3>1
  <2>2. k \in Nat /\ k <= size /\ Upto(k)
    BY <1>2, <2>1
  <2>3. PICK g \in [0..k -> D] : g[0] = a /\ \A i \in 1..k : g[i] = f[i][g[i - 1]]
    BY <2>2 DEF Iterates
  <2> DEFINE h == [i \in 0..(k + 1) |-> IF i <= k THEN g[i] ELSE f[k + 1][g[k]]]
  <2>4. f[k + 1][g[k]] \in D
    BY <2>1, <2>2, <2>3
  <2>5. h \in [0..(k + 1) -> D]
    BY <2>2, <2>3, <2>4
  <2>6. h[0] = a
    BY <2>2, <2>3
  <2>7. ASSUME NEW i \in 1..(k + 1) PROVE h[i] = f[i][h[i - 1]]
    <3>1. h[i - 1] = g[i - 1]
      BY <2>2
    <3>2. CASE i = k + 1
      BY <2>2, <3>1, <3>2
    <3>3. CASE i # k + 1
      BY <2>2, <2>3, <3>1, <3>3
    <3> QED
      BY <3>2, <3>3
  <2> HIDE DEF h
  <2> QED
    BY <2>5, <2>6, <2>7 DEF Iterates
<1> HIDE DEF Upto
<1>3. S = Nat
  BY <1>1, <1>2, Induction
<1>4. Upto(size)
  BY <1>3
<1> QED
  BY <1>4 DEF Upto

\* What Among computes, step by step.
AmongBySteps(V, s, T) ==
  \E g \in [0..Len(s) -> Seq(V)] :
    /\ g[0] = <<>> /\ Among(s, T) = g[Len(s)]
    /\ \A i \in 1..Len(s) :
         g[i] = IF s[i] \in T THEN Append(g[i - 1], s[i]) ELSE g[i - 1]

LEMMA AmongSteps ==
  ASSUME NEW V, NEW s \in Seq(V), NEW T
  PROVE  AmongBySteps(V, s, T)
<1> DEFINE Eq(h) == h = [i \in 0..Len(s) |->
             IF i = 0 THEN <<>>
             ELSE IF s[i] \in T THEN Append(h[i - 1], s[i]) ELSE h[i - 1]]
<1> DEFINE D == Seq(V)
<1> DEFINE size == Len(s)
<1> DEFINE f == [i \in 1..size |-> [x \in D |-> IF s[i] \in T THEN Append(x, s[i]) ELSE x]]
<1> DEFINE e == <<>>
<1>1. f \in [1..size -> [D -> D]] /\ size \in Nat /\ e \in D
  OBVIOUS
<1>a. \A i \in 1..size : \A x \in D : f[i][x] = IF s[i] \in T THEN Append(x, s[i]) ELSE x
  OBVIOUS
<1> HIDE DEF f, D, size, e
<1>2. PICK g \in [0..size -> D] : g[0] = e /\ \A i \in 1..size : g[i] = f[i][g[i - 1]]
  <2>1. Iterates(D, e, size, f)
    BY <1>1, Iteration
  <2> QED
    BY <2>1 DEF Iterates
<1>3. ASSUME NEW i \in 1..size PROVE g[i] = IF s[i] \in T THEN Append(g[i - 1], s[i]) ELSE g[i - 1]
  <2>1. i - 1 \in 0..size
    BY <1>1
  <2>2. g[i - 1] \in D
    BY <1>2, <2>1
  <2> QED
    BY <1>a, <1>2, <2>2
<1>4. Eq(g)
  <2> DEFINE r == [i \in 0..size |-> IF i = 0 THEN e
             ELSE IF s[i] \in T THEN Append(g[i - 1], s[i]) ELSE g[i - 1]]
  <2>1. ASSUME NEW i \in 0..size PROVE g[i] = r[i]
    <3>1. CASE i = 0
      BY <1>2, <3>1
    <3>2. CASE i # 0
      <4>1. i \in 1..size
        BY <1>1, <3>2
      <4>2. r[i] = IF s[i] \in T THEN Append(g[i - 1], s[i]) ELSE g[i - 1]
        BY <3>2
      <4> HIDE DEF r
      <4> QED
        BY <4>1, <4>2, <1>3
    <3> QED
      BY <3>1, <3>2
  <2>2. g = r
    BY <1>2, <2>1
  <2> QED
    BY <2>2 DEF e, size
<1> DEFINE h == CHOOSE h : Eq(h)
<1>5. Eq(h)
  BY <1>4
<1>6. Among(s, T) = h[size]
  BY DEF Among, size
<1>7. h[0] = e /\ \A i \in 1..size : h[i] = IF s[i] \in T THEN Append(h[i - 1], s[i]) ELSE h[i - 1]
  <2>1. h = [i \in 0..size |-> IF i = 0 THEN e
             ELSE IF s[i] \in T THEN Append(h[i - 1], s[i]) ELSE h[i - 1]]
    BY <1>5 DEF e, size
  <2> HIDE DEF h
  <2>2. ASSUME NEW i \in 0..size
        PROVE  h[i] = IF i = 0 THEN e ELSE IF s[i] \in T THEN Append(h[i - 1], s[i]) ELSE h[i - 1]
    BY <2>1
  <2> QED
    BY <1>1, <2>2
<1> HIDE DEF h, Eq
<1> DEFINE S == {k \in Nat : k <= size => h[k] = g[k]}
<1>8. 0 \in S
  BY <1>2, <1>7
<1>9. ASSUME NEW k \in S PROVE k + 1 \in S
  <2>1. SUFFICES ASSUME k + 1 <= size PROVE h[k + 1] = g[k + 1]
    BY <1>9
  <2>2. k \in Nat /\ h[k] = g[k] /\ k + 1 \in 1..size /\ (k + 1) - 1 = k
    BY <1>1, <1>9, <2>1
  <2> QED
    BY <1>3, <1>7, <2>2
<1>10. h[size] = g[size]
  <2> HIDE DEF S
  <2>1. S = Nat
    <3>1. S \in SUBSET Nat
      BY DEF S
    <3> QED
      BY <3>1, <1>8, <1>9, Induction
  <2> QED
    BY <1>1, <2>1 DEF S
<1> QED
  BY <1>2, <1>3, <1>6, <1>10 DEF D, e, size, AmongBySteps

\* Among is a sequence of the elements of s that are in T.
LEMMA AmongElements ==
  ASSUME NEW V, NEW s \in Seq(V), NEW T
  PROVE  /\ Among(s, T) \in Seq(V)
         /\ \A x \in Range(Among(s, T)) : x \in Range(s) \cap T
         /\ \A x \in Range(s) \cap T : x \in Range(Among(s, T))
<1> DEFINE size == Len(s)
<1>1. size \in Nat /\ DOMAIN s = 1..size
  OBVIOUS
<1>2. PICK g \in [0..size -> Seq(V)] :
        /\ g[0] = <<>> /\ Among(s, T) = g[size]
        /\ \A i \in 1..size : g[i] = IF s[i] \in T THEN Append(g[i - 1], s[i]) ELSE g[i - 1]
  <2>1. AmongBySteps(V, s, T)
    BY AmongSteps
  <2> QED
    BY <2>1 DEF AmongBySteps
<1> DEFINE S == {k \in Nat : k <= size =>
                    /\ \A x \in Range(g[k]) : \E j \in 1..k : x = s[j] /\ s[j] \in T
                    /\ \A j \in 1..k : s[j] \in T => s[j] \in Range(g[k])}
<1> HIDE DEF size
<1>3. 0 \in S
  <2>1. g[0] = <<>>
    BY <1>2
  <2>2. Range(g[0]) = {}
    BY <2>1 DEF Range
  <2>3. \A j \in 1..0 : FALSE
    OBVIOUS
  <2>4. /\ \A x \in Range(g[0]) : \E j \in 1..0 : x = s[j] /\ s[j] \in T
        /\ \A j \in 1..0 : s[j] \in T => s[j] \in Range(g[0])
    BY <2>2, <2>3
  <2> QED
    BY <2>4
<1>4. ASSUME NEW k \in S PROVE k + 1 \in S
  <2>1. SUFFICES ASSUME k + 1 <= size
                 PROVE  /\ \A x \in Range(g[k + 1]) : \E j \in 1..(k + 1) : x = s[j] /\ s[j] \in T
                        /\ \A j \in 1..(k + 1) : s[j] \in T => s[j] \in Range(g[k + 1])
    BY <1>4
  <2>2. /\ k \in Nat /\ k + 1 \in 1..size /\ k \in 0..size /\ (k + 1) - 1 = k
        /\ \A x \in Range(g[k]) : \E j \in 1..k : x = s[j] /\ s[j] \in T
        /\ \A j \in 1..k : s[j] \in T => s[j] \in Range(g[k])
    BY <1>1, <1>4, <2>1
  <2>3. g[k + 1] = IF s[k + 1] \in T THEN Append(g[k], s[k + 1]) ELSE g[k]
    BY <1>2, <2>2
  <2>4. g[k] \in Seq(V)
    BY <1>2, <2>2
  <2>5. CASE s[k + 1] \in T
    <3>1. Range(g[k + 1]) = Range(g[k]) \cup {s[k + 1]}
      <4>1. s[k + 1] \in V
        BY <1>1, <2>2
      <4>2. g[k + 1] = Append(g[k], s[k + 1])
        BY <2>3, <2>5
      <4>3. /\ DOMAIN g[k] = 1..Len(g[k]) /\ Len(g[k]) \in Nat
            /\ DOMAIN Append(g[k], s[k + 1]) = 1..(Len(g[k]) + 1)
            /\ \A i \in 1..Len(g[k]) : Append(g[k], s[k + 1])[i] = g[k][i]
            /\ Append(g[k], s[k + 1])[Len(g[k]) + 1] = s[k + 1]
        BY <2>4, <4>1
      <4> QED
        BY <4>2, <4>3 DEF Range
    <3> QED
      BY <2>2, <2>5, <3>1
  <2>6. CASE s[k + 1] \notin T
    <3>1. g[k + 1] = g[k]
      BY <2>3, <2>6
    <3> QED
      BY <2>2, <2>6, <3>1
  <2> QED
    BY <2>5, <2>6
<1> HIDE DEF S
<1>5. S = Nat
  <2>1. S \in SUBSET Nat
    BY DEF S
  <2> QED
    BY <2>1, <1>3, <1>4, Induction
<1>6. /\ \A x \in Range(g[size]) : \E j \in 1..size : x = s[j] /\ s[j] \in T
      /\ \A j \in 1..size : s[j] \in T => s[j] \in Range(g[size])
  <2>1. size \in S
    BY <1>1, <1>5
  <2>2. size <= size
    BY <1>1
  <2> QED
    BY <2>1, <2>2 DEF S
<1>7. Among(s, T) = g[size] /\ g[size] \in Seq(V)
  <2>1. size \in 0..size
    BY <1>1
  <2> QED
    BY <1>2, <2>1
<1>8. Range(s) = {s[j] : j \in 1..size}
  BY <1>1 DEF Range
<1>9. ASSUME NEW x \in Range(g[size]) PROVE x \in Range(s) \cap T
  <2>1. PICK j \in 1..size : x = s[j] /\ s[j] \in T
    BY <1>6
  <2> QED
    BY <1>8, <2>1
<1>10. ASSUME NEW x \in Range(s) \cap T PROVE x \in Range(g[size])
  <2>1. PICK j \in 1..size : x = s[j]
    BY <1>8
  <2> QED
    BY <1>6, <2>1
<1> QED
  BY <1>7, <1>9, <1>10

\* One element more.
LEMMA AmongAppend ==
  ASSUME NEW V, NEW s \in Seq(V), NEW x \in V, NEW T
  PROVE  Among(Append(s, x), T) = IF x \in T THEN Append(Among(s, T), x) ELSE Among(s, T)
<1> DEFINE size == Len(s)
<1> DEFINE t == Append(s, x)
<1>1. /\ size \in Nat /\ t \in Seq(V) /\ Len(t) = size + 1 /\ t[size + 1] = x
      /\ \A i \in 1..size : t[i] = s[i]
  OBVIOUS
<1>2. PICK g \in [0..size -> Seq(V)] :
        /\ g[0] = <<>> /\ Among(s, T) = g[size]
        /\ \A i \in 1..size : g[i] = IF s[i] \in T THEN Append(g[i - 1], s[i]) ELSE g[i - 1]
  <2>1. AmongBySteps(V, s, T)
    BY AmongSteps
  <2> QED
    BY <2>1 DEF AmongBySteps
<1> HIDE DEF t
<1>3. PICK h \in [0..Len(t) -> Seq(V)] :
        /\ h[0] = <<>> /\ Among(t, T) = h[Len(t)]
        /\ \A i \in 1..Len(t) : h[i] = IF t[i] \in T THEN Append(h[i - 1], t[i]) ELSE h[i - 1]
  <2>1. AmongBySteps(V, t, T)
    BY <1>1, AmongSteps
  <2> QED
    BY <2>1 DEF AmongBySteps
<1> HIDE DEF size
<1> DEFINE S == {k \in Nat : k <= size => h[k] = g[k]}
<1>4. 0 \in S
  BY <1>2, <1>3
<1>5. ASSUME NEW k \in S PROVE k + 1 \in S
  <2>1. SUFFICES ASSUME k + 1 <= size PROVE h[k + 1] = g[k + 1]
    BY <1>5
  <2>2. k \in Nat /\ h[k] = g[k] /\ k + 1 \in 1..size /\ k + 1 \in 1..Len(t) /\ (k + 1) - 1 = k
    BY <1>1, <1>5, <2>1
  <2>3. t[k + 1] = s[k + 1]
    BY <1>1, <2>2
  <2> QED
    BY <1>2, <1>3, <2>2, <2>3
<1> HIDE DEF S
<1>6. S = Nat
  <2>1. S \in SUBSET Nat
    BY DEF S
  <2> QED
    BY <2>1, <1>4, <1>5, Induction
<1>7. h[size] = g[size]
  <2>1. size \in S /\ size <= size
    BY <1>1, <1>6
  <2> QED
    BY <2>1 DEF S
<1>8. size + 1 \in 1..Len(t) /\ (size + 1) - 1 = size
  BY <1>1
<1>9. h[size + 1] = IF x \in T THEN Append(h[size], x) ELSE h[size]
  BY <1>1, <1>3, <1>8
<1> QED
  BY <1>1, <1>2, <1>3, <1>7, <1>9 DEF t

\* Nothing is selected from nothing.
LEMMA AmongNothing ==
  ASSUME NEW T
  PROVE  Among(<<>>, T) = <<>>
<1>1. <<>> \in Seq({}) /\ Len(<<>>) = 0
  OBVIOUS
<1>2. AmongBySteps({}, <<>>, T)
  BY <1>1, AmongSteps
<1> QED
  BY <1>1, <1>2 DEF AmongBySteps

\* A function maps one set into another; the image of a sequence under it.
Maps(F, V, D) == \A v \in V : F[v] \in D
Image(F, s) == [i \in DOMAIN s |-> F[s[i]]]

\* The image of a sequence with one element more.
LEMMA ImageAppend ==
  ASSUME NEW V, NEW D, NEW F, Maps(F, V, D), NEW s \in Seq(V), NEW x \in V
  PROVE  /\ Image(F, s) \in Seq(D) /\ Image(F, <<>>) = <<>>
         /\ Image(F, Append(s, x)) = Append(Image(F, s), F[x])
<1>1. F[x] \in D /\ \A i \in DOMAIN s : F[s[i]] \in D
  BY DEF Maps
<1>2. Image(F, s) \in Seq(D) /\ Len(Image(F, s)) = Len(s)
  BY <1>1 DEF Image
<1>3. Image(F, <<>>) = <<>>
  BY DEF Image
<1>4. Image(F, Append(s, x)) = Append(Image(F, s), F[x])
  <2> DEFINE a == Image(F, Append(s, x))
  <2> DEFINE b == Append(Image(F, s), F[x])
  <2>1. DOMAIN a = 1..(Len(s) + 1) /\ DOMAIN b = 1..(Len(s) + 1)
    BY <1>1, <1>2 DEF Image
  <2>2. ASSUME NEW i \in 1..(Len(s) + 1) PROVE a[i] = b[i]
    <3>1. a[i] = F[Append(s, x)[i]]
      BY DEF Image
    <3>2. CASE i = Len(s) + 1
      BY <1>1, <1>2, <3>1, <3>2
    <3>3. CASE i # Len(s) + 1
      <4>1. i \in 1..Len(s) /\ i \in DOMAIN s
        BY <3>3
      <4>2. b[i] = Image(F, s)[i]
        BY <1>1, <1>2, <4>1
      <4>3. Image(F, s)[i] = F[s[i]]
        BY <4>1 DEF Image
      <4> QED
        BY <3>1, <4>1, <4>2, <4>3
    <3> QED
      BY <3>2, <3>3
  <2>3. a \in Seq(D) /\ b \in Seq(D)
    <3>1. Append(s, x) \in Seq(V) /\ \A i \in DOMAIN Append(s, x) : F[Append(s, x)[i]] \in D
      BY DEF Maps
    <3> QED
      BY <1>1, <1>2, <3>1 DEF Image
  <2> HIDE DEF a, b
  <2>4. a = b
    BY <2>1, <2>2, <2>3, SeqEqual
  <2> QED
    BY <2>4 DEF a, b
<1> QED
  BY <1>2, <1>3, <1>4

\* To select and map is to map what is selected.
LEMMA AmongImage ==
  ASSUME NEW V, NEW D, NEW F, NEW A, NEW K, NEW Q, NEW s \in Seq(V),
         Maps(F, V, D),
         \A v \in V : v \in Q <=> v \in A /\ F[v] \in K
  PROVE  Among(Image(F, Among(s, A)), K) = Image(F, Among(s, Q))
<1> DEFINE Claim(t) == Among(Image(F, Among(t, A)), K) = Image(F, Among(t, Q))
<1> DEFINE S == {k \in Nat : \A t \in Seq(V) : Len(t) = k => Claim(t)}
<1>1. Claim(<<>>)
  <2>1. Image(F, <<>>) = <<>>
    BY DEF Image
  <2> QED
    BY <2>1, AmongNothing
<1>2. ASSUME NEW t \in Seq(V), NEW x \in V, Claim(t) PROVE Claim(Append(t, x))
  <2>1. Among(t, A) \in Seq(V) /\ Among(t, Q) \in Seq(V) /\ F[x] \in D
    BY AmongElements DEF Maps
  <2>2. /\ Image(F, Among(t, A)) \in Seq(D)
        /\ Image(F, Append(Among(t, A), x)) = Append(Image(F, Among(t, A)), F[x])
        /\ Image(F, Append(Among(t, Q), x)) = Append(Image(F, Among(t, Q)), F[x])
    <3>1. ASSUME NEW a \in Seq(V)
          PROVE  /\ Image(F, a) \in Seq(D)
                 /\ Image(F, Append(a, x)) = Append(Image(F, a), F[x])
      BY ImageAppend
    <3> QED
      BY <2>1, <3>1
  <2>3. /\ Among(Append(t, x), A) = IF x \in A THEN Append(Among(t, A), x) ELSE Among(t, A)
        /\ Among(Append(t, x), Q) = IF x \in Q THEN Append(Among(t, Q), x) ELSE Among(t, Q)
    BY AmongAppend
  <2>4. Among(Append(Image(F, Among(t, A)), F[x]), K) =
          IF F[x] \in K THEN Append(Among(Image(F, Among(t, A)), K), F[x])
          ELSE Among(Image(F, Among(t, A)), K)
    <3>1. ASSUME NEW c \in Seq(D), NEW y \in D
          PROVE  Among(Append(c, y), K) = IF y \in K THEN Append(Among(c, K), y) ELSE Among(c, K)
      BY AmongAppend
    <3> QED
      BY <2>1, <2>2, <3>1
  <2>5. x \in Q <=> x \in A /\ F[x] \in K
    OBVIOUS
  <2>6. CASE x \in A /\ F[x] \in K
    BY <1>2, <2>2, <2>3, <2>4, <2>5, <2>6
  <2>7. CASE x \in A /\ F[x] \notin K
    BY <1>2, <2>2, <2>3, <2>4, <2>5, <2>7
  <2>8. CASE x \notin A
    BY <1>2, <2>3, <2>5, <2>8
  <2> QED
    BY <2>6, <2>7, <2>8
<1> HIDE DEF Claim
<1>3. 0 \in S
  BY <1>1
<1>4. ASSUME NEW k \in S PROVE k + 1 \in S
  <2>1. k \in Nat /\ \A t \in Seq(V) : Len(t) = k => Claim(t)
    BY <1>4
  <2>2. ASSUME NEW u \in Seq(V), Len(u) = k + 1 PROVE Claim(u)
    <3> DEFINE t == [i \in 1..k |-> u[i]]
    <3>1. t \in Seq(V) /\ Len(t) = k /\ u[k + 1] \in V
      BY <2>1, <2>2
    <3>2. u = Append(t, u[k + 1])
      <4>1. Append(t, u[k + 1]) \in Seq(V) /\ Len(Append(t, u[k + 1])) = k + 1
        BY <2>1, <3>1
      <4>2. \A i \in 1..(k + 1) : u[i] = Append(t, u[k + 1])[i]
        BY <2>1, <3>1
      <4> QED
        BY <2>2, <4>1, <4>2, SeqEqual
    <3> HIDE DEF t
    <3> QED
      BY <1>2, <2>1, <3>1, <3>2
  <2>3. \A u \in Seq(V) : Len(u) = k + 1 => Claim(u)
    BY <2>2
  <2>4. k + 1 \in Nat
    BY <2>1
  <2> QED
    BY <2>3, <2>4
<1>5. S = Nat
  <2> HIDE DEF S
  <2>1. S \in SUBSET Nat
    BY DEF S
  <2> QED
    BY <2>1, <1>3, <1>4, Induction
<1>6. Len(s) \in S
  <2>1. Len(s) \in Nat
    OBVIOUS
  <2> HIDE DEF S
  <2> QED
    BY <1>5, <2>1
<1>7. Claim(s)
  BY <1>6
<1> QED
  BY <1>7 DEF Claim

-----------------------------------------------------------------------------
(* The variables of a form *)

\* The visit of a form, step by step, finds variables only.
LEMMA CollectedVariables ==
  ASSUME NEW variables \in Seq(Variables)
  PROVE  collectVariables(variables) \in Seq(Variables)
<1> DEFINE size == MaxVariables
<1> DEFINE D == [result : Seq(Variables), todo : Seq(Variables)]
<1> DEFINE a == [result |-> <<>>, todo |-> variables]
<1> DEFINE Advance(x) == IF x.todo = <<>> THEN x
                       ELSE [result |-> Append(x.result, Head(x.todo)),
                             todo |-> Head(x.todo).children \o Tail(x.todo)]
<1> DEFINE f == [i \in 1..size |-> [x \in D |-> Advance(x)]]
<1> DEFINE Eq(h) == h = [k \in 0..size |-> IF k = 0 THEN a ELSE Advance(h[k - 1])]
<1>1. a \in D /\ size \in Nat
  BY MaxVariablesAssumption
<1>2. ASSUME NEW x \in D PROVE Advance(x) \in D
  <2>1. x.result \in Seq(Variables) /\ x.todo \in Seq(Variables)
    OBVIOUS
  <2>2. CASE x.todo = <<>>
    BY <2>2
  <2>3. CASE x.todo # <<>>
    <3>1. Head(x.todo) \in Variables /\ Tail(x.todo) \in Seq(Variables)
      BY <2>1, <2>3
    <3>2. Head(x.todo).children \in Seq(Variables)
      BY <3>1, VariablesAssumption
    <3>3. /\ Append(x.result, Head(x.todo)) \in Seq(Variables)
          /\ Head(x.todo).children \o Tail(x.todo) \in Seq(Variables)
      BY <2>1, <3>1, <3>2
    <3> QED
      BY <2>3, <3>3
  <2> QED
    BY <2>2, <2>3
<1> HIDE DEF Advance, D, a
<1>3. f \in [1..size -> [D -> D]] /\ \A i \in 1..size : \A x \in D : f[i][x] = Advance(x)
  BY <1>2
<1> HIDE DEF f, size
<1>4. PICK g \in [0..size -> D] : g[0] = a /\ \A i \in 1..size : g[i] = f[i][g[i - 1]]
  <2>1. Iterates(D, a, size, f)
    BY <1>1, <1>3, Iteration
  <2> QED
    BY <2>1 DEF Iterates
<1>5. ASSUME NEW i \in 1..size PROVE i - 1 \in 0..size /\ g[i - 1] \in D /\ g[i] = Advance(g[i - 1])
  <2>1. i - 1 \in 0..size
    BY <1>1
  <2>2. g[i - 1] \in D
    BY <1>4, <2>1
  <2> QED
    BY <1>3, <1>4, <2>1, <2>2
<1>6. Eq(g)
  <2> DEFINE r == [k \in 0..size |-> IF k = 0 THEN a ELSE Advance(g[k - 1])]
  <2>1. ASSUME NEW i \in 0..size PROVE g[i] = r[i]
    <3>1. CASE i = 0
      BY <1>4, <3>1
    <3>2. CASE i # 0
      <4>1. i \in 1..size
        BY <1>1, <3>2
      <4>2. r[i] = Advance(g[i - 1])
        BY <3>2
      <4> HIDE DEF r
      <4> QED
        BY <4>1, <4>2, <1>5
    <3> QED
      BY <3>1, <3>2
  <2>2. g = r
    BY <1>4, <2>1
  <2> QED
    BY <2>2
<1> DEFINE h == CHOOSE h : Eq(h)
<1>7. Eq(h)
  BY <1>6
<1>8. Visit(variables) = h[size]
  BY DEF Visit, size, a, Advance
<1>9. h[0] = a /\ \A i \in 1..size : h[i] = Advance(h[i - 1])
  <2>1. h = [k \in 0..size |-> IF k = 0 THEN a ELSE Advance(h[k - 1])]
    BY <1>7
  <2> HIDE DEF h
  <2>2. ASSUME NEW i \in 0..size PROVE h[i] = IF i = 0 THEN a ELSE Advance(h[i - 1])
    BY <2>1
  <2> QED
    BY <1>1, <2>2
<1> HIDE DEF h, Eq
<1> DEFINE S == {k \in Nat : k <= size => h[k] = g[k]}
<1>10. 0 \in S
  BY <1>4, <1>9
<1>11. ASSUME NEW k \in S PROVE k + 1 \in S
  <2>1. SUFFICES ASSUME k + 1 <= size PROVE h[k + 1] = g[k + 1]
    BY <1>11
  <2>2. k \in Nat /\ h[k] = g[k] /\ k + 1 \in 1..size /\ (k + 1) - 1 = k
    BY <1>1, <1>11, <2>1
  <2> QED
    BY <1>5, <1>9, <2>2
<1> HIDE DEF S
<1>12. S = Nat
  <2>1. S \in SUBSET Nat
    BY DEF S
  <2> QED
    BY <2>1, <1>10, <1>11, Induction
<1>13. h[size] = g[size]
  <2>1. size \in S /\ size <= size
    BY <1>1, <1>12
  <2> QED
    BY <2>1 DEF S
<1>14. g[size] \in D
  <2>1. size \in 0..size
    BY <1>1
  <2> QED
    BY <1>4, <2>1
<1>15. Visit(variables) \in D
  BY <1>8, <1>13, <1>14
<1> QED
  BY <1>15 DEF collectVariables, D

-----------------------------------------------------------------------------
(* First results *)

\* The i-th result is there, and none before it.
IsFirst(seq, size, i) ==
  /\ size \in Nat /\ DOMAIN seq = 1..size /\ i \in 1..size
  /\ seq[i] # {} /\ \A j \in 1..size : j < i => seq[j] = {}

\* The first result that is there is the one that comes first.
LEMMA FirstIs ==
  ASSUME NEW seq, NEW size, NEW i, IsFirst(seq, size, i)
  PROVE  FirstOf(seq) = seq[i]
<1> DEFINE found == {k \in DOMAIN seq : seq[k] # {}}
<1>1. {k \in found : \A j \in found : k <= j} = {i}
  BY Z3 DEF IsFirst
<1>2. FirstOf(seq) = UNION {seq[k] : k \in {k \in found : \A j \in found : k <= j}}
  BY DEF FirstOf, Find
<1> QED
  BY <1>1, <1>2

\* What comes first is one of the results.
LEMMA FirstAmong ==
  ASSUME NEW seq, NEW x \in FirstOf(seq)
  PROVE  \E i \in DOMAIN seq : x \in seq[i]
BY DEF FirstOf, Find

\* Of two results, the second counts only if the first is missing.
LEMMA FirstOfTwo ==
  ASSUME NEW a, NEW b
  PROVE  FirstOf(<<a, b>>) = IF a # {} THEN a ELSE b
<1> DEFINE seq == <<a, b>>
<1>1. DOMAIN seq = 1..2 /\ seq[1] = a /\ seq[2] = b /\ 2 \in Nat /\ 1 \in 1..2 /\ 2 \in 1..2
  OBVIOUS
<1> HIDE DEF seq
<1>2. CASE a # {}
  <2>1. IsFirst(seq, 2, 1)
    BY <1>1, <1>2 DEF IsFirst
  <2>2. FirstOf(seq) = seq[1]
    BY <2>1, FirstIs
  <2> QED
    BY <1>1, <1>2, <2>2 DEF seq
<1>3. CASE a = {} /\ b # {}
  <2>1. IsFirst(seq, 2, 2)
    BY <1>1, <1>3 DEF IsFirst
  <2>2. FirstOf(seq) = seq[2]
    BY <2>1, FirstIs
  <2> QED
    BY <1>1, <1>3, <2>2 DEF seq
<1>4. CASE a = {} /\ b = {}
  <2>1. FirstOf(seq) = {}
    <3>1. \A i \in DOMAIN seq : seq[i] = {}
      BY <1>1, <1>4
    <3> QED
      BY <3>1, FirstAmong
  <2> QED
    BY <1>4, <2>1 DEF seq
<1> QED
  BY <1>2, <1>3, <1>4

-----------------------------------------------------------------------------
(* The kinds of inputs *)

\* The rules in their order, one after the other.
LEMMA KindByRules ==
  ASSUME NEW v, NEW type, NEW offered
  PROVE  InputKind(v, type, offered) =
    IF ~v.visible \/ type \in ContainerEndTypes \cup UnsupportedRendererTypes THEN "none"
    ELSE IF isReferenceVariable(v) /\ offered # <<>> THEN "ReferenceSet"
    ELSE IF type \in StaticTextTypes THEN "TextBlock"
    ELSE IF normalizeChoices(v) # <<>> \/ type \in ChoiceTypes THEN "ChoiceSet"
    ELSE IF type \in ToggleTypes THEN "Toggle"
    ELSE IF type \in DateTypes THEN "Date"
    ELSE IF type \in DateTimeTypes THEN "DateOfTime"
    ELSE IF type \in MultilineTypes \/ v.is_multiline THEN "Text"
    ELSE IF type \in NumberTypes THEN "Number"
    ELSE "Text"
<1> DEFINE kinds == <<"none", "ReferenceSet", "TextBlock", "ChoiceSet", "Toggle", "Date",
                      "DateOfTime", "Text", "Number", "Text">>
<1> DEFINE R1 == ~v.visible \/ type \in ContainerEndTypes \cup UnsupportedRendererTypes
<1> DEFINE R2 == isReferenceVariable(v) /\ offered # <<>>
<1> DEFINE R3 == type \in StaticTextTypes
<1> DEFINE R4 == normalizeChoices(v) # <<>> \/ type \in ChoiceTypes
<1> DEFINE R5 == type \in ToggleTypes
<1> DEFINE R6 == type \in DateTypes
<1> DEFINE R7 == type \in DateTimeTypes
<1> DEFINE R8 == type \in MultilineTypes \/ v.is_multiline
<1> DEFINE R9 == type \in NumberTypes
<1> DEFINE rules == <<Rule(R1, "none"), Rule(R2, "ReferenceSet"), Rule(R3, "TextBlock"),
                      Rule(R4, "ChoiceSet"), Rule(R5, "Toggle"), Rule(R6, "Date"),
                      Rule(R7, "DateOfTime"), Rule(R8, "Text"), Rule(R9, "Number"), {"Text"}>>
<1> DEFINE i == IF R1 THEN 1 ELSE IF R2 THEN 2 ELSE IF R3 THEN 3 ELSE IF R4 THEN 4
                ELSE IF R5 THEN 5 ELSE IF R6 THEN 6 ELSE IF R7 THEN 7 ELSE IF R8 THEN 8
                ELSE IF R9 THEN 9 ELSE 10
<1>1. InputKind(v, type, offered) = Only(FirstOf(rules))
  BY DEF InputKind
<1> HIDE DEF R1, R2, R3, R4, R5, R6, R7, R8, R9
<1>2. /\ DOMAIN rules = 1..10 /\ 10 \in Nat
      /\ rules[1] = Rule(R1, "none") /\ rules[2] = Rule(R2, "ReferenceSet")
      /\ rules[3] = Rule(R3, "TextBlock") /\ rules[4] = Rule(R4, "ChoiceSet")
      /\ rules[5] = Rule(R5, "Toggle") /\ rules[6] = Rule(R6, "Date")
      /\ rules[7] = Rule(R7, "DateOfTime") /\ rules[8] = Rule(R8, "Text")
      /\ rules[9] = Rule(R9, "Number") /\ rules[10] = {"Text"}
  OBVIOUS
<1> HIDE DEF rules
<1>3. i \in 1..10
  OBVIOUS
<1>4. rules[i] = {kinds[i]}
  BY <1>2 DEF Rule
<1>5. \A j \in 1..10 : j < i => rules[j] = {}
  BY <1>2 DEF Rule
<1>6. FirstOf(rules) = rules[i]
  <2> HIDE DEF i
  <2>1. IsFirst(rules, 10, i)
    BY <1>2, <1>3, <1>4, <1>5 DEF IsFirst
  <2> QED
    BY <2>1, FirstIs
<1>7. InputKind(v, type, offered) = kinds[i]
  BY <1>1, <1>4, <1>6 DEF Only
<1> QED
  BY <1>7 DEF R1, R2, R3, R4, R5, R6, R7, R8, R9

-----------------------------------------------------------------------------
(* Choices *)

\* However a choice is found, it is one of the choices of the variable.
LEMMA MatchedChoice ==
  ASSUME NEW candidate, NEW choices, NEW c \in matchChoice(candidate, choices)
  PROVE  c \in Range(choices)
<1> DEFINE exactly == Find(choices, LAMBDA d : candidate \in {d.value, d.title})
<1> DEFINE within == Find(choices, LAMBDA d : Includes(d.title \o d.value, candidate))
<1> DEFINE inWords == Find(choices, LAMBDA d : LET words == Range(d.title \o d.value)
                                               IN words # {} /\ words \subseteq Range(candidate))
<1> DEFINE found == <<exactly, within, inWords>>
<1>1. c \in FirstOf(found)
  BY DEF matchChoice
<1>2. exactly \subseteq Range(choices)
  BY DEF Find, Range
<1>3. within \subseteq Range(choices)
  BY DEF Find, Range
<1>4. inWords \subseteq Range(choices)
  <2> DEFINE has(d) == Range(d.title \o d.value) # {} /\ Range(d.title \o d.value) \subseteq Range(candidate)
  <2>1. inWords = Find(choices, has)
    OBVIOUS
  <2> HIDE DEF has, inWords
  <2>2. Find(choices, has) \subseteq Range(choices)
    BY DEF Find, Range
  <2> QED
    BY <2>1, <2>2
<1> HIDE DEF exactly, within, inWords
<1>5. PICK i \in DOMAIN found : c \in found[i]
  <2> HIDE DEF found
  <2> QED
    BY <1>1, FirstAmong
<1>6. c \in exactly \/ c \in within \/ c \in inWords
  BY <1>5
<1> QED
  BY <1>2, <1>3, <1>4, <1>6

\* So it is for the synonyms of colors,
LEMMA SynonymousChoice ==
  ASSUME NEW candidate, NEW choices, NEW c \in matchChoiceWithColorSynonyms(candidate, choices)
  PROVE  c \in Range(choices)
<1> DEFINE synonyms == IF Len(candidate) = 1 /\ Head(candidate) \in DOMAIN COLOR_SYNONYMS
                       THEN COLOR_SYNONYMS[Head(candidate)] ELSE <<>>
<1> DEFINE matches == [i \in DOMAIN synonyms |-> matchChoice(synonyms[i], choices)]
<1>1. c \in FirstOf(<<matchChoice(candidate, choices), FirstOf(matches)>>)
  BY DEF matchChoiceWithColorSynonyms
<1> HIDE DEF matches
<1>2. c \in matchChoice(candidate, choices) \/ c \in FirstOf(matches)
  BY <1>1, FirstOfTwo
<1>3. CASE c \in FirstOf(matches)
  <2>1. PICK i \in DOMAIN matches : c \in matches[i]
    BY <1>3, FirstAmong
  <2>2. matches[i] = matchChoice(synonyms[i], choices)
    BY DEF matches
  <2> QED
    BY <2>1, <2>2, MatchedChoice
<1> QED
  BY <1>2, <1>3, MatchedChoice

\* for a text that is matched by the label of the variable,
LEMMA ChosenForText ==
  ASSUME NEW v, NEW text, NEW c \in ChoiceFor(v, text)
  PROVE  c \in Range(normalizeChoices(v))
BY MatchedChoice, SynonymousChoice DEF ChoiceFor

\* and for what the context says.
LEMMA ContextualChoice ==
  ASSUME NEW v, NEW text, NEW kinds, NEW c \in ContextChoice(v, text, kinds)
  PROVE  c \in Range(normalizeChoices(v))
<1> DEFINE choices == normalizeChoices(v)
<1> DEFINE signal == IF IsReplacementYesNo(v) THEN extractReplacementSignal(text) ELSE {}
<1> DEFINE durations == IF "duration" \in kinds THEN extractDuration(text) ELSE {}
<1> DEFINE ofDuration(d) == FirstOf([i \in DOMAIN d |-> matchChoice(d[i], choices)])
<1> DEFINE found == <<
       UNION {pickYesNoChoice(a, choices) : a \in signal},
       MentionedChoice(text, choices),
       UNION {ChoiceFor(v, t) : t \in Extracted(text, kinds)},
       UNION {ofDuration(d) : d \in durations}>>
<1>1. c \in FirstOf(found)
  BY DEF ContextChoice
<1> HIDE DEF signal, durations
<1>2. PICK i \in DOMAIN found : c \in found[i]
  <2> HIDE DEF found
  <2> QED
    BY <1>1, FirstAmong
<1>3. \/ \E a \in signal : c \in pickYesNoChoice(a, choices)
      \/ c \in MentionedChoice(text, choices)
      \/ \E t \in Extracted(text, kinds) : c \in ChoiceFor(v, t)
      \/ \E d \in durations : c \in ofDuration(d)
  <2> HIDE DEF ofDuration, choices
  <2> QED
    BY <1>2
<1>4. ASSUME NEW a \in signal, c \in pickYesNoChoice(a, choices) PROVE c \in Range(choices)
  BY <1>4 DEF pickYesNoChoice, Find, Range
<1>5. CASE c \in MentionedChoice(text, choices)
  BY <1>5 DEF MentionedChoice, Find, Range
<1>6. ASSUME NEW d \in durations, c \in ofDuration(d) PROVE c \in Range(choices)
  <2> DEFINE matches == [k \in DOMAIN d |-> matchChoice(d[k], choices)]
  <2>1. c \in FirstOf(matches)
    BY <1>6
  <2> HIDE DEF matches
  <2>2. PICK k \in DOMAIN matches : c \in matches[k]
    BY <2>1, FirstAmong
  <2>3. matches[k] = matchChoice(d[k], choices)
    BY DEF matches
  <2> QED
    BY <2>2, <2>3, MatchedChoice
<1> HIDE DEF ofDuration, choices
<1>7. c \in Range(choices)
  BY <1>3, <1>4, <1>5, <1>6, ChosenForText DEF choices
<1> QED
  BY <1>7 DEF choices

\* Of a variable with choices, a choice is filled in, or nothing.
LEMMA PrefilledChoice ==
  ASSUME NEW v, NEW hints, NEW context, normalizeChoices(v) # <<>>,
         NEW x \in PrefilledValue(v, hints, context)
  PROVE  \E c \in Range(normalizeChoices(v)) : x = c.value
<1>1. x \in FirstOf(<<FromHints(v, hints), FromContext(v, context)>>)
  BY DEF PrefilledValue
<1>2. x \in FromHints(v, hints) \/ x \in FromContext(v, context)
  BY <1>1, FirstOfTwo
<1>3. CASE x \in FromHints(v, hints)
  <2> DEFINE values == [i \in DOMAIN hints |-> HintValue(v, hints[i])]
  <2>1. x \in FirstOf(values)
    BY <1>3 DEF FromHints
  <2> HIDE DEF values
  <2>2. PICK i \in DOMAIN values : x \in values[i]
    BY <2>1, FirstAmong
  <2>3. x \in HintValue(v, hints[i])
    BY <2>2 DEF values
  <2>4. x \in HintedChoice(v, hints[i].value)
    BY <2>3 DEF HintValue
  <2> DEFINE text == hints[i].value
  <2> DEFINE yesNo == IF IsReplacementYesNo(v)
               THEN UNION {pickYesNoChoice(a, normalizeChoices(v)) : a \in YesNo(text)} ELSE {}
  <2>5. PICK c \in FirstOf(<<yesNo, ChoiceFor(v, text)>>) : x = c.value
    BY <2>4 DEF HintedChoice
  <2>6. c \in yesNo \/ c \in ChoiceFor(v, text)
    <3> HIDE DEF yesNo, text
    <3> QED
      BY FirstOfTwo
  <2>7. CASE c \in yesNo
    <3>1. PICK a \in YesNo(text) : c \in pickYesNoChoice(a, normalizeChoices(v))
      BY <2>7
    <3>2. c \in Range(normalizeChoices(v))
      BY <3>1 DEF pickYesNoChoice, Find, Range
    <3> QED
      BY <2>5, <3>2
  <2>8. CASE c \in ChoiceFor(v, text)
    BY <2>5, <2>8, ChosenForText
  <2> QED
    BY <2>6, <2>7, <2>8
<1>4. CASE x \in FromContext(v, context)
  <2>1. PICK c \in ContextChoice(v, Whole(context), classifyLabel(getVariableLabel(v))) : x = c.value
    BY <1>4 DEF FromContext
  <2>2. c \in Range(normalizeChoices(v))
    BY <2>1, ContextualChoice
  <2> QED
    BY <2>1, <2>2
<1> QED
  BY <1>2, <1>3, <1>4

\* What is filled in under the name of a variable is meant for it.
LEMMA PrefilledByName ==
  ASSUME NEW form \in Catalog, NEW hints, NEW context,
         NEW v \in Range(collectVariables(form.variables)),
         v.name \in DOMAIN computePrefillValues(form.variables, hints, context)
  PROVE  computePrefillValues(form.variables, hints, context)[v.name]
           \in PrefilledValue(v, hints, context)
<1> DEFINE flat == collectVariables(form.variables)
<1> DEFINE filled == {w \in Range(flat) : PrefilledValue(w, hints, context) # {}}
<1> DEFINE named(name) == CHOOSE w \in filled : w.name = name
<1>1. \A w \in Range(flat) : w.name = v.name => w = v
  <2>1. \A i, j \in DOMAIN flat : flat[i].name = flat[j].name => i = j
    BY NamesAssumption
  <2>2. v \in Range(flat)
    OBVIOUS
  <2> HIDE DEF flat
  <2> QED
    BY <2>1, <2>2 DEF Range
<1>2. computePrefillValues(form.variables, hints, context) =
        [name \in {w.name : w \in filled} |-> Only(PrefilledValue(named(name), hints, context))]
  BY DEF computePrefillValues
<1> HIDE DEF flat
<1>3. \E w \in filled : w.name = v.name
  BY <1>2
<1>4. named(v.name) \in filled /\ named(v.name).name = v.name
  BY <1>3
<1>5. named(v.name) = v /\ v \in filled
  BY <1>1, <1>4
<1> HIDE DEF named
<1>6. computePrefillValues(form.variables, hints, context)[v.name] =
        Only(PrefilledValue(v, hints, context))
  BY <1>2, <1>3, <1>5
<1> QED
  BY <1>5, <1>6 DEF Only

-----------------------------------------------------------------------------
(* Booleans and numbers *)

\* Where a pattern is found, its first word is.
LEMMA FirstWord ==
  ASSUME NEW text, NEW pattern, 1 \in DOMAIN pattern, NEW i \in Leftmost(text, {pattern})
  PROVE  text[i] \in pattern[1]
<1> DEFINE positions == [k \in 1..Len(text) |-> k]
<1> DEFINE Has(k) == \E p \in {pattern} : HasAt(text, p, k)
<1>1. Leftmost(text, {pattern}) = Find(positions, Has)
  BY DEF Leftmost
<1> HIDE DEF Has
<1>2. \A k \in Find(positions, Has) : k \in 1..Len(text) /\ Has(k)
  BY DEF Find
<1>3. i \in 1..Len(text) /\ Has(i)
  BY <1>1, <1>2
<1>4. text[i + 1 - 1] \in pattern[1]
  BY <1>3 DEF Has, HasAt
<1>5. i + 1 - 1 = i
  BY <1>3
<1> QED
  BY <1>4, <1>5

\* A quantity is a numeral.
LEMMA QuantityIsNumeric ==
  ASSUME NEW text, NEW x \in extractQuantity(text)
  PROVE  IsNumeric(x)
<1> DEFINE pattern == <<NumbersIn(0..999), CountedThings>>
<1>1. PICK i \in Leftmost(text, {pattern}) : x = <<text[i]>>
  BY DEF extractQuantity
<1>2. 1 \in DOMAIN pattern /\ pattern[1] = NumbersIn(0..999)
  OBVIOUS
<1> HIDE DEF pattern
<1>3. text[i] \in NumbersIn(0..999)
  BY <1>1, <1>2, FirstWord
<1>4. text[i] \in DOMAIN Numerals
  BY <1>3 DEF NumbersIn
<1> QED
  BY <1>1, <1>4 DEF IsNumeric

\* Without choices, a boolean is filled with true or false and a number with a numeral.
LEMMA PrefilledLiteral ==
  ASSUME NEW v, NEW hints, NEW context, normalizeChoices(v) = <<>>,
         NEW x \in PrefilledValue(v, hints, context)
  PROVE  /\ normalizeVariableType(v) \in BooleanTypes => x \in {<<"true">>, <<"false">>}
         /\ normalizeVariableType(v) \in NumericTypes \ BooleanTypes => IsNumeric(x)
<1>1. x \in FirstOf(<<FromHints(v, hints), FromContext(v, context)>>)
  BY DEF PrefilledValue
<1>2. x \in FromHints(v, hints) \/ x \in FromContext(v, context)
  BY <1>1, FirstOfTwo
<1>3. CASE x \in FromHints(v, hints)
  <2> DEFINE values == [i \in DOMAIN hints |-> HintValue(v, hints[i])]
  <2>1. x \in FirstOf(values)
    BY <1>3 DEF FromHints
  <2> HIDE DEF values
  <2>2. PICK i \in DOMAIN values : x \in values[i]
    BY <2>1, FirstAmong
  <2>3. i \in DOMAIN hints /\ x \in HintValue(v, hints[i])
    BY <2>2 DEF values
  <2>4. CASE normalizeVariableType(v) \in BooleanTypes
    BY <2>3, <2>4 DEF HintValue
  <2>5. CASE normalizeVariableType(v) \in NumericTypes \ BooleanTypes
    BY <2>3, <2>5 DEF HintValue
  <2> QED
    BY <2>4, <2>5
<1>4. CASE x \in FromContext(v, context)
  <2>1. CASE normalizeVariableType(v) \in BooleanTypes
    <3>1. x \in extractBoolean(getVariableLabel(v), context)
      BY <1>4, <2>1 DEF FromContext
    <3> QED
      BY <2>1, <3>1 DEF extractBoolean
  <2>2. CASE normalizeVariableType(v) \in NumericTypes \ BooleanTypes
    <3>1. x \in extractQuantity(Whole(context))
      BY <1>4, <2>2 DEF FromContext
    <3> QED
      BY <2>2, <3>1, QuantityIsNumeric
  <2> QED
    BY <2>1, <2>2
<1> QED
  BY <1>2, <1>3, <1>4

-----------------------------------------------------------------------------
(* The handler *)

\* The invariant: lookups exist from the answer of the item on, one per reference, and
\* a handler that fails has begun none.
FormIInv ==
  /\ request \in Requests /\ stage \in Stages
  /\ item \in Catalog \cup {Nothing}
  /\ stage \in {"called", "search", "item", "failed"} => lookup = <<>>
  /\ stage \in {"lookups", "done"} =>
       /\ item \in Catalog
       /\ DOMAIN lookup = DOMAIN References /\ Range(lookup) \subseteq LookupStates

\* The handler starts with it,
LEMMA FormStarts == FormInit => FormIInv
BY DEF FormInit, FormIInv, Stages

\* and every step keeps it: the references are those of the item, which no step changes
\* once the lookups have begun.
LEMMA FormKeeps == FormIInv /\ [FormNext]_formVars => FormIInv'
<1> SUFFICES ASSUME FormIInv, [FormNext]_formVars PROVE FormIInv'
  OBVIOUS
<1>1. CASE Call
  <2> DEFINE match == {i \in Catalog : request.byId /\ i.sys_id = request.item}
  <2>1. item' \in Catalog \cup {Nothing}
    <3>1. item' = Only(FirstOf(<<match, {Nothing}>>))
      BY <1>1 DEF Call
    <3>2. FirstOf(<<match, {Nothing}>>) = IF match # {} THEN match ELSE {Nothing}
      <4> HIDE DEF match
      <4> QED
        BY FirstOfTwo
    <3> QED
      BY <3>1, <3>2 DEF Only
  <2>2. stage' \in {"item", "search"} /\ lookup' = <<>> /\ request' = request
    BY <1>1 DEF Call, FormIInv
  <2> QED
    BY <2>1, <2>2 DEF FormIInv, Stages
<1>2. CASE CallFails
  BY <1>2 DEF CallFails, FormIInv, Stages
<1>3. CASE ItemReturns
  <2>1. /\ item \in Catalog /\ stage' = "lookups" /\ item' = item /\ request' = request
        /\ lookup' = [i \in DOMAIN References |->
                        IF References[i].reference \in Tables THEN "asked" ELSE "failed"]
    BY <1>3 DEF ItemReturns, FormIInv
  <2>2. References' = References
    BY <2>1 DEF References, Flat
  <2>3. DOMAIN lookup' = DOMAIN References /\ Range(lookup') \subseteq LookupStates
    <3> HIDE DEF References
    <3> QED
      BY <2>1 DEF LookupStates, Range
  <2> QED
    BY <2>1, <2>2, <2>3 DEF FormIInv, Stages
<1>4. CASE Build
  <2>1. References' = References
    BY <1>4 DEF Build, References, Flat
  <2> QED
    BY <1>4, <2>1 DEF Build, FormIInv, Stages
<1>5. ASSUME NEW found \in Findings, SearchReturns(found) PROVE FormIInv'
  <2> DEFINE match == Find(found, LAMBDA i : i.name = request.item)
  <2>1. match \subseteq Catalog
    <3>1. PICK S \in SUBSET Catalog : found \in SetToSeqs(S)
      BY DEF Findings
    <3>2. \A i \in DOMAIN found : found[i] \in Catalog
      BY <3>1 DEF SetToSeqs
    <3> QED
      BY <3>2 DEF Find
  <2>2. /\ stage = "search" /\ request' = request /\ lookup' = lookup
        /\ IF match = {} THEN stage' = "failed" /\ item' = Nothing
           ELSE stage' = "item" /\ item' \in match
    BY <1>5 DEF SearchReturns
  <2> HIDE DEF match
  <2> QED
    BY <2>1, <2>2 DEF FormIInv, Stages
<1>6. ASSUME NEW i \in DOMAIN lookup, ReferenceReturns(i) \/ ReferenceFails(i) PROVE FormIInv'
  <2>1. PICK settled \in {"answered", "failed"} :
          lookup' = [lookup EXCEPT ![i] = settled]
    BY <1>6 DEF ReferenceReturns, ReferenceFails
  <2>2. stage = "lookups" /\ request' = request /\ stage' = stage /\ item' = item
    BY <1>6 DEF ReferenceReturns, ReferenceFails
  <2>3. References' = References
    BY <2>2 DEF References, Flat
  <2>4. DOMAIN lookup' = DOMAIN lookup /\ Range(lookup') \subseteq Range(lookup) \cup {settled}
    BY <2>1 DEF Range
  <2> HIDE DEF References
  <2>5. Range(lookup') \subseteq LookupStates
    BY <2>2, <2>4 DEF FormIInv, LookupStates
  <2> QED
    BY <2>2, <2>3, <2>4, <2>5 DEF FormIInv
<1>7. CASE UNCHANGED formVars
  <2>1. References' = References
    BY <1>7 DEF References, Flat, formVars
  <2> QED
    BY <1>7, <2>1 DEF FormIInv, formVars
<1> QED
  BY <1>1, <1>2, <1>3, <1>4, <1>5, <1>6, <1>7 DEF FormNext, Step, Answered

\* The invariant of the handler of get_catalog_item_form holds in every behavior.
THEOREM FormInductive == FormSpec => []FormIInv
<1>1. FormInit => FormIInv
  BY FormStarts
<1>2. FormIInv /\ [FormNext]_formVars => FormIInv'
  BY FormKeeps
<1> QED
  BY <1>1, <1>2, PTL DEF FormSpec

\* The state of the handler is typed: there is a lookup per reference, or none.
THEOREM FormTyping == FormSpec => []FormTypeOK
<1>1. FormIInv => FormTypeOK
  <2> SUFFICES ASSUME FormIInv PROVE FormTypeOK
    OBVIOUS
  <2>1. CASE stage \in {"lookups", "done"}
    BY <2>1 DEF FormIInv, FormTypeOK
  <2>2. CASE stage \notin {"lookups", "done"}
    <3>1. lookup = <<>>
      BY <2>2 DEF FormIInv, Stages
    <3>2. DOMAIN lookup = {} /\ Range(lookup) = {}
      BY <3>1 DEF Range
    <3> QED
      BY <3>2 DEF FormIInv, FormTypeOK
  <2> QED
    BY <2>1, <2>2
<1> QED
  BY <1>1, FormInductive, PTL

-----------------------------------------------------------------------------
(* The card: the parts of buildVariableInput by name *)

Offered(v) == Only(FirstOf(<<referenceChoices(v), {<<>>}>>))
KindIn(v) == InputKind(v, inputType(v), Offered(v))
ValueIn(v, prefilled) ==
  IF v.name \in DOMAIN prefilled /\ prefilled[v.name] # <<>>
  THEN prefilled[v.name] ELSE getVariableDefaultValue(v)
InputOf(v, prefilled) ==
  [kind |-> KindIn(v), id |-> v.name, value |-> Shown(KindIn(v), ValueIn(v, prefilled)),
   required |-> v.mandatory,
   choices |-> IF KindIn(v) = "ReferenceSet" THEN Offered(v)
               ELSE IF KindIn(v) = "ChoiceSet" THEN normalizeChoices(v) ELSE <<>>]
HasInput == {v \in Variables : KindIn(v) # "none"}

\* The card is the image of the variables that have an element.
LEMMA CardIsImage ==
  ASSUME item \in Catalog, NEW prefilled
  PROVE  /\ Flat \in Seq(Variables)
         /\ buildOrderFormAdaptiveCard(prefilled) =
              Image([v \in Variables |-> InputOf(v, prefilled)], Among(Flat, HasInput))
<1> DEFINE input(v) == buildVariableInput(v, prefilled, Offered(v))
<1> DEFINE F == [v \in Variables |-> InputOf(v, prefilled)]
<1> DEFINE shown == Among(Flat, {v \in Variables : input(v) # {}})
<1>1. Flat \in Seq(Variables)
  BY CatalogAssumption, CollectedVariables DEF Flat
<1>2. ASSUME NEW v PROVE input(v) = IF KindIn(v) = "none" THEN {} ELSE {InputOf(v, prefilled)}
  BY DEF buildVariableInput, KindIn, ValueIn, InputOf
<1>3. buildOrderFormAdaptiveCard(prefilled) = [i \in DOMAIN shown |-> Only(input(shown[i]))]
  BY DEF buildOrderFormAdaptiveCard, Offered
<1> HIDE DEF input
<1>4. {v \in Variables : input(v) # {}} = HasInput
  BY <1>2 DEF HasInput
<1>5. shown = Among(Flat, HasInput)
  BY <1>4
<1> HIDE DEF shown
<1>6. ASSUME NEW i \in DOMAIN shown PROVE Only(input(shown[i])) = F[shown[i]]
  <2>1. shown[i] \in Range(shown)
    BY DEF Range
  <2>2. shown[i] \in HasInput
    BY <1>1, <1>5, <2>1, AmongElements
  <2>3. input(shown[i]) = {InputOf(shown[i], prefilled)} /\ shown[i] \in Variables
    BY <1>2, <2>2 DEF HasInput
  <2> QED
    BY <2>3 DEF Only
<1> HIDE DEF F
<1>7. [i \in DOMAIN shown |-> Only(input(shown[i]))] = Image(F, shown)
  BY <1>6 DEF Image
<1> QED
  BY <1>1, <1>3, <1>5, <1>7 DEF F

\* Its elements are those of the variables of the form.
LEMMA CardElements ==
  ASSUME item \in Catalog, NEW prefilled
  PROVE  Range(buildOrderFormAdaptiveCard(prefilled)) =
           {InputOf(v, prefilled) : v \in {v \in Range(Flat) : KindIn(v) # "none"}}
<1> DEFINE F == [v \in Variables |-> InputOf(v, prefilled)]
<1> DEFINE shown == Among(Flat, HasInput)
<1>1. Flat \in Seq(Variables) /\ buildOrderFormAdaptiveCard(prefilled) = Image(F, shown)
  BY CardIsImage
<1>2. Range(Flat) \subseteq Variables
  BY <1>1 DEF Range
<1>3. Range(shown) = Range(Flat) \cap HasInput
  <2>1. /\ \A x \in Range(shown) : x \in Range(Flat) \cap HasInput
        /\ \A x \in Range(Flat) \cap HasInput : x \in Range(shown)
    BY <1>1, AmongElements
  <2> QED
    BY <2>1
<1>4. Range(shown) = {v \in Range(Flat) : KindIn(v) # "none"}
  BY <1>2, <1>3 DEF HasInput
<1> HIDE DEF shown
<1>5. Range(Image(F, shown)) = {F[v] : v \in Range(shown)}
  BY DEF Image, Range
<1>6. \A v \in Range(shown) : F[v] = InputOf(v, prefilled)
  BY <1>2, <1>4
<1> HIDE DEF F
<1> QED
  BY <1>1, <1>4, <1>5, <1>6

\* Where the catalog lists choices, computePrefillValues and the card propose one of them
\* or the catalog's own default, for every catalog, every hint and every context: every
\* way of matching a text ends at an entry of normalizeChoices.
THEOREM RealChoices == FormSpec => []ChoicesAreReal
<1>1. FormIInv => ChoicesAreReal
  <2> SUFFICES ASSUME FormIInv, NEW input \in Range(Card),
                      input.kind = "ChoiceSet", input.choices # <<>>
               PROVE  \/ \E c \in Range(input.choices) : input.value = c.value
                      \/ \E v \in Range(Flat) : v.name = input.id /\ input.value = getVariableDefaultValue(v)
    BY DEF ChoicesAreReal
  <2> DEFINE prefilled == prefilledValues
  <2>1. stage = "done" /\ Card = buildOrderFormAdaptiveCard(prefilled)
    <3>1. Range(<<>>) = {}
      BY DEF Range
    <3> QED
      BY <3>1 DEF Card
  <2>2. item \in Catalog
    BY <2>1 DEF FormIInv
  <2> HIDE DEF prefilled
  <2>3. PICK v \in Range(Flat) : KindIn(v) # "none" /\ input = InputOf(v, prefilled)
    <3>1. Range(Card) = {InputOf(v, prefilled) : v \in {v \in Range(Flat) : KindIn(v) # "none"}}
      BY <2>1, <2>2, CardElements
    <3> QED
      BY <3>1
  <2>4. KindIn(v) = "ChoiceSet"
    BY <2>3 DEF InputOf
  <2>5. /\ input.choices = normalizeChoices(v) /\ input.id = v.name
        /\ input.value = Shown("ChoiceSet", ValueIn(v, prefilled))
    BY <2>3, <2>4 DEF InputOf
  <2>6. input.value = ValueIn(v, prefilled)
    BY <2>5 DEF Shown
  <2>7. CASE v.name \in DOMAIN prefilled /\ prefilled[v.name] # <<>>
    <3>1. input.value = prefilled[v.name]
      BY <2>6, <2>7 DEF ValueIn
    <3>2. prefilled[v.name] \in PrefilledValue(v, request.hints, request.context)
      BY <2>2, <2>3, <2>7, PrefilledByName DEF prefilled, prefilledValues, Flat
    <3>3. \E c \in Range(normalizeChoices(v)) : prefilled[v.name] = c.value
      BY <2>5, <3>2, PrefilledChoice
    <3> QED
      BY <2>5, <3>1, <3>3
  <2>8. CASE ~(v.name \in DOMAIN prefilled /\ prefilled[v.name] # <<>>)
    <3>1. input.value = getVariableDefaultValue(v)
      BY <2>6, <2>8 DEF ValueIn
    <3> QED
      BY <2>3, <2>5, <3>1
  <2> QED
    BY <2>7, <2>8
<1> QED
  BY <1>1, FormInductive, PTL

-----------------------------------------------------------------------------
(* The kinds of the elements *)

\* The type that decides is the variable's own, unless it is a date by its label.
LEMMA TypeFacts ==
  ASSUME NEW v
  PROVE  /\ isLikelyDateField(v) = {} => inputType(v) = normalizeVariableType(v)
         /\ isLikelyDateField(v) # {} => inputType(v) \in {"date", "datetime"}
<1>1. inputType(v) = Only(IF isLikelyDateField(v) # {} THEN isLikelyDateField(v)
                       ELSE {normalizeVariableType(v)})
  BY FirstOfTwo DEF inputType
<1>2. isLikelyDateField(v) # {} => Only(isLikelyDateField(v)) \in {"date", "datetime"}
  BY DEF isLikelyDateField, Only
<1> QED
  BY <1>1, <1>2 DEF Only

\* Only a reference with a table is offered anything, and the records of its table.
LEMMA OfferedFacts ==
  ASSUME item \in Catalog, DOMAIN lookup = DOMAIN References, NEW v
  PROVE  /\ Offered(v) = RecordsFor(v)
         /\ Offered(v) # <<>> => isReferenceVariable(v) /\ v.reference # ""
<1> DEFINE tabled == {w \in Variables : isReferenceVariable(w) /\ w.visible /\ w.reference # ""}
<1> DEFINE isFound == \E i \in DOMAIN References : References[i] = v /\ lookup[i] = "answered"
<1>1. referenceChoices(v) = IF isFound THEN {searchReferenceRecords(v)} ELSE {}
  <2> HIDE DEF References
  <2> QED
    BY DEF referenceChoices
<1>2. Offered(v) = IF isFound THEN searchReferenceRecords(v) ELSE <<>>
  <2>1. Offered(v) = Only(IF referenceChoices(v) # {} THEN referenceChoices(v) ELSE {<<>>})
    BY FirstOfTwo DEF Offered
  <2> HIDE DEF isFound
  <2> QED
    BY <1>1, <2>1 DEF Only
<1>3. RecordsFor(v) = IF isFound THEN searchReferenceRecords(v) ELSE <<>>
  <2> HIDE DEF References
  <2> QED
    BY DEF RecordsFor
<1>4. ASSUME isFound PROVE isReferenceVariable(v) /\ v.reference # ""
  <2>1. References = Among(Flat, tabled)
    BY NothingAssumption DEF References
  <2>2. v \in Range(References)
    <3> HIDE DEF References
    <3> QED
      BY <1>4 DEF Range
  <2>3. Flat \in Seq(Variables)
    BY CatalogAssumption, CollectedVariables DEF Flat
  <2>4. v \in Range(Flat) \cap tabled
    <3> HIDE DEF tabled
    <3> QED
      BY <2>1, <2>2, <2>3, AmongElements
  <2> QED
    BY <2>4
<1>5. Offered(v) = RecordsFor(v)
  BY <1>2, <1>3
<1>6. ~isFound => Offered(v) = <<>>
  BY <1>2
<1> HIDE DEF isFound
<1> QED
  BY <1>4, <1>5, <1>6

\* A question has an input; texts and what the card leaves out have none.
LEMMA AskedHaveInputs ==
  ASSUME item \in Catalog, DOMAIN lookup = DOMAIN References, NEW v \in Variables
  PROVE  IsAsked(v) <=> KindIn(v) \notin {"none", "TextBlock"}
<1>1. KindIn(v) =
    IF ~v.visible \/ inputType(v) \in ContainerEndTypes \cup UnsupportedRendererTypes THEN "none"
    ELSE IF isReferenceVariable(v) /\ Offered(v) # <<>> THEN "ReferenceSet"
    ELSE IF inputType(v) \in StaticTextTypes THEN "TextBlock"
    ELSE IF normalizeChoices(v) # <<>> \/ inputType(v) \in ChoiceTypes THEN "ChoiceSet"
    ELSE IF inputType(v) \in ToggleTypes THEN "Toggle"
    ELSE IF inputType(v) \in DateTypes THEN "Date"
    ELSE IF inputType(v) \in DateTimeTypes THEN "DateOfTime"
    ELSE IF inputType(v) \in MultilineTypes \/ v.is_multiline THEN "Text"
    ELSE IF inputType(v) \in NumberTypes THEN "Number"
    ELSE "Text"
  BY KindByRules DEF KindIn
<1>2. Offered(v) # <<>> => v.reference # ""
  BY OfferedFacts
<1>3. CASE isLikelyDateField(v) = {}
  <2>1. inputType(v) = normalizeVariableType(v)
    BY <1>3, TypeFacts
  <2>2. v.reference # "" => normalizeVariableType(v) \notin StaticTextTypes
    BY TypesAssumption
  <2> QED
    BY <1>1, <1>2, <2>1, <2>2 DEF IsAsked, NotInputTypes
<1>4. CASE isLikelyDateField(v) # {}
  <2>1. inputType(v) \in {"date", "datetime"}
    BY <1>4, TypeFacts
  <2>2. normalizeVariableType(v) \notin NotInputTypes
    BY <1>4, TypesAssumption
  <2>3. inputType(v) \notin NotInputTypes
    BY <2>1 DEF NotInputTypes, StaticTextTypes, ContainerEndTypes, UnsupportedRendererTypes
  <2> QED
    BY <1>1, <2>2, <2>3 DEF IsAsked, NotInputTypes
<1> QED
  BY <1>3, <1>4

\* The input of a question is the one that its type and its choices call for, and of a
\* date with time the first word is taken where there is nothing to choose from.
LEMMA AskedAsCalledFor ==
  ASSUME item \in Catalog, DOMAIN lookup = DOMAIN References, NEW v \in Variables, IsAsked(v),
         NEW prefilled
  PROVE  /\ Puts(InputOf(v, prefilled), v, ChoicesFor(v))
         /\ KindIn(v) = "DateOfTime" <=> ChoicesFor(v) = <<>> /\ inputType(v) \in DateTimeTypes
<1> DEFINE input == InputOf(v, prefilled)
<1>1. input.kind = KindIn(v)
      /\ input.choices = IF KindIn(v) = "ReferenceSet" THEN Offered(v)
                         ELSE IF KindIn(v) = "ChoiceSet" THEN normalizeChoices(v) ELSE <<>>
  BY DEF InputOf
<1> HIDE DEF input
<1>2. KindIn(v) \notin {"none", "TextBlock"}
  BY AskedHaveInputs
<1>3. KindIn(v) =
        IF isReferenceVariable(v) /\ Offered(v) # <<>> THEN "ReferenceSet"
        ELSE IF normalizeChoices(v) # <<>> \/ inputType(v) \in ChoiceTypes THEN "ChoiceSet"
        ELSE IF inputType(v) \in ToggleTypes THEN "Toggle"
        ELSE IF inputType(v) \in DateTypes THEN "Date"
        ELSE IF inputType(v) \in DateTimeTypes THEN "DateOfTime"
        ELSE IF inputType(v) \in MultilineTypes \/ v.is_multiline THEN "Text"
        ELSE IF inputType(v) \in NumberTypes THEN "Number"
        ELSE "Text"
  BY <1>2, KindByRules DEF KindIn
<1>4. /\ ChoicesFor(v) = IF Offered(v) # <<>> THEN Offered(v) ELSE normalizeChoices(v)
      /\ Offered(v) # <<>> => isReferenceVariable(v)
  <2>1. Offered(v) = RecordsFor(v)
    BY OfferedFacts
  <2>2. Offered(v) # <<>> => isReferenceVariable(v)
    BY OfferedFacts
  <2> QED
    BY <2>1, <2>2 DEF ChoicesFor
<1>5. input.choices = ChoicesFor(v)
  BY <1>1, <1>3, <1>4
<1>6. IsList(input) <=> ChoicesFor(v) # <<>> \/ inputType(v) \in ChoiceTypes
  BY <1>1, <1>3, <1>4 DEF IsList
<1>7. input.kind = "Text" <=> ChoicesFor(v) = <<>> /\ IsText(v)
  <2>1. inputType(v) \in MultilineTypes =>
          inputType(v) \notin ChoiceTypes \cup ToggleTypes \cup DateTypes \cup DateTimeTypes \cup NumberTypes
    BY DEF MultilineTypes, ChoiceTypes, ToggleTypes, DateTypes, DateTimeTypes, NumberTypes
  <2> QED
    BY <1>1, <1>3, <1>4, <2>1 DEF IsText
<1>8. KindIn(v) = "DateOfTime" <=> ChoicesFor(v) = <<>> /\ inputType(v) \in DateTimeTypes
  <2>1. inputType(v) \in DateTimeTypes => inputType(v) \notin ChoiceTypes \cup ToggleTypes \cup DateTypes
    BY DEF ChoiceTypes, ToggleTypes, DateTypes, DateTimeTypes
  <2> QED
    BY <1>3, <1>4, <2>1
<1> QED
  BY <1>5, <1>6, <1>7, <1>8 DEF Puts, input

\* The lookups of get_catalog_item_form fail, are slow and overtake each other without a
\* question being lost, repeated or moved, and without a list of records reaching the
\* wrong one: the inputs of the card are the image of the questions of the form.  Which
\* input a reference without records becomes, follows from its type and its own choices.
THEOREM LookupsAreLocal == FormSpec => []FlakyLookupsAreLocal
<1>1. FormIInv => FlakyLookupsAreLocal
  <2> SUFFICES ASSUME FormIInv PROVE FlakyLookupsAreLocal
    OBVIOUS
  <2>1. stage = "failed" => lookup = <<>>
    BY DEF FormIInv
  <2>2. SUFFICES ASSUME stage = "done"
        PROVE
          LET asked == Among(Flat, {v \in Variables : IsAsked(v)})
              inputs == Among(Card, {input \in Range(Card) : input.kind # "TextBlock"})
          IN /\ [i \in DOMAIN inputs |-> inputs[i].id] = [i \in DOMAIN asked |-> asked[i].name]
             /\ \A i \in DOMAIN asked : Puts(inputs[i], asked[i], ChoicesFor(asked[i]))
    BY <2>1 DEF FlakyLookupsAreLocal, PutTheQuestions, Inputs
  <2> DEFINE prefilled == prefilledValues
  <2> DEFINE F == [v \in Variables |-> InputOf(v, prefilled)]
  <2> DEFINE Asked == {v \in Variables : IsAsked(v)}
  <2> DEFINE AreInputs == {input \in Range(Card) : input.kind # "TextBlock"}
  <2> DEFINE asked == Among(Flat, Asked)
  <2> DEFINE inputs == Among(Card, AreInputs)
  <2>3. item \in Catalog /\ DOMAIN lookup = DOMAIN References
    BY <2>2 DEF FormIInv
  <2>4. Card = buildOrderFormAdaptiveCard(prefilled)
    BY <2>2 DEF Card
  <2> HIDE DEF prefilled
  <2>5. Flat \in Seq(Variables) /\ Card = Image(F, Among(Flat, HasInput))
    BY <2>3, <2>4, CardIsImage
  <2>6. \A v \in Variables : F[v] = InputOf(v, prefilled) /\ F[v].kind = KindIn(v)
    BY DEF InputOf
  <2> HIDE DEF F
  <2>7. Range(Flat) \subseteq Variables
    BY <2>5 DEF Range
  <2>8. inputs = Image(F, asked)
    <3> DEFINE V == Range(Flat)
    <3> DEFINE D == {F[v] : v \in V}
    <3>1. Flat \in Seq(V)
      BY <2>5 DEF Range
    <3>2. Maps(F, V, D)
      BY DEF Maps
    <3>3. ASSUME NEW v \in V PROVE v \in Asked <=> v \in HasInput /\ F[v] \in AreInputs
      <4>1. v \in Variables
        BY <2>7
      <4>2. v \in Asked <=> KindIn(v) \notin {"none", "TextBlock"}
        BY <2>3, <4>1, AskedHaveInputs
      <4>3. v \in HasInput <=> KindIn(v) # "none"
        BY <4>1 DEF HasInput
      <4>4. KindIn(v) # "none" => F[v] \in Range(Card)
        <5>1. Range(Card) = {InputOf(w, prefilled) : w \in {w \in Range(Flat) : KindIn(w) # "none"}}
          BY <2>3, <2>4, CardElements
        <5> QED
          BY <2>6, <4>1, <5>1
      <4>5. F[v] \in AreInputs <=> F[v] \in Range(Card) /\ KindIn(v) # "TextBlock"
        BY <2>6, <4>1
      <4> QED
        BY <4>2, <4>3, <4>4, <4>5
    <3>4. \A v \in V : v \in Asked <=> v \in HasInput /\ F[v] \in AreInputs
      BY <3>3
    <3> HIDE DEF V, D, Asked, AreInputs
    <3>5. Among(Image(F, Among(Flat, HasInput)), AreInputs) = Image(F, Among(Flat, Asked))
      BY <3>1, <3>2, <3>4, AmongImage
    <3> QED
      BY <2>5, <3>5
  <2>9. ASSUME NEW i \in DOMAIN asked
        PROVE  /\ inputs[i] = InputOf(asked[i], prefilled)
               /\ asked[i] \in Variables /\ IsAsked(asked[i])
    <3>1. asked[i] \in Range(asked)
      BY DEF Range
    <3>2. asked[i] \in Asked
      <4> HIDE DEF Asked
      <4> QED
        BY <2>5, <3>1, AmongElements
    <3>3. inputs[i] = F[asked[i]]
      <4> HIDE DEF asked, inputs
      <4> QED
        BY <2>8 DEF Image
    <3> QED
      BY <2>6, <3>2, <3>3
  <2>10. DOMAIN inputs = DOMAIN asked
    <3> HIDE DEF asked, inputs
    <3> QED
      BY <2>8 DEF Image
  <2>11. [i \in DOMAIN inputs |-> inputs[i].id] = [i \in DOMAIN asked |-> asked[i].name]
    <3>1. \A v : InputOf(v, prefilled).id = v.name
      BY DEF InputOf
    <3> HIDE DEF asked, inputs
    <3>2. \A i \in DOMAIN asked : inputs[i].id = asked[i].name
      BY <2>9, <3>1
    <3> QED
      BY <2>10, <3>2
  <2>12. ASSUME NEW i \in DOMAIN asked
         PROVE  Puts(inputs[i], asked[i], ChoicesFor(asked[i]))
    <3> HIDE DEF asked, inputs
    <3> QED
      BY <2>3, <2>9, AskedAsCalledFor
  <2> QED
    BY <2>11, <2>12
<1> QED
  BY <1>1, FormInductive, PTL

\* What the input of a variable shows of the value that is filled in.
LEMMA ShownPrefill ==
  ASSUME NEW v \in Variables, NEW hints, NEW context,
         NEW x \in PrefilledValue(v, hints, context), x # <<>>
  PROVE  Shown(KindIn(v), x) = IF KindIn(v) = "DateOfTime" THEN <<Head(x)>> ELSE x
<1>1. /\ KindIn(v) = "Toggle" => /\ normalizeChoices(v) = <<>>
                                 /\ inputType(v) \in ToggleTypes
      /\ KindIn(v) = "Number" => normalizeChoices(v) = <<>> /\ inputType(v) \in NumberTypes
  BY KindByRules DEF KindIn
<1>2. CASE KindIn(v) = "Toggle"
  <2>1. inputType(v) = normalizeVariableType(v)
    BY <1>1, <1>2, TypeFacts DEF ToggleTypes
  <2>2. normalizeVariableType(v) \in BooleanTypes
    BY <1>1, <1>2, <2>1 DEF BooleanTypes, ToggleTypes
  <2>3. x \in {<<"true">>, <<"false">>}
    BY <1>1, <1>2, <2>2, PrefilledLiteral
  <2>4. <<"true">> \in TrueWords /\ <<"false">> \notin TrueWords
    BY DEF TrueWords
  <2> QED
    BY <1>2, <2>3, <2>4 DEF Shown
<1>3. CASE KindIn(v) = "Number"
  <2>1. inputType(v) = normalizeVariableType(v)
    BY <1>1, <1>3, TypeFacts DEF NumberTypes
  <2>2. normalizeVariableType(v) \in NumericTypes \ BooleanTypes
    BY <1>1, <1>3, <2>1 DEF NumericTypes, NumberTypes, BooleanTypes
  <2>3. IsNumeric(x)
    BY <1>1, <1>3, <2>2, PrefilledLiteral
  <2> QED
    BY <1>3, <2>3 DEF Shown
<1>4. CASE KindIn(v) \notin {"Toggle", "Number"}
  BY <1>4 DEF Shown
<1> QED
  BY <1>2, <1>3, <1>4

\* An element of the card with the name of a variable is that variable's.
LEMMA ElementByName ==
  ASSUME item \in Catalog, NEW prefilled, NEW v \in Range(Flat),
         NEW input \in Range(buildOrderFormAdaptiveCard(prefilled)), input.id = v.name
  PROVE  input = InputOf(v, prefilled)
<1>1. PICK w \in Range(Flat) : input = InputOf(w, prefilled)
  <2>1. Range(buildOrderFormAdaptiveCard(prefilled)) =
          {InputOf(w, prefilled) : w \in {w \in Range(Flat) : KindIn(w) # "none"}}
    BY CardElements
  <2> QED
    BY <2>1
<1>2. w.name = v.name
  BY <1>1 DEF InputOf
<1>3. \A i, j \in DOMAIN Flat : Flat[i].name = Flat[j].name => i = j
  BY NamesAssumption DEF Flat
<1>4. w = v
  <2> HIDE DEF Flat
  <2> QED
    BY <1>2, <1>3 DEF Range
<1> QED
  BY <1>1, <1>4

\* What computePrefillValues reports as filled in, the card shows, but for the three cases
\* of LosesPrefill, and in those it never does: a variable that the prefill does not skip
\* is asked unless its type is one of those that only the card leaves out, booleans and
\* numbers are filled with what a toggle and a number input can hold, and no other input
\* has the name of the variable.
THEOREM PrefillAccounts == FormSpec => []PrefillIsAccountedFor
<1>1. FormIInv => PrefillIsAccountedFor
  <2> DEFINE prefilled == prefilledValues
  <2> SUFFICES ASSUME FormIInv, stage = "done", NEW v \in Range(Flat),
                      v.name \in DOMAIN prefilled, prefilled[v.name] # <<>>
               PROVE  Visible(Card, v, prefilled[v.name])
                        <=> ~LosesPrefill(v, prefilled[v.name], ChoicesFor(v))
    BY DEF PrefillIsAccountedFor, Accounts
  <2>1. item \in Catalog /\ DOMAIN lookup = DOMAIN References
    BY DEF FormIInv
  <2>2. Card = buildOrderFormAdaptiveCard(prefilled)
    BY DEF Card
  <2>3. prefilled[v.name] \in PrefilledValue(v, request.hints, request.context)
    BY <2>1, PrefilledByName DEF prefilledValues, Flat
  <2>4. v \in Variables
    <3>1. Flat \in Seq(Variables)
      BY <2>1, CatalogAssumption, CollectedVariables DEF Flat
    <3> QED
      BY <3>1 DEF Range
  <2> HIDE DEF prefilled
  <2> DEFINE x == prefilled[v.name]
  <2> DEFINE input == InputOf(v, prefilled)
  <2>5. ~IsSkipped(v)
    BY <2>3 DEF PrefilledValue
  <2>6. \A other \in Range(Card) : other.id = v.name => other = input
    BY <2>1, <2>2, ElementByName
  <2>7. /\ input.kind = KindIn(v) /\ input.id = v.name
        /\ input.value = Shown(KindIn(v), x)
    BY DEF InputOf, ValueIn
  <2>8. CASE normalizeVariableType(v) \in UnsupportedRendererTypes \cup {"begin_split", "split"}
    <3>1. ~IsAsked(v)
      BY <2>8 DEF IsAsked, NotInputTypes, StaticTextTypes
    <3>2. KindIn(v) \in {"none", "TextBlock"}
      BY <2>1, <2>4, <3>1, AskedHaveInputs
    <3>3. input \in Range(Card) => KindIn(v) = "TextBlock"
      <4>1. Range(Card) = {InputOf(w, prefilled) : w \in {w \in Range(Flat) : KindIn(w) # "none"}}
        BY <2>1, <2>2, CardElements
      <4>2. \A w : InputOf(w, prefilled).kind = KindIn(w)
        BY DEF InputOf
      <4>3. \A other \in Range(Card) : other.kind # "none"
        BY <4>1, <4>2
      <4> QED
        BY <2>7, <3>2, <4>3
    <3> HIDE DEF x, input
    <3>4. ~Visible(Card, v, x)
      BY <2>6, <2>7, <3>3 DEF Visible
    <3> QED
      BY <2>8, <3>4 DEF LosesPrefill, x
  <2>9. CASE normalizeVariableType(v) \notin UnsupportedRendererTypes \cup {"begin_split", "split"}
    <3>1. IsAsked(v)
      BY <2>5, <2>9 DEF IsSkipped, IsAsked, NotInputTypes
    <3>2. KindIn(v) \notin {"none", "TextBlock"}
      BY <2>1, <2>4, <3>1, AskedHaveInputs
    <3>3. input \in Range(Card)
      <4>1. Range(Card) = {InputOf(w, prefilled) : w \in {w \in Range(Flat) : KindIn(w) # "none"}}
        BY <2>1, <2>2, CardElements
      <4> QED
        BY <3>2, <4>1
    <3>4. Puts(input, v, ChoicesFor(v))
          /\ (KindIn(v) = "DateOfTime" <=> ChoicesFor(v) = <<>> /\ inputType(v) \in DateTimeTypes)
      BY <2>1, <2>4, <3>1, AskedAsCalledFor
    <3>5. Shown(KindIn(v), x) = IF KindIn(v) = "DateOfTime" THEN <<Head(x)>> ELSE x
      BY <2>3, <2>4, ShownPrefill
    <3> HIDE DEF x, input
    <3>6. Visible(Card, v, x) <=>
            /\ input.value = x
            /\ IsList(input) => \E c \in Range(input.choices) : c.value = x
      BY <2>6, <2>7, <3>2, <3>3 DEF Visible
    <3>7. input.value = x <=>
            ~(ChoicesFor(v) = <<>> /\ inputType(v) \in DateTimeTypes /\ x # <<Head(x)>>)
      BY <2>7, <3>4, <3>5
    <3>8. /\ input.choices = ChoicesFor(v)
          /\ IsList(input) <=> ChoicesFor(v) # <<>> \/ inputType(v) \in ChoiceTypes
      BY <3>4 DEF Puts
    <3> QED
      BY <2>9, <3>6, <3>7, <3>8 DEF LosesPrefill, x
  <2> QED
    BY <2>8, <2>9
<1> QED
  BY <1>1, FormInductive, PTL
=============================================================================
