------------------------ MODULE ListUserOrders_proofs ------------------------
(***************************************************************************)
(* Proofs about ListUserOrders for pages and orders of any length and any  *)
(* concurrency.  The first fan-out is known by the invariant and the       *)
(* lemmas of module FanOut_proofs; the inductive invariant adds which      *)
(* phase a request is in while a runner holds it, and an account of what   *)
(* became of every item the second fan-out has begun.                      *)
(***************************************************************************)
EXTENDS ListUserOrders, FunctionTheorems, FiniteSetTheorems, TLAPS

OverP == INSTANCE FanOut_proofs WITH MaxItems <- MaxRequests

\* The first fan-out runs while the requests are enriched, and no runner throws.
PageInv ==
  /\ \A r \in OverRequests!Runners : runner[r] # "threw"
  /\ outcome # "rejected"
  /\ step \in {"idle", "lookup", "list", "none", "failed"} => outcome = "none"
  /\ step = "listed" => outcome = "fulfilled"

\* A request whose items are enriched is held by a runner; one that has a result
\* was enriched, or left bare because its GET failed.
PhaseInv ==
  \A i \in Requests :
    /\ request[i].phase \in {"plain", "bare"} => request[i].m = 0 /\ request[i].next = 0
    /\ request[i].phase = "items" => \E r \in OverRequests!Busy : at[r] = i
    /\ request[i].phase = "enriched" => request[i].doing = {}
    /\ results[i] <=> request[i].phase \in {"bare", "enriched"}
    /\ i \in lostItems <=> request[i].phase = "bare"

\* Item j of request i was begun and is done.
ItemDone(i, j) ==
  j \in request[i].detailed \/ j \in request[i].skipped \/ <<i, j>> \in lostCatalog

\* Every item begun is either under way or settled in exactly one way, no more
\* than Concurrency are under way, and some are as long as any is left.
AccountInv ==
  \A i \in Requests :
    /\ request[i].next <= request[i].m
    /\ request[i].doing \subseteq 0..(request[i].next - 1)
    /\ request[i].next < request[i].m => request[i].doing # {}
    /\ Cardinality(request[i].doing) <= Concurrency
    /\ \A j \in Items :
         /\ ItemDone(i, j) <=> j < request[i].next /\ j \notin request[i].doing
         /\ ~(j \in request[i].detailed /\ <<i, j>> \in lostCatalog)

IInv == TypeOK /\ OverP!IInv /\ PageInv /\ PhaseInv /\ AccountInv

-----------------------------------------------------------------------------
(* The first fan-out, as module FanOut_proofs knows it *)

LEMMA FanOutAssumptions == OverP!MaxItemsAssumption /\ OverP!ConcurrencyAssumption
BY LimitsAssumption, ConcurrencyAssumption
   DEF OverP!MaxItemsAssumption, OverP!ConcurrencyAssumption

\* Initially the first fan-out satisfies its invariant.
LEMMA FanOutInit == OverRequests!Init => OverP!IInv /\ OverRequests!TypeOK
<1>1. OverRequests!Init => OverP!Init
  BY DEF OverRequests!Init, OverP!Init, OverRequests!Runners, OverP!Runners,
         OverRequests!Indices, OverP!Indices
<1>2. OverP!IInv => OverRequests!TypeOK
  BY DEF OverP!IInv, OverP!TypeOK, OverRequests!TypeOK, OverP!Runners,
         OverRequests!Runners, OverP!Indices, OverRequests!Indices
<1> QED
  BY <1>1, <1>2, FanOutAssumptions, OverP!InitInv

\* Every step the listing takes of it keeps its invariant and its types.
LEMMA FanOutStep ==
  ASSUME OverP!IInv,
         \/ \E k \in 0..MaxRequests : OverRequests!Call(k)
         \/ \E r \in OverRequests!Runners : OverRequests!WorkerReturns(r)
         \/ OverRequests!Fulfill
         \/ UNCHANGED fanOut
  PROVE  OverP!IInv' /\ OverRequests!TypeOK'
<1>1. ASSUME NEW k \in 0..MaxRequests, OverRequests!Call(k) PROVE OverP!IInv'
  <2>1. OverP!Call(k)
    BY <1>1 DEF OverRequests!Call, OverP!Call, OverRequests!limit, OverP!limit,
                OverRequests!Runners, OverP!Runners
  <2> QED
    BY <2>1, FanOutAssumptions, OverP!CallStep
<1>2. ASSUME NEW r \in OverRequests!Runners, OverRequests!WorkerReturns(r) PROVE OverP!IInv'
  <2>1. OverP!WorkerReturns(r) /\ r \in OverP!Runners
    BY <1>2 DEF OverRequests!WorkerReturns, OverP!WorkerReturns, OverRequests!TakeNext,
                OverP!TakeNext, OverRequests!Runners, OverP!Runners
  <2> QED
    BY <2>1, FanOutAssumptions, OverP!ReturnStep
<1>3. ASSUME OverRequests!Fulfill PROVE OverP!IInv'
  <2>1. OverP!Fulfill
    BY <1>3 DEF OverRequests!Fulfill, OverP!Fulfill, OverRequests!Busy, OverP!Busy,
                OverRequests!Threw, OverP!Threw, OverRequests!Runners, OverP!Runners
  <2> QED
    BY <2>1, FanOutAssumptions, OverP!SettleStep
<1>4. ASSUME UNCHANGED fanOut PROVE OverP!IInv'
  BY <1>4 DEF fanOut, OverP!IInv, OverP!TypeOK, OverP!IdleInv, OverP!HoldInv,
              OverP!CoverInv, OverP!EndInv, OverP!Holders, OverP!Busy, OverP!Threw
<1>5. OverP!IInv'
  BY <1>1, <1>2, <1>3, <1>4
<1>6. OverP!IInv' => OverRequests!TypeOK'
  BY DEF OverP!IInv, OverP!TypeOK, OverRequests!TypeOK, OverP!Runners,
         OverRequests!Runners, OverP!Indices, OverRequests!Indices
<1> QED
  BY <1>5, <1>6

\* What the listing needs of it: two runners never hold the same request, there are
\* no more than Concurrency of them, and a fulfilled page has every result.
LEMMA FanOutFacts ==
  ASSUME OverP!IInv
  PROVE  /\ \A r \in OverRequests!Busy : at[r] \in Requests /\ at[r] < n
         /\ \A r, s \in OverRequests!Busy : at[r] = at[s] => r = s
         /\ \A r \in OverRequests!Busy : r < Concurrency /\ outcome # "none"
         /\ outcome = "fulfilled" =>
              OverRequests!Busy = {} /\ \A i \in 0..(n - 1) : results[i]
<1> USE DEF OverP!IInv, OverP!TypeOK, OverP!Holders, OverP!Busy, OverP!Runners, OverP!Indices,
            OverRequests!Busy, OverRequests!Runners, Requests
<1>1. \A r \in OverRequests!Busy : at[r] \in Requests /\ at[r] < n
  BY DEF OverP!HoldInv
<1>2. \A r, s \in OverRequests!Busy : at[r] = at[s] => r = s
  BY DEF OverP!HoldInv
<1>3. ASSUME NEW r \in OverRequests!Busy PROVE r < Concurrency /\ outcome # "none"
  <2>1. outcome # "none" /\ r \in OverP!Runners /\ r < OverP!limit(n)
    BY DEF OverP!IdleInv
  <2> QED
    BY <2>1, ConcurrencyAssumption DEF OverP!limit
<1>4. ASSUME outcome = "fulfilled"
      PROVE  OverRequests!Busy = {} /\ \A i \in 0..(n - 1) : results[i]
  <2>1. nextIndex \in Nat /\ n \in 0..MaxRequests /\ nextIndex >= n /\ OverP!Holders = {}
    BY <1>4 DEF OverP!EndInv
  <2>2. \A i \in 0..(n - 1) : i < nextIndex
    BY <2>1, LimitsAssumption
  <2> QED
    BY <2>1, <2>2 DEF OverP!CoverInv
<1> QED
  BY <1>1, <1>2, <1>3, <1>4

\* A runner whose worker returned gives up its request, and no other runner notices.
LEMMA ReturnFacts ==
  ASSUME IInv, NEW r \in OverRequests!Busy, OverRequests!WorkerReturns(r)
  PROVE  /\ OverP!IInv' /\ OverRequests!TypeOK'
         /\ at[r] \in Requests
         /\ outcome' = outcome /\ outcome # "none" /\ n' = n
         /\ \A i \in Requests : results'[i] <=> (results[i] \/ i = at[r])
         /\ \A s \in OverRequests!Busy \ {r} : s \in OverRequests!Busy' /\ at'[s] = at[s]
         /\ \A s \in OverRequests!Runners : runner'[s] # "threw"
<1>1. r \in OverRequests!Runners
  BY DEF OverRequests!Busy
<1>2. OverP!IInv' /\ OverRequests!TypeOK'
  BY <1>1, FanOutStep DEF IInv
<1>3. at[r] \in Requests /\ outcome # "none"
  BY FanOutFacts DEF IInv
<1>4. /\ outcome' = outcome /\ n' = n
      /\ results' = [results EXCEPT ![at[r]] = TRUE]
      /\ \/ at' = [at EXCEPT ![r] = nextIndex] /\ runner' = runner
         \/ at' = at /\ runner' = [runner EXCEPT ![r] = "returned"]
  BY DEF OverRequests!WorkerReturns, OverRequests!TakeNext
<1>5. /\ results \in [Requests -> BOOLEAN]
      /\ at \in [OverRequests!Runners -> Requests]
      /\ runner \in [OverRequests!Runners -> {"none", "busy", "returned", "threw"}]
  BY DEF IInv, TypeOK, OverRequests!TypeOK, OverRequests!Indices, Requests
<1>6. \A i \in Requests : results'[i] <=> (results[i] \/ i = at[r])
  BY <1>3, <1>4, <1>5
<1>7. \A s \in OverRequests!Busy \ {r} : s \in OverRequests!Busy' /\ at'[s] = at[s]
  BY <1>4, <1>5 DEF OverRequests!Busy
<1>8. \A s \in OverRequests!Runners : runner'[s] # "threw"
  BY <1>4, <1>5 DEF IInv, PageInv
<1> QED
  BY <1>2, <1>3, <1>4, <1>6, <1>7, <1>8

-----------------------------------------------------------------------------
(* The listing *)

LEMMA InitInv == Init => IInv
<1> SUFFICES ASSUME Init PROVE IInv
  OBVIOUS
<1> USE DEF Init
<1>1. OverP!IInv /\ OverRequests!TypeOK
  BY FanOutInit
<1>2. \A i \in Requests : request[i] = Plain /\ ~results[i]
  BY DEF OverRequests!Init, OverRequests!Indices, Requests
<1>3. TypeOK
  <2>1. Plain \in [phase : {"plain", "items", "enriched", "bare"},
                   m : 0..MaxItems, next : 0..MaxItems,
                   doing : SUBSET Items, skipped : SUBSET Items, detailed : SUBSET Items]
    BY LimitsAssumption DEF Plain
  <2> QED
    BY <1>1, <2>1 DEF TypeOK
<1>4. PageInv
  BY DEF PageInv, OverRequests!Init
<1>5. PhaseInv
  BY <1>2 DEF PhaseInv, Plain
<1>6. AccountInv
  <2>1. Cardinality({}) <= Concurrency
    BY FS_EmptySet, ConcurrencyAssumption
  <2> QED
    BY <1>2, <2>1 DEF AccountInv, ItemDone, Plain, Items
<1> QED
  BY <1>1, <1>3, <1>4, <1>5, <1>6 DEF IInv

\* Until the page arrives, and when the listing returns, no request changes.
LEMMA PageStep ==
  ASSUME IInv,
         \/ \E lookups \in BOOLEAN : Begin(lookups)
         \/ LookedUp \/ ListFails \/ Return
         \/ \E k \in 0..MaxRequests : Listed(k)
  PROVE  IInv'
<1>1. /\ UNCHANGED <<known, request, lostItems, lostCatalog>>
      /\ lookup' \in {"none", "matched", "unmatched", "failed"}
  BY DEF Begin, LookedUp, ListFails, Return, Listed, IInv, TypeOK
<1>2. ~OverRequests!Reject
  BY DEF OverRequests!Reject, OverRequests!Threw, IInv, PageInv
<1>3. \/ UNCHANGED fanOut \/ OverRequests!Fulfill
      \/ \E k \in 0..MaxRequests : OverRequests!Call(k)
  BY <1>2 DEF Begin, LookedUp, ListFails, Return, Listed
<1>4. OverP!IInv' /\ OverRequests!TypeOK'
  BY <1>3, FanOutStep DEF IInv
<1>5. PageInv'
  <2>1. CASE Return
    <3>1. /\ step' = (IF outcome' = "fulfilled" THEN "listed" ELSE "failed")
          /\ UNCHANGED runner
          /\ outcome' = "fulfilled"
      BY <2>1, <1>2 DEF Return, OverRequests!Fulfill, fanOut, IInv, PageInv
    <3> QED
      BY <3>1 DEF IInv, PageInv
  <2>2. ASSUME NEW k \in 0..MaxRequests, Listed(k) PROVE PageInv'
    <3>1. step' = "enrich" /\ outcome' \in {"fulfilled", "pending"}
          /\ runner' = [r \in OverRequests!Runners |->
                          IF r < OverRequests!limit(k) THEN "busy" ELSE "none"]
      BY <2>2 DEF Listed, OverRequests!Call
    <3> QED
      BY <3>1 DEF PageInv
  <2>3. ASSUME NEW lookups \in BOOLEAN, Begin(lookups) \/ LookedUp \/ ListFails PROVE PageInv'
    BY <2>3 DEF Begin, LookedUp, ListFails, fanOut, IInv, PageInv
  <2> QED
    BY <2>1, <2>2, <2>3
<1>6. PhaseInv'
  <2>1. results' = results
    BY <1>3 DEF fanOut, OverRequests!Fulfill, OverRequests!Call
  <2>2. \A r \in OverRequests!Busy : r \in OverRequests!Busy' /\ at'[r] = at[r]
    <3>1. ASSUME NEW k \in 0..MaxRequests, OverRequests!Call(k) PROVE OverRequests!Busy = {}
      BY <3>1, FanOutFacts DEF IInv, OverRequests!Call
    <3> QED
      BY <1>3, <3>1 DEF fanOut, OverRequests!Fulfill, OverRequests!Busy
  <2> QED
    BY <1>1, <2>1, <2>2 DEF IInv, PhaseInv
<1>7. TypeOK' /\ AccountInv'
  <2>1. step' \in {"idle", "lookup", "list", "enrich", "listed", "none", "failed"}
    BY DEF Begin, LookedUp, ListFails, Return, Listed
  <2> QED
    BY <1>1, <1>4, <2>1 DEF IInv, TypeOK, AccountInv, ItemDone
<1> QED
  BY <1>4, <1>5, <1>6, <1>7 DEF IInv

\* The worker of the first fan-out returns: the request is bare or enriched.
LEMMA LeaveStep ==
  ASSUME IInv, NEW r \in OverRequests!Runners, ItemsFail(r) \/ ItemsEnriched(r)
  PROVE  IInv'
<1> DEFINE i == at[r]
           p == IF request[i].phase = "plain" THEN "bare" ELSE "enriched"
<1>1. /\ r \in OverRequests!Busy /\ OverRequests!WorkerReturns(r)
      /\ request[i].phase = "plain" \/ (request[i].phase = "items" /\ request[i].doing = {})
      /\ request' = [request EXCEPT ![i].phase = p]
      /\ lostItems' = IF p = "bare" THEN lostItems \cup {i} ELSE lostItems
      /\ UNCHANGED <<step, known, lookup, lostCatalog>>
  BY DEF ItemsFail, ItemsEnriched, AwaitsItems, AwaitsCatalog
<1>2. /\ OverP!IInv' /\ OverRequests!TypeOK'
      /\ i \in Requests
      /\ outcome' = outcome /\ outcome # "none" /\ n' = n
      /\ \A k \in Requests : results'[k] <=> (results[k] \/ k = i)
      /\ \A s \in OverRequests!Busy \ {r} : s \in OverRequests!Busy' /\ at'[s] = at[s]
      /\ \A s \in OverRequests!Runners : runner'[s] # "threw"
  BY <1>1, ReturnFacts
<1>3. /\ request \in [Requests -> [phase : {"plain", "items", "enriched", "bare"},
                                   m : 0..MaxItems, next : 0..MaxItems,
                                   doing : SUBSET Items, skipped : SUBSET Items,
                                   detailed : SUBSET Items]]
      /\ request[i] \in [phase : {"plain", "items", "enriched", "bare"},
                         m : 0..MaxItems, next : 0..MaxItems,
                         doing : SUBSET Items, skipped : SUBSET Items,
                         detailed : SUBSET Items]
  BY <1>2 DEF IInv, TypeOK
<1>4. request'[i] = [request[i] EXCEPT !.phase = p]
      /\ \A k \in Requests \ {i} : request'[k] = request[k]
  BY <1>1, <1>2, <1>3
<1>5. /\ request'[i].phase = p /\ request'[i].m = request[i].m
      /\ request'[i].next = request[i].next /\ request'[i].doing = request[i].doing
      /\ request'[i].skipped = request[i].skipped
      /\ request'[i].detailed = request[i].detailed
  BY <1>3, <1>4
<1>6. TypeOK'
  BY <1>1, <1>2, <1>3 DEF IInv, TypeOK
<1>7. PageInv'
  BY <1>1, <1>2 DEF IInv, PageInv
<1>8. PhaseInv'
  <2>1. request'[i].phase \in {"plain", "bare"} => request'[i].m = 0 /\ request'[i].next = 0
    BY <1>1, <1>2, <1>5 DEF IInv, PhaseInv
  <2>2. request'[i].phase = "enriched" => request'[i].doing = {}
    BY <1>1, <1>5
  <2>3. \A k \in Requests \ {i} :
          request[k].phase = "items" => \E s \in OverRequests!Busy' : at'[s] = k
    BY <1>2 DEF IInv, PhaseInv
  <2> QED
    BY <1>1, <1>2, <1>4, <1>5, <2>1, <2>2, <2>3 DEF IInv, PhaseInv
<1>9. AccountInv'
  BY <1>1, <1>2, <1>4, <1>5 DEF IInv, AccountInv, ItemDone
<1> QED
  BY <1>2, <1>6, <1>7, <1>8, <1>9 DEF IInv

\* The second fan-out begins: as many items as there are runners for are under way.
LEMMA ArriveStep ==
  ASSUME IInv, NEW r \in OverRequests!Runners, NEW m \in Sizes, ItemsArrive(r, m)
  PROVE  IInv'
<1> DEFINE l == OverRequests!limit(m)
<1> r \in OverRequests!Busy
  BY DEF ItemsArrive, AwaitsItems
<1> PICK i \in Requests : i = at[r]
  BY FanOutFacts DEF IInv
<1>1. /\ r \in OverRequests!Busy /\ request[i].phase = "plain"
      /\ request' = [request EXCEPT ![i] =
           [phase |-> "items", m |-> m, next |-> l, doing |-> 0..(l - 1),
            skipped |-> {}, detailed |-> {}]]
      /\ UNCHANGED <<step, known, lookup, fanOut, lostItems, lostCatalog>>
  BY DEF ItemsArrive, AwaitsItems, StartItems
<1>3. m \in 0..MaxItems /\ l \in 0..m /\ l <= Concurrency /\ (l < m => l > 0)
  BY LimitsAssumption, ConcurrencyAssumption DEF OverRequests!limit
<1>4. /\ request'[i].phase = "items" /\ request'[i].m = m /\ request'[i].next = l
      /\ request'[i].doing = 0..(l - 1)
      /\ request'[i].skipped = {} /\ request'[i].detailed = {}
      /\ \A k \in Requests \ {i} : request'[k] = request[k]
  BY <1>1 DEF IInv, TypeOK, Plain
<1>5. OverP!IInv' /\ OverRequests!TypeOK'
  BY <1>1, FanOutStep DEF IInv
<1>6. TypeOK'
  <2>1. [phase |-> "items", m |-> m, next |-> l, doing |-> 0..(l - 1),
         skipped |-> {}, detailed |-> {}]
          \in [phase : {"plain", "items", "enriched", "bare"},
               m : 0..MaxItems, next : 0..MaxItems,
               doing : SUBSET Items, skipped : SUBSET Items, detailed : SUBSET Items]
    <3>1. 0..(l - 1) \subseteq Items /\ l \in 0..MaxItems
      BY <1>3, LimitsAssumption DEF Items
    <3> QED
      BY <1>3, <3>1
  <2> QED
    BY <1>1, <1>5, <2>1 DEF IInv, TypeOK
<1>7. PageInv' /\ PhaseInv'
  BY <1>1, <1>4 DEF IInv, PageInv, PhaseInv, fanOut, OverRequests!Busy
<1>8. AccountInv'
  <2>1. \A j \in Items : ~ItemDone(i, j)
    <3>1. request[i].next = 0
      BY <1>1 DEF IInv, PhaseInv
    <3>2. \A j \in Items : ItemDone(i, j) => j < request[i].next
      BY DEF IInv, AccountInv
    <3> QED
      BY <3>1, <3>2, LimitsAssumption DEF Items
  <2>2. \A j \in Items : ~ItemDone(i, j)'
    BY <1>1, <1>4, <2>1 DEF ItemDone
  <2>3. Cardinality(0..(l - 1)) <= Concurrency
    <3> HIDE DEF l
    <3>1. l \in Nat /\ l <= Concurrency /\ 0 \in Int /\ l - 1 \in Int
      BY <1>3, LimitsAssumption
    <3>2. Cardinality(0..(l - 1)) = IF 0 > l - 1 THEN 0 ELSE l - 1 - 0 + 1
      BY <3>1, FS_Interval
    <3> QED
      BY <3>1, <3>2
  <2>4. \A j \in Items : j < l => j \in 0..(l - 1)
    BY <1>3, LimitsAssumption DEF Items
  <2> QED
    BY <1>1, <1>3, <1>4, <2>2, <2>3, <2>4 DEF IInv, AccountInv, ItemDone
<1> QED
  BY <1>5, <1>6, <1>7, <1>8 DEF IInv

\* What the end of the work on item j of request i changes: it is settled, and the
\* next item, if there is one, takes its place.
ItemEnds(i, j) ==
  /\ i \in Requests /\ request[i].phase = "items"
  /\ j \in request[i].doing /\ j \in Items
  /\ \A k \in Requests \ {i} : request'[k] = request[k]
  /\ request'[i].phase = request[i].phase /\ request'[i].m = request[i].m
  /\ request'[i].next = IF request[i].next < request[i].m
                          THEN request[i].next + 1 ELSE request[i].next
  /\ request'[i].doing = (request[i].doing \ {j}) \cup
                         (IF request[i].next < request[i].m THEN {request[i].next} ELSE {})
  /\ \A k \in Requests, l \in Items :
       /\ ItemDone(k, l)' <=> ItemDone(k, l) \/ (k = i /\ l = j)
       /\ (l \in request[k].detailed /\ <<k, l>> \in lostCatalog)' =>
            (l \in request[k].detailed /\ <<k, l>> \in lostCatalog)
  /\ UNCHANGED <<step, known, lookup, fanOut, lostItems>>

\* The three ways work on an item ends are such ends.
LEMMA EndFacts ==
  ASSUME IInv, NEW r \in OverRequests!Runners, NEW j \in Items,
         CatalogArrives(r, j) \/ CatalogFails(r, j) \/ SkipItem(r, j)
  PROVE  /\ \E i \in Requests : ItemEnds(i, j)
         /\ TypeOK'
<1>1. r \in OverRequests!Busy
  BY DEF CatalogArrives, CatalogFails, SkipItem, AwaitsCatalog
<1>2. PICK i \in Requests : i = at[r]
  BY <1>1, FanOutFacts DEF IInv
<1> DEFINE q == request[i]
           more == q.next < q.m
           left == (q.doing \ {j}) \cup (IF more THEN {q.next} ELSE {})
           nxt == IF more THEN q.next + 1 ELSE q.next
<1>3. PICK details \in {{}, {j}}, skips \in {{}, {j}} :
        /\ request' = [request EXCEPT ![i] =
             [q EXCEPT !.doing = left, !.next = nxt, !.detailed = q.detailed \cup details,
                       !.skipped = q.skipped \cup skips]]
        /\ lostCatalog' =
             IF details = {} /\ skips = {} THEN lostCatalog \cup {<<i, j>>} ELSE lostCatalog
        /\ details = {} \/ skips = {}
  <2>1. CASE CatalogArrives(r, j)
    BY <2>1, <1>2 DEF CatalogArrives, EndItem
  <2>2. CASE CatalogFails(r, j)
    BY <2>2, <1>2 DEF CatalogFails, EndItem
  <2>3. CASE SkipItem(r, j)
    BY <2>3, <1>2 DEF SkipItem, EndItem
  <2> QED
    BY <2>1, <2>2, <2>3
<1>4. /\ q.phase = "items" /\ j \in q.doing
      /\ UNCHANGED <<step, known, lookup, fanOut, lostItems>>
  BY <1>2 DEF CatalogArrives, CatalogFails, SkipItem, AwaitsCatalog
<1>5. q \in [phase : {"plain", "items", "enriched", "bare"},
             m : 0..MaxItems, next : 0..MaxItems,
             doing : SUBSET Items, skipped : SUBSET Items, detailed : SUBSET Items]
  BY DEF IInv, TypeOK
<1>6. q.next <= q.m
  BY DEF IInv, AccountInv
<1>7. left \subseteq Items /\ nxt \in 0..MaxItems
  BY <1>5, <1>6, LimitsAssumption DEF Items
<1>8. /\ request'[i].phase = q.phase /\ request'[i].m = q.m
      /\ request'[i].next = nxt /\ request'[i].doing = left
      /\ request'[i].detailed = q.detailed \cup details
      /\ request'[i].skipped = q.skipped \cup skips
      /\ \A k \in Requests \ {i} : request'[k] = request[k]
  BY <1>3, <1>5 DEF IInv, TypeOK
<1>9. TypeOK'
  <2>1. OverRequests!TypeOK'
    BY <1>4, FanOutStep DEF IInv
  <2>2. [q EXCEPT !.doing = left, !.next = nxt, !.detailed = q.detailed \cup details,
                  !.skipped = q.skipped \cup skips]
          \in [phase : {"plain", "items", "enriched", "bare"},
               m : 0..MaxItems, next : 0..MaxItems,
               doing : SUBSET Items, skipped : SUBSET Items, detailed : SUBSET Items]
    <3> HIDE DEF left, nxt, q
    <3> QED
      BY <1>5, <1>7
  <2> QED
    BY <1>3, <1>4, <2>1, <2>2 DEF IInv, TypeOK
<1>10. ~ItemDone(i, j)
  BY <1>4 DEF IInv, AccountInv
<1>11. \A k \in Requests, l \in Items :
         /\ ItemDone(k, l)' <=> ItemDone(k, l) \/ (k = i /\ l = j)
         /\ (l \in request[k].detailed /\ <<k, l>> \in lostCatalog)' =>
              (l \in request[k].detailed /\ <<k, l>> \in lostCatalog)
  BY <1>3, <1>8, <1>10 DEF ItemDone
<1> QED
  BY <1>4, <1>8, <1>9, <1>11 DEF ItemEnds

\* Work on an item ends: no more items are under way than before.
LEMMA EndStep ==
  ASSUME IInv, NEW r \in OverRequests!Runners, NEW j \in Items,
         CatalogArrives(r, j) \/ CatalogFails(r, j) \/ SkipItem(r, j)
  PROVE  IInv'
<1>1. PICK i \in Requests : ItemEnds(i, j)
  BY EndFacts
<1>2. TypeOK'
  BY EndFacts
<1>3. OverP!IInv'
  BY <1>1, FanOutStep DEF IInv, ItemEnds
<1>4. PageInv' /\ PhaseInv'
  BY <1>1 DEF ItemEnds, IInv, PageInv, PhaseInv, fanOut, OverRequests!Busy
<1>5. AccountInv'
  <2> DEFINE m == request[i].m
             next == request[i].next
             doing == request[i].doing
  <2>1. /\ m \in Nat /\ next \in Nat
        /\ j \in doing
    BY <1>1 DEF IInv, TypeOK, ItemEnds
  <2>2. /\ next <= m /\ doing \subseteq 0..(next - 1)
        /\ Cardinality(doing) <= Concurrency
        /\ \A l \in Items : ItemDone(i, l) <=> l < next /\ l \notin doing
    BY DEF IInv, AccountInv
  <2>3. /\ request'[i].m = m
        /\ \/ /\ next < m /\ request'[i].next = next + 1
              /\ request'[i].doing = (doing \ {j}) \cup {next}
           \/ /\ ~(next < m) /\ request'[i].next = next
              /\ request'[i].doing = doing \ {j}
    BY <1>1 DEF ItemEnds
  <2>4. \A k \in Requests, l \in Items :
          /\ ItemDone(k, l)' <=> ItemDone(k, l) \/ (k = i /\ l = j)
          /\ (l \in request[k].detailed /\ <<k, l>> \in lostCatalog)' =>
               (l \in request[k].detailed /\ <<k, l>> \in lostCatalog)
    BY <1>1 DEF ItemEnds
  <2>5. \A k \in Requests \ {i} : request'[k] = request[k]
    BY <1>1 DEF ItemEnds
  <2> HIDE DEF m, next, doing
  <2>6. Cardinality(request'[i].doing) <= Concurrency
    <3>1. IsFiniteSet(doing)
      <4>1. IsFiniteSet(0..(next - 1))
        BY <2>1, FS_Interval
      <4> QED
        BY <2>2, <4>1, FS_Subset
    <3>2. IsFiniteSet(doing \ {j}) /\ Cardinality(doing \ {j}) = Cardinality(doing) - 1
          /\ Cardinality(doing) \in Nat
      BY <2>1, <3>1, FS_RemoveElement, FS_CardinalityType
    <3> DEFINE rest == doing \ {j}
               after == request'[i].doing
    <3>3. /\ IsFiniteSet(rest) /\ Cardinality(rest) = Cardinality(doing) - 1
          /\ \/ next < m /\ after = rest \cup {next}
             \/ ~(next < m) /\ after = rest
      BY <2>3, <3>2
    <3> HIDE DEF rest, after
    <3>4. Cardinality(rest \cup {next})
            = IF next \in rest THEN Cardinality(rest) ELSE Cardinality(rest) + 1
      BY <3>3, FS_AddElement
    <3>5. Cardinality(rest) \in Nat
      BY <3>3, FS_CardinalityType
    <3>6. after = rest => Cardinality(after) = Cardinality(rest)
      OBVIOUS
    <3>7. after = rest \cup {next} => Cardinality(after) = Cardinality(rest \cup {next})
      OBVIOUS
    <3>8. Cardinality(after) \in Nat /\ Cardinality(after) <= Cardinality(doing)
      BY <3>2, <3>3, <3>4, <3>5, <3>6, <3>7
    <3>9. Cardinality(after) <= Concurrency
      BY <2>2, <3>2, <3>8, ConcurrencyAssumption
    <3> QED
      BY <3>9 DEF after
  <2>7. /\ request'[i].next <= request'[i].m
        /\ request'[i].doing \subseteq 0..(request'[i].next - 1)
        /\ request'[i].next < request'[i].m => request'[i].doing # {}
    <3>1. CASE next < m
      <4>1. (doing \ {j}) \cup {next} \subseteq 0..next
        BY <2>1, <2>2
      <4> QED
        BY <2>1, <2>3, <3>1, <4>1
    <3>2. CASE ~(next < m)
      BY <2>1, <2>2, <2>3, <3>2
    <3> QED
      BY <3>1, <3>2
  <2>8. ASSUME NEW l \in Items
        PROVE  ItemDone(i, l)' <=> l < request'[i].next /\ l \notin request'[i].doing
    <3>1. ItemDone(i, l)' <=> (l < next /\ l \notin doing) \/ l = j
      BY <2>2, <2>4
    <3>2. j < next /\ l \in Nat /\ next \notin doing
      BY <2>1, <2>2, LimitsAssumption DEF Items
    <3>3. CASE next < m
      BY <2>1, <2>3, <3>1, <3>2, <3>3
    <3>4. CASE ~(next < m)
      BY <2>1, <2>3, <3>1, <3>2, <3>4
    <3> QED
      BY <3>3, <3>4
  <2> QED
    BY <2>4, <2>5, <2>6, <2>7, <2>8 DEF IInv, AccountInv
<1> QED
  BY <1>2, <1>3, <1>4, <1>5 DEF IInv

\* The account of requests and items is an invariant of every listing.
THEOREM Inductive == Spec => []IInv
<1>1. IInv /\ [Next]_vars => IInv'
  <2> SUFFICES ASSUME IInv, [Next]_vars PROVE IInv'
    OBVIOUS
  <2>1. CASE UNCHANGED vars
    <3>1. OverP!IInv' /\ OverRequests!TypeOK'
      BY <2>1, FanOutStep DEF vars, IInv
    <3>2. /\ UNCHANGED <<step, known, lookup, request, lostItems, lostCatalog>>
          /\ UNCHANGED <<outcome, runner, at, results>>
      BY <2>1 DEF vars, fanOut
    <3> QED
      BY <3>1, <3>2
         DEF IInv, TypeOK, PageInv, PhaseInv, AccountInv, ItemDone, OverRequests!Busy
  <2>2. ASSUME NEW r \in OverRequests!Runners,
               \/ \E m \in Sizes : ItemsArrive(r, m)
               \/ ItemsFail(r) \/ ItemsEnriched(r)
               \/ \E j \in Items : CatalogArrives(r, j) \/ CatalogFails(r, j) \/ SkipItem(r, j)
        PROVE  IInv'
    BY <2>2, ArriveStep, LeaveStep, EndStep
  <2> QED
    BY <2>1, <2>2, PageStep DEF Next, Listing, Finished
<1> QED
  BY <1>1, InitInv, PTL DEF Spec

THEOREM TypeCorrect == Spec => []TypeOK
<1>1. IInv => TypeOK
  BY DEF IInv
<1> QED
  BY <1>1, Inductive, PTL

\* Since the workers catch what goes wrong, an answered listing has nothing under
\* way, for any page.
THEOREM NothingLeft == Spec => []NothingIsLeftBehind
<1>1. IInv => NothingIsLeftBehind
  <2> SUFFICES ASSUME IInv, step \in {"listed", "none", "failed"}
               PROVE  ItemsCalls = {} /\ CatalogCalls = {}
    BY DEF NothingIsLeftBehind
  <2>1. OverRequests!Busy = {}
    BY FanOutFacts DEF IInv, PageInv
  <2>2. \A i \in Requests : request[i].doing = {}
    BY <2>1 DEF IInv, TypeOK, PhaseInv, AccountInv
  <2> QED
    BY <2>1, <2>2 DEF ItemsCalls, CatalogCalls, AwaitsItems
<1> QED
  BY <1>1, Inductive, PTL

\* A failed call costs a listing what the call was for, and nothing else.
THEOREM FailuresStayLocal == Spec => []DegradationIsLocal
<1>1. IInv => DegradationIsLocal
  <2> SUFFICES ASSUME IInv PROVE DegradationIsLocal
    OBVIOUS
  <2>1. step = "failed" => outcome = "none"
    BY DEF IInv, PageInv
  <2>2. ASSUME step = "listed", NEW i \in 0..(n - 1)
        PROVE  /\ request[i].phase = (IF i \in lostItems THEN "bare" ELSE "enriched")
               /\ \A j \in 0..(request[i].m - 1) \ request[i].skipped :
                    j \in request[i].detailed <=> <<i, j>> \notin lostCatalog
    <3>1. i \in Requests
      BY LimitsAssumption DEF IInv, TypeOK, OverRequests!TypeOK, Requests
    <3>2. results[i]
      BY <2>2, FanOutFacts DEF IInv, PageInv
    <3>3. request[i].phase = (IF i \in lostItems THEN "bare" ELSE "enriched")
      BY <3>1, <3>2 DEF IInv, PhaseInv
    <3>4. ASSUME NEW j \in 0..(request[i].m - 1), j \notin request[i].skipped
          PROVE  j \in request[i].detailed <=> <<i, j>> \notin lostCatalog
      <4>1. request[i].m \in 0..MaxItems /\ request[i].next \in 0..MaxItems
        BY <3>1 DEF IInv, TypeOK
      <4>2. j \in Items
        BY <4>1, LimitsAssumption DEF Items
      <4>3. request[i].doing = {}
        <5>1. CASE request[i].phase = "enriched"
          BY <3>1, <5>1 DEF IInv, PhaseInv
        <5>2. CASE request[i].phase = "bare"
          <6>1. request[i].next = 0 /\ request[i].doing \subseteq 0..(request[i].next - 1)
            BY <3>1, <5>2 DEF IInv, PhaseInv, AccountInv
          <6> QED
            BY <6>1
        <5> QED
          BY <3>3, <5>1, <5>2
      <4>4. ~(request[i].next < request[i].m)
        BY <3>1, <4>3 DEF IInv, AccountInv
      <4>5. ItemDone(i, j)
        <5>1. j < request[i].next
          BY <4>1, <4>4
        <5>2. ItemDone(i, j) <=> j < request[i].next /\ j \notin request[i].doing
          BY <3>1, <4>2 DEF IInv, AccountInv
        <5> QED
          BY <4>3, <5>1, <5>2
      <4> QED
        BY <3>1, <3>4, <4>2, <4>5 DEF IInv, AccountInv, ItemDone
    <3> QED
      BY <3>3, <3>4
  <2> QED
    BY <2>1, <2>2 DEF DegradationIsLocal
<1> QED
  BY <1>1, Inductive, PTL

-----------------------------------------------------------------------------
(* The bound of the calls *)

\* The members of a set of at most c elements can be put into c slots.
LEMMA Slots ==
  ASSUME NEW S, IsFiniteSet(S), NEW c \in Nat, Cardinality(S) <= c
  PROVE  \E f \in [S -> 1..c] : \A x, y \in S : f[x] = f[y] => x = y
<1>1. Cardinality(S) \in Nat /\ ExistsBijection(1..Cardinality(S), S)
  BY FS_CardinalityType
<1>2. ExistsBijection(S, 1..Cardinality(S))
  BY <1>1, Fun_ExistsBijSymmetric
<1>3. PICK f : f \in Bijection(S, 1..Cardinality(S))
  BY <1>2 DEF ExistsBijection
<1>4. f \in [S -> 1..Cardinality(S)] /\ \A x, y \in S : f[x] = f[y] => x = y
  BY <1>3 DEF Bijection, Injection, IsInjective
<1>5. f \in [S -> 1..c]
  BY <1>1, <1>4
<1> QED
  BY <1>4, <1>5

\* So many runners with one call each, and so many others with up to c.
LEMMA Square ==
  ASSUME NEW a \in Nat, NEW b \in Nat, NEW c \in Nat, a + b <= c
  PROVE  a + b * c <= c * c
<1>1. CASE a = 0
  <2>1. b * c <= c * c
    BY <1>1, SMT
  <2> QED
    BY <1>1, <2>1
<1>2. CASE a > 0
  <2>1. PICK d \in Nat : c = a + b + d
    <3>1. c - a - b \in Nat /\ c = a + b + (c - a - b)
      BY SMT
    <3> QED
      BY <3>1
  <2>2. c * c = a * c + b * c + d * c
    BY <2>1, SMT
  <2>3. a * c >= a /\ d * c >= 0
    BY <1>2, <2>1, SMT
  <2>4. a * c \in Nat /\ b * c \in Nat /\ d * c \in Nat /\ c * c \in Nat
    BY SMT
  <2> QED
    BY <2>2, <2>3, <2>4, SMT
<1> QED
  BY <1>1, <1>2, SMT

\* A runner has one call of its own under way, or those of its second fan-out, of
\* which there are no more than Concurrency.
THEOREM CallsBounded == Spec => []CallsAreBounded
<1>1. IInv => CallsAreBounded
  <2> SUFFICES ASSUME IInv PROVE CallsAreBounded
    OBVIOUS
  <2> DEFINE Outer == ItemsCalls
             Inner == {r \in OverRequests!Runners : AwaitsCatalog(r)}
  <2>1. /\ Outer \cup Inner \subseteq 0..(Concurrency - 1)
        /\ Outer \cap Inner = {}
    <3>1. \A r \in OverRequests!Busy : r \in OverRequests!Runners /\ r < Concurrency
      BY FanOutFacts DEF IInv, OverRequests!Busy
    <3> QED
      BY <3>1, LimitsAssumption, ConcurrencyAssumption
         DEF ItemsCalls, AwaitsItems, AwaitsCatalog, OverRequests!Runners
  <2>2. /\ IsFiniteSet(0..(Concurrency - 1)) /\ Cardinality(0..(Concurrency - 1)) = Concurrency
    BY ConcurrencyAssumption, FS_Interval
  <2>3. /\ IsFiniteSet(Outer) /\ IsFiniteSet(Inner)
        /\ Cardinality(Outer) \in Nat /\ Cardinality(Inner) \in Nat
    BY <2>1, <2>2, FS_Subset, FS_CardinalityType
  <2>4. Cardinality(Outer) + Cardinality(Inner) <= Concurrency
    <3>1. Cardinality(Outer \cup Inner)
            = Cardinality(Outer) + Cardinality(Inner) - Cardinality(Outer \cap Inner)
      BY <2>3, FS_Union
    <3>2. Cardinality(Outer \cap Inner) = 0
      BY <2>1, FS_EmptySet
    <3>3. Cardinality(Outer \cup Inner) <= Concurrency
      BY <2>1, <2>2, FS_Subset
    <3> QED
      BY <2>3, <3>1, <3>2, <3>3
  <2>5. Cardinality(CatalogCalls) \in Nat
        /\ Cardinality(CatalogCalls) <= Cardinality(Inner) * Concurrency
    <3> DEFINE Holder(i) == CHOOSE r \in Inner : at[r] = i
               Slot(i) == CHOOSE f \in [request[i].doing -> 1..Concurrency] :
                            \A x, y \in request[i].doing : f[x] = f[y] => x = y
               slot(c) == Slot(c[1])[c[2]]
               place == [c \in CatalogCalls |-> <<Holder(c[1]), slot(c)>>]
    <3>1. ASSUME NEW c \in CatalogCalls
          PROVE  /\ c[1] \in Requests /\ c[2] \in request[c[1]].doing /\ c = <<c[1], c[2]>>
                 /\ Holder(c[1]) \in Inner /\ at[Holder(c[1])] = c[1]
                 /\ Slot(c[1]) \in [request[c[1]].doing -> 1..Concurrency]
                 /\ \A x, y \in request[c[1]].doing : Slot(c[1])[x] = Slot(c[1])[y] => x = y
      <4>1. c[1] \in Requests /\ c[2] \in request[c[1]].doing /\ c = <<c[1], c[2]>>
        BY DEF CatalogCalls
      <4>2. PICK i \in Requests : i = c[1]
        BY <4>1
      <4>3. request[i].phase = "items"
        <5>1. /\ request[i].phase \in {"plain", "items", "enriched", "bare"}
              /\ request[i].doing \subseteq 0..(request[i].next - 1)
          BY DEF IInv, TypeOK, AccountInv
        <5>2. request[i].next # 0
          BY <4>1, <4>2, <5>1
        <5> QED
          BY <4>1, <4>2, <5>1, <5>2 DEF IInv, PhaseInv
      <4>4. \E r \in Inner : at[r] = i
        BY <4>3 DEF IInv, PhaseInv, AwaitsCatalog, OverRequests!Busy
      <4>5. \E f \in [request[i].doing -> 1..Concurrency] :
              \A x, y \in request[i].doing : f[x] = f[y] => x = y
        <5>1. IsFiniteSet(request[i].doing)
          <6>1. request[i].doing \subseteq 0..(request[i].next - 1) /\ request[i].next \in Nat
            BY DEF IInv, TypeOK, AccountInv
          <6>2. IsFiniteSet(0..(request[i].next - 1))
            BY <6>1, FS_Interval
          <6> QED
            BY <6>1, <6>2, FS_Subset
        <5>2. Cardinality(request[i].doing) <= Concurrency
          BY DEF IInv, AccountInv
        <5> QED
          BY <5>1, <5>2, Slots, ConcurrencyAssumption
      <4> QED
        BY <4>1, <4>2, <4>4, <4>5
    <3> HIDE DEF Holder, Slot, Inner
    <3>2. place \in [CatalogCalls -> Inner \X (1..Concurrency)]
      <4>1. \A c \in CatalogCalls : Holder(c[1]) \in Inner /\ slot(c) \in 1..Concurrency
        BY <3>1
      <4> HIDE DEF slot
      <4> QED
        BY <4>1
    <3>3. ASSUME NEW c \in CatalogCalls, NEW d \in CatalogCalls, place[c] = place[d]
          PROVE  c = d
      <4>1. Holder(c[1]) = Holder(d[1]) /\ slot(c) = slot(d)
        <5> HIDE DEF slot
        <5> QED
          BY <3>3
      <4>2. at[Holder(c[1])] = c[1] /\ at[Holder(d[1])] = d[1]
        BY <3>1
      <4>3. c[1] = d[1]
        BY <4>1, <4>2
      <4>4. PICK f : f = Slot(c[1])
        OBVIOUS
      <4>5. f[c[2]] = f[d[2]]
        BY <4>1, <4>3, <4>4
      <4>6. /\ c[2] \in request[c[1]].doing /\ d[2] \in request[c[1]].doing
            /\ \A x, y \in request[c[1]].doing : f[x] = f[y] => x = y
        BY <3>1, <4>3, <4>4
      <4>7. c[2] = d[2]
        BY <4>5, <4>6
      <4>8. c = <<c[1], c[2]>> /\ d = <<d[1], d[2]>>
        BY <3>1
      <4> QED
        BY <4>3, <4>7, <4>8
    <3> HIDE DEF place
    <3>4. place \in Injection(CatalogCalls, Inner \X (1..Concurrency))
      BY <3>2, <3>3 DEF Injection, IsInjective
    <3>5. IsFiniteSet(1..Concurrency) /\ Cardinality(1..Concurrency) = Concurrency
      BY ConcurrencyAssumption, FS_Interval
    <3>6. /\ IsFiniteSet(Inner \X (1..Concurrency))
          /\ Cardinality(Inner \X (1..Concurrency)) = Cardinality(Inner) * Concurrency
      BY <2>3, <3>5, FS_Product
    <3>7. /\ IsFiniteSet(CatalogCalls)
          /\ Cardinality(CatalogCalls) <= Cardinality(Inner \X (1..Concurrency))
      BY <3>4, <3>6, FS_Injection
    <3> QED
      BY <3>6, <3>7, FS_CardinalityType
  <2>6. Cardinality(Outer) + Cardinality(Inner) * Concurrency <= Concurrency * Concurrency
    BY <2>3, <2>4, Square, ConcurrencyAssumption
  <2>7. /\ Cardinality(Inner) * Concurrency \in Nat /\ Concurrency * Concurrency \in Nat
    BY <2>3, ConcurrencyAssumption
  <2> HIDE DEF Inner
  <2> QED
    BY <2>3, <2>5, <2>6, <2>7 DEF CallsAreBounded
<1> QED
  BY <1>1, Inductive, PTL

-----------------------------------------------------------------------------
(* The refinement of the second fan-out *)

\* The items of a request arrive: the list of them is called.
LEMMA ArriveMaps ==
  ASSUME IInv, NEW r \in OverRequests!Runners, NEW m \in Sizes, ItemsArrive(r, m),
         NEW i \in Requests
  PROVE  InnerMap(i)!Next \/ request'[i] = request[i]
<1>1. /\ r \in OverRequests!Busy /\ request[at[r]].phase = "plain"
      /\ request' = [request EXCEPT ![at[r]] =
           [phase |-> "items", m |-> m, next |-> OverRequests!limit(m),
            doing |-> 0..(OverRequests!limit(m) - 1), skipped |-> {}, detailed |-> {}]]
  BY DEF ItemsArrive, AwaitsItems, StartItems
<1>2. CASE i # at[r]
  BY <1>1, <1>2 DEF IInv, TypeOK
<1>3. CASE i = at[r]
  <2> DEFINE l == OverRequests!limit(m)
  <2>1. m \in 0..MaxItems /\ l \in 0..m /\ l <= Concurrency
    BY LimitsAssumption, ConcurrencyAssumption DEF OverRequests!limit
  <2>2. /\ request'[i].phase = "items" /\ request'[i].m = m /\ request'[i].next = l
        /\ request'[i].doing = 0..(l - 1)
    BY <1>1, <1>3 DEF IInv, TypeOK
  <2> HIDE DEF l
  <2>3. request[i].m = 0 /\ request[i].next = 0 /\ request[i].phase = "plain"
    BY <1>1, <1>3 DEF IInv, PhaseInv
  <2>4. Cardinality(0..(l - 1)) <= Concurrency
    <3>1. Cardinality(0..(l - 1)) = IF 0 > l - 1 THEN 0 ELSE l - 1 - 0 + 1
      BY <2>1, FS_Interval
    <3> QED
      BY <2>1, <3>1, ConcurrencyAssumption
  <2>5. InnerOutcome(i) = "none" /\ InnerOutcome(i)' = IF m = 0 THEN "fulfilled" ELSE "pending"
    BY <2>1, <2>2, <2>3 DEF InnerOutcome
  <2>6. InnerDone(i) = {} /\ InnerDone(i)' = {}
    BY <2>1, <2>2, <2>3 DEF InnerDone
  <2>7. InnerTodo(i)' = l..(m - 1)
    BY <2>2 DEF InnerTodo
  <2>8. /\ l..(m - 1) \cup 0..(l - 1) = 0..(m - 1)
        /\ l..(m - 1) \cap 0..(l - 1) = {}
    BY <2>1
  <2>9. InnerMap(i)!Call(m)
    BY <2>2, <2>4, <2>5, <2>6, <2>7, <2>8 DEF InnerMap!Call, InnerMap!Cardinality, Cardinality
  <2> QED
    BY <2>1, <2>9 DEF InnerMap!Next
<1> QED
  BY <1>2, <1>3

\* Work on an item of it ends.
LEMMA EndMaps ==
  ASSUME IInv, NEW r \in OverRequests!Runners, NEW j \in Items,
         CatalogArrives(r, j) \/ CatalogFails(r, j) \/ SkipItem(r, j),
         NEW i \in Requests
  PROVE  InnerMap(i)!Next \/ request'[i] = request[i]
<1>1. PICK k \in Requests : ItemEnds(k, j)
  BY EndFacts
<1>2. CASE i # k
  BY <1>1, <1>2 DEF ItemEnds
<1>3. CASE i = k
  <2> DEFINE m == request[i].m
             next == request[i].next
             doing == request[i].doing
  <2>1. /\ m \in Nat /\ next \in Nat /\ j \in doing
        /\ next <= m /\ doing \subseteq 0..(next - 1)
    BY <1>1, <1>3 DEF IInv, TypeOK, AccountInv, ItemEnds
  <2>2. /\ request[i].phase = "items" /\ request'[i].phase = "items" /\ request'[i].m = m
        /\ \/ /\ next < m /\ request'[i].next = next + 1
              /\ request'[i].doing = (doing \ {j}) \cup {next}
           \/ /\ ~(next < m) /\ request'[i].next = next
              /\ request'[i].doing = doing \ {j}
    BY <1>1, <1>3 DEF ItemEnds
  <2>3. InnerOutcome(i)' = InnerOutcome(i)
    BY <2>2 DEF InnerOutcome
  <2> HIDE DEF m, next, doing
  <2>4. InnerDone(i) = (0..(next - 1)) \ doing /\ InnerTodo(i) = next..(m - 1)
    BY DEF InnerDone, InnerTodo, m, next, doing
  <2>5. CASE next < m
    <3>1. InnerTodo(i)' = (next + 1)..(m - 1)
          /\ InnerDone(i)' = (0..next) \ ((doing \ {j}) \cup {next})
      BY <2>1, <2>2, <2>5 DEF InnerTodo, InnerDone
    <3>2. /\ next \in InnerTodo(i) /\ InnerTodo(i)' = InnerTodo(i) \ {next}
          /\ InnerDone(i)' = InnerDone(i) \cup {j}
      BY <2>1, <2>4, <2>5, <3>1
    <3> QED
      BY <2>1, <2>2, <2>3, <2>5, <3>2 DEF InnerMap!Next, InnerMap!End, Items, doing
  <2>6. CASE ~(next < m)
    <3>1. InnerTodo(i)' = next..(m - 1) /\ InnerDone(i)' = (0..(next - 1)) \ (doing \ {j})
      BY <2>1, <2>2, <2>6 DEF InnerTodo, InnerDone
    <3>2. InnerTodo(i)' = InnerTodo(i) /\ InnerDone(i)' = InnerDone(i) \cup {j}
      BY <2>1, <2>4, <3>1
    <3> QED
      BY <2>1, <2>2, <2>3, <2>6, <3>2 DEF InnerMap!Next, InnerMap!End, Items, doing
  <2> QED
    BY <2>5, <2>6
<1> QED
  BY <1>2, <1>3

\* The promise of the second fan-out is fulfilled when all its items are done, and
\* a request whose items did not arrive never calls it.
LEMMA LeaveMaps ==
  ASSUME IInv, NEW r \in OverRequests!Runners, ItemsFail(r) \/ ItemsEnriched(r),
         NEW i \in Requests
  PROVE  [InnerMap(i)!Next]_(InnerMap(i)!vars)
<1>1. /\ \/ request[at[r]].phase = "plain"
            /\ request' = [request EXCEPT ![at[r]].phase = "bare"]
         \/ request[at[r]].phase = "items" /\ request[at[r]].doing = {}
            /\ request' = [request EXCEPT ![at[r]].phase = "enriched"]
  BY DEF ItemsFail, ItemsEnriched, AwaitsItems, AwaitsCatalog
<1>2. CASE i # at[r]
  <2>1. request'[i] = request[i]
    BY <1>1, <1>2 DEF IInv, TypeOK
  <2> QED
    BY <2>1 DEF InnerMap!vars, InnerOutcome, InnerTodo, InnerDone
<1>3. CASE i = at[r]
  <2>1. /\ request'[i].m = request[i].m /\ request'[i].next = request[i].next
        /\ request'[i].doing = request[i].doing
        /\ \/ request[i].phase = "plain" /\ request'[i].phase = "bare"
           \/ request[i].phase = "items" /\ request'[i].phase = "enriched"
              /\ request[i].doing = {}
    BY <1>1, <1>3 DEF IInv, TypeOK
  <2>2. InnerTodo(i)' = InnerTodo(i) /\ InnerDone(i)' = InnerDone(i)
    BY <2>1 DEF InnerTodo, InnerDone
  <2>3. CASE InnerOutcome(i)' = InnerOutcome(i)
    BY <2>1, <2>2, <2>3 DEF InnerMap!vars
  <2>4. CASE InnerOutcome(i)' # InnerOutcome(i)
    <3>1. InnerOutcome(i) = "pending" /\ InnerOutcome(i)' = "fulfilled" /\ request[i].doing = {}
      BY <2>1, <2>4 DEF InnerOutcome
    <3>2. ~(request[i].next < request[i].m)
      BY <3>1 DEF IInv, AccountInv
    <3>3. request[i].next \in Nat /\ request[i].m \in Nat
      BY DEF IInv, TypeOK
    <3>4. InnerTodo(i) = {}
      BY <3>2, <3>3 DEF InnerTodo
    <3> QED
      BY <2>1, <2>2, <3>1, <3>4 DEF InnerMap!Next, InnerMap!Fulfill
  <2> QED
    BY <2>3, <2>4
<1> QED
  BY <1>2, <1>3

\* The fan-out over the items of every request implements a parallel map, whatever
\* the other requests of the page do.
THEOREM ItemsRefine == Spec => ItemsAreMapped
<1>1. Init => \A i \in Requests : InnerMap(i)!Init
  <2> SUFFICES ASSUME Init, NEW i \in Requests PROVE InnerMap(i)!Init
    OBVIOUS
  <2>1. request[i] = Plain
    BY DEF Init
  <2>2. InnerOutcome(i) = "none" /\ InnerTodo(i) = {} /\ InnerDone(i) = {} /\ request[i].doing = {}
    BY <2>1 DEF InnerOutcome, InnerTodo, InnerDone, Plain
  <2> QED
    BY <2>2 DEF InnerMap!Init
<1>2. IInv /\ [Next]_vars =>
        [\A i \in Requests : [InnerMap(i)!Next]_(InnerMap(i)!vars)]_vars
  <2> SUFFICES ASSUME IInv, [Next]_vars, NEW i \in Requests
               PROVE  [InnerMap(i)!Next]_(InnerMap(i)!vars)
    OBVIOUS
  <2>1. request'[i] = request[i] => UNCHANGED InnerMap(i)!vars
    BY DEF InnerMap!vars, InnerOutcome, InnerTodo, InnerDone
  <2>2. CASE UNCHANGED vars
    BY <2>1, <2>2 DEF vars
  <2>3. ASSUME NEW r \in OverRequests!Runners,
               \/ \E m \in Sizes : ItemsArrive(r, m)
               \/ ItemsFail(r) \/ ItemsEnriched(r)
               \/ \E j \in Items : CatalogArrives(r, j) \/ CatalogFails(r, j) \/ SkipItem(r, j)
        PROVE  [InnerMap(i)!Next]_(InnerMap(i)!vars)
    <3>1. CASE ItemsFail(r) \/ ItemsEnriched(r)
      BY <3>1, LeaveMaps
    <3>2. CASE ~(ItemsFail(r) \/ ItemsEnriched(r))
      <4>1. InnerMap(i)!Next \/ request'[i] = request[i]
        BY <2>3, <3>2, ArriveMaps, EndMaps
      <4> QED
        BY <2>1, <4>1
    <3> QED
      BY <3>1, <3>2
  <2>4. ASSUME \/ \E lookups \in BOOLEAN : Begin(lookups)
               \/ LookedUp \/ ListFails \/ Return
               \/ \E k \in 0..MaxRequests : Listed(k)
        PROVE  request'[i] = request[i]
    BY <2>4 DEF Begin, LookedUp, ListFails, Return, Listed
  <2> QED
    BY <2>1, <2>2, <2>3, <2>4 DEF Next, Listing, Finished
<1> QED
  BY <1>1, <1>2, Inductive, PTL DEF Spec, ItemsAreMapped
=============================================================================
