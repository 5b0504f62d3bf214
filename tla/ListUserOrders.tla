---------------------------- MODULE ListUserOrders ----------------------------
(***************************************************************************)
(* One listing of a user's orders: ServiceNowClient.listUserOrders of      *)
(* src/src/services/servicenowClient.ts.  Every request of the page is     *)
(* enriched with its items by a first mapWithConcurrency (module FanOut),  *)
(* and every item with its catalog item by a second one that the worker of *)
(* the first awaits.  The workers of both catch what goes wrong, so        *)
(* neither fan-out ever rejects.                                           *)
(*                                                                         *)
(* Which runner of the second fan-out works on which item matters to       *)
(* nothing outside it: a second fan-out is the set of items it works on.   *)
(***************************************************************************)
EXTENDS Integers, FiniteSets

CONSTANTS
  MaxRequests,  \* the limit of the listing (50 by default)
  MaxItems,     \* sysparm_limit of the items of a request (100 in the code)
  Sizes,        \* how many items a request may have
  Concurrency   \* SERVICENOW_FANOUT_CONCURRENCY

ASSUME LimitsAssumption == MaxRequests \in Nat /\ MaxItems \in Nat /\ Sizes \subseteq 0..MaxItems
ASSUME ConcurrencyAssumption == Concurrency \in Nat \ {0}

VARIABLES
  step,      \* where listUserOrders is
  known,     \* does the request context carry caller values?
  lookup,    \* of the current user: "none", "matched", "unmatched" or "failed"
  outcome, n, nextIndex, runner, at, results,  \* the first fan-out (module FanOut)
  request,   \* per request: its enrichment, with the second fan-out
  lostItems,    \* requests whose GET of items failed
  lostCatalog   \* <<request, item>> whose GET of the catalog item failed

fanOut == <<outcome, n, nextIndex, runner, at, results>>
vars == <<step, known, lookup, fanOut, request, lostItems, lostCatalog>>

OverRequests == INSTANCE FanOut WITH MaxItems <- MaxRequests

Requests == 0..(MaxRequests - 1)
Items == 0..(MaxItems - 1)

\* phase: "plain" as listed, "items" while the items are enriched, "enriched", or
\* "bare" with requestItems: [].  m items, next the shared index, doing the items
\* worked on, skipped those found to refer to no catalog item, detailed those with
\* a catalogItem.
Plain == [phase |-> "plain", m |-> 0, next |-> 0, doing |-> {}, skipped |-> {},
          detailed |-> {}]

TypeOK ==
  /\ step \in {"idle", "lookup", "list", "enrich", "listed", "none", "failed"}
  /\ known \in BOOLEAN
  /\ lookup \in {"none", "matched", "unmatched", "failed"}
  /\ OverRequests!TypeOK
  /\ request \in [Requests -> [phase : {"plain", "items", "enriched", "bare"},
                               m : 0..MaxItems, next : 0..MaxItems,
                               doing : SUBSET Items, skipped : SUBSET Items,
                               detailed : SUBSET Items]]
  /\ lostItems \subseteq Requests
  /\ lostCatalog \subseteq Requests \X Items

Init ==
  /\ step = "idle"
  /\ known \in BOOLEAN
  /\ lookup = "none"
  /\ OverRequests!Init
  /\ request = [i \in Requests |-> Plain]
  /\ lostItems = {} /\ lostCatalog = {}

-----------------------------------------------------------------------------
\* The current user is looked up when there is a value, and a field, to look for.
Begin(lookups) ==
  /\ step = "idle"
  /\ step' = IF known /\ lookups THEN "lookup" ELSE "none"
  /\ UNCHANGED <<known, lookup, fanOut, request, lostItems, lostCatalog>>

\* The lookup finds the user; or nobody, or it fails: the listing is empty.
LookedUp ==
  /\ step = "lookup"
  /\ lookup' \in {"matched", "unmatched", "failed"}
  /\ step' = IF lookup' = "matched" THEN "list" ELSE "none"
  /\ UNCHANGED <<known, fanOut, request, lostItems, lostCatalog>>

\* The page of requests arrives and the first fan-out begins.
Listed(k) ==
  /\ step = "list"
  /\ step' = "enrich"
  /\ OverRequests!Call(k)
  /\ UNCHANGED <<known, lookup, request, lostItems, lostCatalog>>

ListFails ==
  /\ step = "list"
  /\ step' = "failed"
  /\ UNCHANGED <<known, lookup, fanOut, request, lostItems, lostCatalog>>

-----------------------------------------------------------------------------
(* The worker of the first fan-out, run by runner r on request at[r]. *)

AwaitsItems(r) == r \in OverRequests!Busy /\ request[at[r]].phase = "plain"
AwaitsCatalog(r) == r \in OverRequests!Busy /\ request[at[r]].phase = "items"

\* Mutant: every item is enriched at once.
StartItems_Unbounded(i, m) ==
  request' = [request EXCEPT ![i] =
    [Plain EXCEPT !.phase = "items", !.m = m, !.next = m, !.doing = 0..(m - 1)]]

\* The second fan-out begins over m items.
StartItems(i, m) ==
  LET limit == OverRequests!limit(m)
  IN request' = [request EXCEPT ![i] =
       [phase |-> "items", m |-> m, next |-> limit, doing |-> 0..(limit - 1),
        skipped |-> {}, detailed |-> {}]]

\* The items of a request arrive.
ItemsArrive(r, m) ==
  /\ AwaitsItems(r)
  /\ StartItems(at[r], m)
  /\ UNCHANGED <<step, known, lookup, fanOut, lostItems, lostCatalog>>

\* They do not: the request is returned with no items.
ItemsFail(r) ==
  /\ AwaitsItems(r)
  /\ request' = [request EXCEPT ![at[r]].phase = "bare"]
  /\ lostItems' = lostItems \cup {at[r]}
  /\ OverRequests!WorkerReturns(r)
  /\ UNCHANGED <<step, known, lookup, lostCatalog>>

\* Work on item j of request i ends, and its runner takes the next item.
EndItem(i, j, details, skips) ==
  LET q == request[i]
  IN request' = [request EXCEPT ![i] =
       [q EXCEPT !.doing = (q.doing \ {j}) \cup (IF q.next < q.m THEN {q.next} ELSE {}),
                 !.next = IF q.next < q.m THEN q.next + 1 ELSE q.next,
                 !.detailed = q.detailed \cup details,
                 !.skipped = q.skipped \cup skips]]

\* The catalog item of an item arrives.
CatalogArrives(r, j) ==
  /\ AwaitsCatalog(r)
  /\ j \in request[at[r]].doing
  /\ EndItem(at[r], j, {j}, {})
  /\ UNCHANGED <<step, known, lookup, fanOut, lostItems, lostCatalog>>

\* Mutant: the catch of the worker of the first fan-out is the only one: the
\* request loses its items, and the other runners of the second fan-out go on.
CatalogFails_Uncaught(r, j) ==
  /\ AwaitsCatalog(r)
  /\ j \in request[at[r]].doing
  /\ request' = [request EXCEPT ![at[r]].phase = "bare",
                                ![at[r]].doing = request[at[r]].doing \ {j}]
  /\ lostCatalog' = lostCatalog \cup {<<at[r], j>>}
  /\ OverRequests!WorkerReturns(r)
  /\ UNCHANGED <<step, known, lookup, lostItems>>

\* It does not: the item is returned as it is.
CatalogFails(r, j) ==
  /\ AwaitsCatalog(r)
  /\ j \in request[at[r]].doing
  /\ EndItem(at[r], j, {}, {})
  /\ lostCatalog' = lostCatalog \cup {<<at[r], j>>}
  /\ UNCHANGED <<step, known, lookup, fanOut, lostItems>>

\* An item without a reference to a catalog item needs no call.
SkipItem(r, j) ==
  /\ AwaitsCatalog(r)
  /\ j \in request[at[r]].doing
  /\ EndItem(at[r], j, {}, {j})
  /\ UNCHANGED <<step, known, lookup, fanOut, lostItems, lostCatalog>>

\* Mutant: the items are enriched without being awaited.
ItemsEnriched_NotAwaited(r) ==
  /\ AwaitsCatalog(r)
  /\ request' = [request EXCEPT ![at[r]].phase = "enriched"]
  /\ OverRequests!WorkerReturns(r)
  /\ UNCHANGED <<step, known, lookup, lostItems, lostCatalog>>

\* The second fan-out is fulfilled, and the worker of the first returns.
ItemsEnriched(r) ==
  /\ AwaitsCatalog(r)
  /\ request[at[r]].doing = {}
  /\ request' = [request EXCEPT ![at[r]].phase = "enriched"]
  /\ OverRequests!WorkerReturns(r)
  /\ UNCHANGED <<step, known, lookup, lostItems, lostCatalog>>

\* Promise.all of the first fan-out settles, and with it the listing.
Return ==
  /\ step = "enrich"
  /\ \/ OverRequests!Fulfill \/ OverRequests!Reject
     \/ outcome \in {"fulfilled", "rejected"} /\ UNCHANGED fanOut
  /\ step' = IF outcome' = "fulfilled" THEN "listed" ELSE "failed"
  /\ UNCHANGED <<known, lookup, request, lostItems, lostCatalog>>

Listing ==
  \/ \E lookups \in BOOLEAN : Begin(lookups)
  \/ LookedUp
  \/ \E k \in 0..MaxRequests : Listed(k)
  \/ ListFails
  \/ \E r \in OverRequests!Runners :
       \/ \E m \in Sizes : ItemsArrive(r, m)
       \/ ItemsFail(r)
       \/ \E j \in Items : CatalogArrives(r, j) \/ CatalogFails(r, j) \/ SkipItem(r, j)
       \/ ItemsEnriched(r)
  \/ Return

\* The listing has been answered and nothing of it is left in the background.
Finished ==
  /\ step \in {"listed", "none", "failed"}
  /\ UNCHANGED vars

Next == Listing \/ Finished

Spec == Init /\ [][Next]_vars

-----------------------------------------------------------------------------
\* The GETs that are, or are about to be, under way: of the items of a request, of
\* the catalog item of an item.
ItemsCalls == {r \in OverRequests!Runners : AwaitsItems(r)}
CatalogCalls == {c \in Requests \X Items : c[2] \in request[c[1]].doing}

\* The nested fan-outs never have more than the square of the concurrency under
\* way, however long the page and the orders on it.
CallsAreBounded ==
  Cardinality(ItemsCalls) + Cardinality(CatalogCalls) <= Concurrency * Concurrency

\* A listing that has been answered has no call left in the background: unlike
\* that of a placement, neither fan-out can be rejected with runners at work.
NothingIsLeftBehind ==
  step \in {"listed", "none", "failed"} => ItemsCalls = {} /\ CatalogCalls = {}

\* A failed call costs what it was for and nothing else: only the GET of the page
\* can fail the listing; in one that was returned, a request is without its items
\* exactly if their GET failed, and an item with a reference is without its catalog
\* item exactly if its own GET did.
DegradationIsLocal ==
  /\ step = "failed" => outcome = "none"
  /\ step = "listed" => \A i \in 0..(n - 1) :
      /\ request[i].phase = (IF i \in lostItems THEN "bare" ELSE "enriched")
      /\ \A j \in 0..(request[i].m - 1) \ request[i].skipped :
           j \in request[i].detailed <=> <<i, j>> \notin lostCatalog

\* The second fan-out over the items of request i, seen as a ParallelMap whose worker
\* never throws: its outcome, and the items not begun, worked on and done.
InnerOutcome(i) ==
  IF request[i].phase \in {"plain", "bare"} THEN "none"
  ELSE IF request[i].phase = "items" /\ request[i].m > 0 THEN "pending"
  ELSE "fulfilled"
InnerTodo(i) == request[i].next..(request[i].m - 1)
InnerDone(i) == (0..(request[i].next - 1)) \ request[i].doing

InnerMap(i) == INSTANCE ParallelMap WITH
  outcome <- InnerOutcome(i), todo <- InnerTodo(i), doing <- request[i].doing,
  done <- InnerDone(i), failed <- {}

\* The second fan-out of every request begins each item once, works on a bounded
\* number at a time and is fulfilled when all are done.
ItemsAreMapped ==
  /\ \A i \in Requests : InnerMap(i)!Init
  /\ [][\A i \in Requests : [InnerMap(i)!Next]_(InnerMap(i)!vars)]_vars
=============================================================================
