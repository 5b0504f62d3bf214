------------------------------- MODULE FanOut -------------------------------
(***************************************************************************)
(* mapWithConcurrency of src/src/services/servicenowClient.ts: a fixed     *)
(* number of runners share an index into the items; each awaits the worker *)
(* of its item, stores the result at the item's index and takes the next   *)
(* one.  Promise.all over the runners rejects at the first runner that     *)
(* throws; the other runners know nothing of it.                           *)
(***************************************************************************)
EXTENDS Integers, FiniteSets

CONSTANTS
  MaxItems,     \* bound: the longest list of items
  Concurrency   \* the concurrency argument

ASSUME MaxItemsAssumption == MaxItems \in Nat
ASSUME ConcurrencyAssumption == Concurrency \in Nat \ {0}

VARIABLES
  outcome,    \* of the returned promise; "none" before the call
  n,          \* items.length
  nextIndex,  \* the shared index
  runner,     \* per runner: "none", "busy", "returned" or "threw"
  at,         \* per runner: currentIndex
  results     \* per index: whether the runner stored a result there

vars == <<outcome, n, nextIndex, runner, at, results>>

Runners == 0..(MaxItems - 1)
Indices == 0..(MaxItems - 1)

Busy == {r \in Runners : runner[r] = "busy"}
Threw == {r \in Runners : runner[r] = "threw"}

TypeOK ==
  /\ outcome \in {"none", "pending", "fulfilled", "rejected"}
  /\ n \in 0..MaxItems
  /\ nextIndex \in Nat
  /\ runner \in [Runners -> {"none", "busy", "returned", "threw"}]
  /\ at \in [Runners -> Indices]
  /\ results \in [Indices -> BOOLEAN]

Init ==
  /\ outcome = "none"
  /\ n = 0
  /\ nextIndex = 0
  /\ runner = [r \in Runners |-> "none"]
  /\ at = [r \in Runners |-> r]
  /\ results = [i \in Indices |-> FALSE]

\* Mutant: one runner per item.
limit_Unbounded(m) == m

\* How many runners are created for m items, m > 0.
limit(m) == IF Concurrency < m THEN Concurrency ELSE m

\* The call: without items it is fulfilled at once; otherwise every runner is
\* created, and runs up to the await of its first worker.
Call(m) ==
  /\ outcome = "none"
  /\ n' = m
  /\ outcome' = IF m = 0 THEN "fulfilled" ELSE "pending"
  /\ runner' = [r \in Runners |-> IF r < limit(m) THEN "busy" ELSE "none"]
  /\ nextIndex' = limit(m)
  /\ UNCHANGED <<at, results>>

\* Mutant: runners stop taking items once one of them has thrown.
TakeNext_StopOnFailure(r) ==
  /\ IF nextIndex < n /\ Threw = {}
       THEN at' = [at EXCEPT ![r] = nextIndex] /\ UNCHANGED runner
       ELSE runner' = [runner EXCEPT ![r] = "returned"] /\ UNCHANGED at
  /\ nextIndex' = nextIndex + 1

\* A runner takes the next index and awaits its worker, or returns.
TakeNext(r) ==
  /\ IF nextIndex < n
       THEN at' = [at EXCEPT ![r] = nextIndex] /\ UNCHANGED runner
       ELSE runner' = [runner EXCEPT ![r] = "returned"] /\ UNCHANGED at
  /\ nextIndex' = nextIndex + 1

\* The worker of a runner's item returns.
WorkerReturns(r) ==
  /\ runner[r] = "busy"
  /\ results' = [results EXCEPT ![at[r]] = TRUE]
  /\ TakeNext(r)
  /\ UNCHANGED <<outcome, n>>

\* The worker of a runner's item throws, and the runner with it.
WorkerThrows(r) ==
  /\ runner[r] = "busy"
  /\ runner' = [runner EXCEPT ![r] = "threw"]
  /\ UNCHANGED <<outcome, n, nextIndex, at, results>>

\* Promise.all: every runner returned, and the array of results is returned.
Fulfill ==
  /\ outcome = "pending"
  /\ Busy = {} /\ Threw = {}
  /\ outcome' = "fulfilled"
  /\ UNCHANGED <<n, nextIndex, runner, at, results>>

\* Mutant: Promise.any: only the failure of every runner rejects the promise.
Reject_WhenAllThrew ==
  /\ outcome = "pending"
  /\ Cardinality(Threw) = limit(n)
  /\ outcome' = "rejected"
  /\ UNCHANGED <<n, nextIndex, runner, at, results>>

\* Promise.all: a runner threw; the error propagates at once.
Reject ==
  /\ outcome = "pending"
  /\ Threw # {}
  /\ outcome' = "rejected"
  /\ UNCHANGED <<n, nextIndex, runner, at, results>>

\* Nothing is left to happen.
Finished ==
  /\ outcome \in {"fulfilled", "rejected"}
  /\ Busy = {}
  /\ UNCHANGED vars

Next ==
  \/ \E m \in 0..MaxItems : Call(m)
  \/ \E r \in Runners : WorkerReturns(r) \/ WorkerThrows(r)
  \/ Fulfill
  \/ Reject
  \/ Finished

\* Every worker makes HTTP calls with a timeout, so it settles; promise callbacks
\* run.  The exchange of a caller token, which may come before a call, has no
\* timeout, and is taken to settle as well.
Fairness ==
  /\ \A r \in Runners : WF_vars(WorkerReturns(r) \/ WorkerThrows(r))
  /\ WF_vars(Fulfill)
  /\ WF_vars(Reject)

Spec == Init /\ [][Next]_vars
FairSpec == Spec /\ Fairness

-----------------------------------------------------------------------------
\* No item is ever worked on by two runners, nor again once it is done or
\* another runner failed on it.
NoItemTwice ==
  \A r \in Busy :
    /\ ~results[at[r]]
    /\ \A s \in (Busy \cup Threw) \ {r} : at[s] # at[r]

\* A fulfilled promise hands out an array in which every result was stored.
FulfilledIsComplete == outcome = "fulfilled" => \A i \in 0..(n - 1) : results[i]

\* A failing item does not keep others from being worked on: when all runners
\* are through and one of them returned normally, every item was begun.  So a
\* rejected fan-out leaves items untouched only when every runner threw.
FailureStopsOneRunner ==
  Busy = {} /\ (\E r \in Runners : runner[r] = "returned") =>
    \A i \in 0..(n - 1) : results[i] \/ \E r \in Threw : at[r] = i

\* Every call is settled, and its runners come to an end in the background.
SettlesAndDrains == outcome # "none" ~> outcome # "pending" /\ Busy = {}

\* The promises of module ParallelMap, with the items told apart by what
\* happened to them.
Stored == {i \in 0..(n - 1) : results[i]}
Map == INSTANCE ParallelMap WITH
  todo <- {i \in 0..(n - 1) : i >= nextIndex},
  doing <- {at[r] : r \in Busy},
  done <- Stored,
  failed <- {at[r] : r \in Threw}

ImplementsMap == Map!Spec
=============================================================================
