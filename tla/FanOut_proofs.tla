---------------------------- MODULE FanOut_proofs ----------------------------
(***************************************************************************)
(* Proofs about FanOut for lists of any length and any concurrency.  The   *)
(* inductive invariant: the indices below nextIndex are the ones with a    *)
(* stored result and the ones some busy or failed runner holds, and no     *)
(* index is both or held twice.                                            *)
(***************************************************************************)
EXTENDS FanOut, FiniteSetTheorems, TLAPS

\* A runner that is busy or threw holds the index it took last.
Holders == Busy \cup Threw

\* Before the call nothing has happened.
IdleInv ==
  /\ outcome = "none" =>
       /\ at = [r \in Runners |-> r]
       /\ results = [i \in Indices |-> FALSE]
       /\ runner = [r \in Runners |-> "none"]
  /\ outcome = "pending" => n > 0
  /\ outcome # "none" => \A r \in Runners : r < limit(n) <=> runner[r] # "none"

\* An index is held by at most one runner, and then has no result.
HoldInv ==
  /\ \A r \in Holders : at[r] < nextIndex /\ at[r] < n /\ ~results[at[r]]
  /\ \A r, s \in Holders : at[r] = at[s] => r = s

\* The indices taken are the ones held and the ones with a result.
CoverInv ==
  /\ \A i \in Indices : results[i] => i < nextIndex /\ i < n
  /\ \A i \in 0..(n - 1) : i < nextIndex => results[i] \/ \E r \in Holders : at[r] = i

\* A runner returns only when no index is left, and the promise is fulfilled
\* only when all runners returned.
EndInv ==
  /\ \A r \in Runners : runner[r] = "returned" => nextIndex >= n
  /\ outcome = "fulfilled" => nextIndex >= n /\ Holders = {}

IInv == TypeOK /\ IdleInv /\ HoldInv /\ CoverInv /\ EndInv

-----------------------------------------------------------------------------
LEMMA LimitIsPositive ==
  ASSUME NEW m \in 0..MaxItems
  PROVE  /\ limit(m) \in 0..m
         /\ limit(m) <= Concurrency
         /\ m > 0 => limit(m) > 0
BY MaxItemsAssumption, ConcurrencyAssumption DEF limit

\* Initially nothing is held, stored or settled.
LEMMA InitInv == Init => IInv
<1> SUFFICES ASSUME Init PROVE IInv
  OBVIOUS
<1> USE MaxItemsAssumption DEF Init, Runners, Indices
<1>1. TypeOK
  BY DEF TypeOK
<1>2. Holders = {}
  BY DEF Holders, Busy, Threw
<1> QED
  BY <1>1, <1>2 DEF IInv, IdleInv, HoldInv, CoverInv, EndInv

\* The call gives runner r the index r.
LEMMA CallStep ==
  ASSUME IInv, NEW m \in 0..MaxItems, Call(m)
  PROVE  IInv'
<1> USE MaxItemsAssumption DEF Call, Runners, Indices
<1>1. /\ limit(m) \in 0..m
      /\ m > 0 => limit(m) > 0
      /\ m \in Nat /\ m <= MaxItems
  BY LimitIsPositive
<1>2. /\ at = [r \in Runners |-> r]
      /\ results = [i \in Indices |-> FALSE]
  BY DEF IInv, IdleInv
<1>3. TypeOK'
  BY <1>1 DEF IInv, TypeOK
<1>4. Holders' = {r \in Runners : r < limit(m)}
  BY DEF Holders, Busy, Threw
<1>5. IdleInv'
  BY <1>1 DEF IdleInv
<1>6. HoldInv'
  BY <1>1, <1>2, <1>4 DEF HoldInv
<1>7. CoverInv'
  <2>1. \A i \in 0..(m - 1) : i < limit(m) => i \in Runners /\ at'[i] = i
    BY <1>1, <1>2
  <2> QED
    BY <1>1, <1>2, <1>4, <2>1 DEF CoverInv
<1>8. EndInv'
  BY <1>1, <1>4 DEF EndInv
<1> QED
  BY <1>3, <1>5, <1>6, <1>7, <1>8 DEF IInv

\* A worker that returns frees its index, and the runner may take a new one.
LEMMA ReturnStep ==
  ASSUME IInv, NEW r \in Runners, WorkerReturns(r)
  PROVE  IInv'
<1> USE MaxItemsAssumption
<1>1. /\ runner[r] = "busy" /\ r \in Holders
      /\ results' = [results EXCEPT ![at[r]] = TRUE]
      /\ nextIndex' = nextIndex + 1
      /\ UNCHANGED <<outcome, n>>
  BY DEF WorkerReturns, TakeNext, Holders, Busy
<1>2. nextIndex \in Nat /\ n \in 0..MaxItems /\ at[r] \in Indices
  BY DEF IInv, TypeOK
<1>3. at[r] < nextIndex /\ at[r] < n /\ \A s \in Holders : at[s] = at[r] => s = r
  BY <1>1 DEF IInv, HoldInv
<1>4. outcome # "none" /\ outcome # "fulfilled"
  BY <1>1 DEF IInv, IdleInv, EndInv, Holders
<1>5. CASE nextIndex < n
  <2>1. at' = [at EXCEPT ![r] = nextIndex] /\ runner' = runner
    BY <1>5 DEF WorkerReturns, TakeNext
  <2>2. Holders' = Holders
    BY <2>1 DEF Holders, Busy, Threw
  <2>3. nextIndex \in Indices
    BY <1>2, <1>5 DEF Indices
  <2>4. TypeOK'
    BY <1>1, <1>2, <2>1, <2>3 DEF IInv, TypeOK
  <2>5. IdleInv'
    BY <1>1, <1>4, <2>1 DEF IInv, IdleInv
  <2>6. \A s \in Holders \ {r} : at'[s] = at[s] /\ at[s] < nextIndex /\ at[s] \in Indices
    BY <2>1 DEF IInv, HoldInv, Holders, Busy, Threw, TypeOK
  <2>7. at'[r] = nextIndex
    BY <2>1 DEF IInv, TypeOK
  <2>8. ~results'[nextIndex]
    BY <1>1, <1>2, <1>3, <2>3 DEF IInv, CoverInv, TypeOK
  <2>9. HoldInv'
    <3>1. \A s \in Holders \ {r} : at'[s] < nextIndex' /\ at'[s] < n' /\ ~results'[at'[s]]
      BY <1>1, <1>2, <1>3, <2>6 DEF IInv, HoldInv, TypeOK, Indices
    <3>2. at'[r] < nextIndex' /\ at'[r] < n' /\ ~results'[at'[r]]
      BY <1>1, <1>2, <1>5, <2>7, <2>8
    <3>3. \A s \in Holders \ {r} : at'[s] # at'[r]
      BY <1>2, <2>6, <2>7 DEF Indices
    <3>4. \A s, t \in Holders \ {r} : at'[s] = at'[t] => s = t
      BY <2>6 DEF IInv, HoldInv
    <3> QED
      BY <2>2, <3>1, <3>2, <3>3, <3>4 DEF HoldInv
  <2>10. CoverInv'
    <3>1. \A i \in Indices : results'[i] => i < nextIndex' /\ i < n'
      BY <1>1, <1>2, <1>3 DEF IInv, CoverInv, TypeOK, Indices
    <3>2. ASSUME NEW i \in 0..(n - 1), i < nextIndex'
          PROVE  results'[i] \/ \E s \in Holders' : at'[s] = i
      <4>1. CASE i = nextIndex
        BY <4>1, <1>1, <2>2, <2>7
      <4>2. CASE i = at[r]
        BY <4>2, <1>1, <1>2 DEF IInv, TypeOK
      <4>3. CASE i # nextIndex /\ i # at[r]
        <5>1. i < nextIndex /\ i \in Indices
          BY <4>3, <3>2, <1>1, <1>2 DEF Indices
        <5>2. results[i] \/ \E s \in Holders : at[s] = i
          BY <5>1 DEF IInv, CoverInv
        <5>3. results[i] => results'[i]
          BY <5>1, <1>1 DEF IInv, TypeOK
        <5> QED
          BY <5>2, <5>3, <4>3, <2>2, <2>6
      <4> QED
        BY <4>1, <4>2, <4>3
    <3> QED
      BY <1>1, <3>1, <3>2 DEF CoverInv
  <2>11. EndInv'
    BY <1>1, <1>2, <1>4, <2>1 DEF IInv, EndInv
  <2> QED
    BY <2>4, <2>5, <2>9, <2>10, <2>11 DEF IInv
<1>6. CASE ~(nextIndex < n)
  <2>1. at' = at /\ runner' = [runner EXCEPT ![r] = "returned"]
    BY <1>6 DEF WorkerReturns, TakeNext
  <2>2. Holders' = Holders \ {r}
    BY <2>1 DEF Holders, Busy, Threw, IInv, TypeOK
  <2>3. TypeOK'
    BY <1>1, <1>2, <2>1 DEF IInv, TypeOK
  <2>4. IdleInv'
    BY <1>1, <1>4, <2>1 DEF IInv, IdleInv, TypeOK
  <2>5. HoldInv'
    BY <1>1, <1>2, <1>3, <2>1, <2>2 DEF IInv, HoldInv, TypeOK, Holders, Busy, Threw, Indices
  <2>6. CoverInv'
    <3>1. \A i \in Indices : results'[i] => i < nextIndex' /\ i < n'
      BY <1>1, <1>2, <1>3 DEF IInv, CoverInv, TypeOK, Indices
    <3>2. ASSUME NEW i \in 0..(n - 1)
          PROVE  results'[i] \/ \E s \in Holders' : at'[s] = i
      <4>1. i \in Indices /\ i < nextIndex
        BY <1>2, <1>6 DEF Indices
      <4>2. results[i] \/ \E s \in Holders : at[s] = i
        BY <4>1 DEF IInv, CoverInv
      <4>3. results[i] => results'[i]
        BY <4>1, <1>1 DEF IInv, TypeOK
      <4>4. i = at[r] => results'[i]
        BY <1>1, <1>2 DEF IInv, TypeOK
      <4> QED
        BY <4>2, <4>3, <4>4, <2>1, <2>2
    <3> QED
      BY <1>1, <3>1, <3>2 DEF CoverInv
  <2>7. EndInv'
    BY <1>1, <1>2, <1>4, <1>6, <2>1 DEF IInv, EndInv, TypeOK
  <2> QED
    BY <2>3, <2>4, <2>5, <2>6, <2>7 DEF IInv
<1> QED
  BY <1>5, <1>6

\* A worker that throws leaves its index with the runner that died of it.
LEMMA ThrowStep ==
  ASSUME IInv, NEW r \in Runners, WorkerThrows(r)
  PROVE  IInv'
<1>1. runner[r] = "busy" /\ runner' = [runner EXCEPT ![r] = "threw"]
      /\ UNCHANGED <<outcome, n, nextIndex, at, results>>
  BY DEF WorkerThrows
<1>2. Holders' = Holders
  BY <1>1 DEF Holders, Busy, Threw, IInv, TypeOK
<1>3. TypeOK'
  BY <1>1 DEF IInv, TypeOK
<1>4. IdleInv'
  BY <1>1 DEF IInv, IdleInv, TypeOK
<1>5. HoldInv' /\ CoverInv'
  BY <1>1, <1>2 DEF IInv, HoldInv, CoverInv
<1>6. EndInv'
  BY <1>1, <1>2 DEF IInv, EndInv, TypeOK
<1> QED
  BY <1>3, <1>4, <1>5, <1>6 DEF IInv

\* The promise is fulfilled when every runner came to the end of the list.
LEMMA SettleStep ==
  ASSUME IInv, Fulfill \/ Reject
  PROVE  IInv'
<1> USE MaxItemsAssumption
<1>1. outcome = "pending" /\ UNCHANGED <<n, nextIndex, runner, at, results>>
      /\ outcome' \in {"fulfilled", "rejected"}
  BY DEF Fulfill, Reject
<1>2. Holders' = Holders
  BY <1>1 DEF Holders, Busy, Threw
<1>3. outcome' = "fulfilled" => Holders = {}
  BY DEF Fulfill, Reject, Holders
<1>4. Holders = {} => nextIndex >= n
  <2> SUFFICES ASSUME Holders = {} PROVE nextIndex >= n
    OBVIOUS
  <2>1. n > 0 /\ n \in 0..MaxItems
    BY <1>1 DEF IInv, IdleInv, TypeOK
  <2>2. 0 \in Runners /\ 0 < limit(n)
    BY <2>1, LimitIsPositive DEF Runners
  <2>3. runner[0] # "none" /\ runner[0] # "busy" /\ runner[0] # "threw"
    BY <1>1, <2>2 DEF IInv, IdleInv, Holders, Busy, Threw
  <2>4. runner[0] = "returned"
    BY <2>2, <2>3 DEF IInv, TypeOK
  <2> QED
    BY <2>2, <2>4 DEF IInv, EndInv
<1>5. TypeOK' /\ IdleInv'
  BY <1>1 DEF IInv, TypeOK, IdleInv
<1>6. HoldInv' /\ CoverInv'
  BY <1>1, <1>2 DEF IInv, HoldInv, CoverInv
<1>7. EndInv'
  BY <1>1, <1>2, <1>3, <1>4 DEF IInv, EndInv
<1> QED
  BY <1>5, <1>6, <1>7 DEF IInv

\* The bookkeeping of the shared index is an invariant of every fan-out.
THEOREM Inductive == Spec => []IInv
<1>1. IInv /\ [Next]_vars => IInv'
  <2> SUFFICES ASSUME IInv, [Next]_vars PROVE IInv'
    OBVIOUS
  <2>1. CASE UNCHANGED vars
    BY <2>1 DEF vars, IInv, TypeOK, IdleInv, HoldInv, CoverInv, EndInv, Holders, Busy, Threw
  <2> QED
    BY <2>1, CallStep, ReturnStep, ThrowStep, SettleStep DEF Next, Finished
<1> QED
  BY <1>1, InitInv, PTL DEF Spec

\* No item is worked on twice, for any list and any concurrency.
THEOREM EachItemOnce == Spec => []NoItemTwice
<1>1. IInv => NoItemTwice
  BY DEF IInv, HoldInv, Holders, NoItemTwice
<1> QED
  BY <1>1, Inductive, PTL

\* The promise is never fulfilled with a hole in the array of results.
THEOREM CompleteResults == Spec => []FulfilledIsComplete
<1>1. IInv => FulfilledIsComplete
  <2> SUFFICES ASSUME IInv, outcome = "fulfilled", NEW i \in 0..(n - 1)
               PROVE  results[i]
    BY DEF FulfilledIsComplete
  <2>1. nextIndex \in Nat /\ n \in 0..MaxItems
    BY DEF IInv, TypeOK
  <2>2. nextIndex >= n /\ Holders = {}
    BY DEF IInv, EndInv
  <2> QED
    BY <2>1, <2>2, MaxItemsAssumption DEF IInv, CoverInv
<1> QED
  BY <1>1, Inductive, PTL

\* An item is left out only when every runner threw.
THEOREM FailuresAreIsolated == Spec => []FailureStopsOneRunner
<1>1. IInv => FailureStopsOneRunner
  <2> SUFFICES ASSUME IInv, Busy = {}, NEW r \in Runners, runner[r] = "returned",
                      NEW i \in 0..(n - 1)
               PROVE  results[i] \/ \E s \in Threw : at[s] = i
    BY DEF FailureStopsOneRunner
  <2>1. nextIndex \in Nat /\ n \in 0..MaxItems
    BY DEF IInv, TypeOK
  <2>2. nextIndex >= n
    BY DEF IInv, EndInv
  <2>3. Holders = Threw
    BY DEF Holders
  <2> QED
    BY <2>1, <2>2, <2>3, MaxItemsAssumption DEF IInv, CoverInv
<1> QED
  BY <1>1, Inductive, PTL

-----------------------------------------------------------------------------
\* The items not begun, under the refinement mapping.
Todo == {i \in 0..(n - 1) : i >= nextIndex}
Doing == {at[r] : r \in Busy}
Failed == {at[r] : r \in Threw}

\* With limit(m) runners, the call begins as many items.
LEMMA CallMaps ==
  ASSUME IInv, NEW m \in 0..MaxItems, Call(m)
  PROVE  Map!Call(m)
<1> USE MaxItemsAssumption
<1>1. limit(m) \in 0..m /\ limit(m) <= Concurrency /\ m \in Nat /\ m <= MaxItems
  BY LimitIsPositive
<1>2. /\ outcome = "none"
      /\ at = [r \in Runners |-> r] /\ at' = at
      /\ results = [i \in Indices |-> FALSE] /\ results' = results
      /\ runner = [r \in Runners |-> "none"]
      /\ runner' = [r \in Runners |-> IF r < limit(m) THEN "busy" ELSE "none"]
      /\ nextIndex' = limit(m) /\ n' = m
  BY DEF Call, IInv, IdleInv
<1>3. Todo' = {i \in 0..(m - 1) : i >= limit(m)}
  BY <1>2 DEF Todo
<1>4. Doing' = 0..(limit(m) - 1)
  <2>1. Busy' = {r \in Runners : r < limit(m)}
    BY <1>2 DEF Busy
  <2>2. \A r \in Busy' : at'[r] = r
    BY <1>2, <2>1
  <2>3. Busy' = 0..(limit(m) - 1)
    BY <1>1, <2>1 DEF Runners
  <2> QED
    BY <2>2, <2>3 DEF Doing
<1>5. Todo' \cup Doing' = 0..(m - 1) /\ Todo' \cap Doing' = {}
  BY <1>1, <1>3, <1>4
<1>6. Cardinality(Doing') <= Concurrency
  <2>1. Cardinality(0..(limit(m) - 1)) = limit(m)
    BY <1>1, FS_Interval
  <2> QED
    BY <1>1, <1>4, <2>1
<1>7. Stored = {} /\ Stored' = {}
  BY <1>1, <1>2 DEF Stored, Indices, IInv, TypeOK
<1>8. Failed = {} /\ Failed' = {}
  BY <1>2 DEF Failed, Threw
<1>9. outcome' = IF m = 0 THEN "fulfilled" ELSE "pending"
  BY DEF Call
<1>10. (Todo \cup Doing)' = 0..(m - 1) /\ (Todo \cap Doing)' = {}
  BY <1>5
<1>11. Map!Cardinality(Doing') <= Concurrency
  BY <1>6 DEF Map!Cardinality, Cardinality
<1> QED
  BY <1>2, <1>7, <1>8, <1>9, <1>10, <1>11 DEF Map!Call, Todo, Doing, Failed

\* A worker that returns ends its item; the runner moves on or returns.
LEMMA ReturnMaps ==
  ASSUME IInv, NEW r \in Runners, WorkerReturns(r), NEW i, i = at[r]
  PROVE  Map!End(i)
<1> USE MaxItemsAssumption
<1>1. /\ runner[r] = "busy" /\ r \in Busy /\ r \in Holders
      /\ results' = [results EXCEPT ![at[r]] = TRUE]
      /\ nextIndex' = nextIndex + 1
      /\ outcome' = outcome /\ n' = n
  BY DEF WorkerReturns, TakeNext, Holders, Busy
<1>2. nextIndex \in Nat /\ n \in 0..MaxItems /\ at[r] \in Indices /\ at[r] < n
      /\ at[r] < nextIndex
  BY <1>1 DEF IInv, TypeOK, HoldInv
<1>3. \A s \in Holders : at[s] = at[r] => s = r
  BY <1>1 DEF IInv, HoldInv
<1>4. Stored' = Stored \cup {at[r]}
  BY <1>1, <1>2 DEF Stored, IInv, TypeOK, Indices
<1>5. at[r] \in Doing
  BY <1>1 DEF Doing
<1>6. CASE nextIndex < n
  <2>1. at' = [at EXCEPT ![r] = nextIndex] /\ runner' = runner
    BY <1>6 DEF WorkerReturns, TakeNext
  <2>2. Busy' = Busy /\ Threw' = Threw
    BY <2>1 DEF Busy, Threw
  <2>3. Failed' = Failed
    <3>1. \A s \in Threw : at'[s] = at[s]
      BY <1>1, <2>1 DEF Threw, IInv, TypeOK
    <3> QED
      BY <2>2, <3>1 DEF Failed
  <2>4. Doing' = (Doing \ {at[r]}) \cup {nextIndex}
    <3>1. at'[r] = nextIndex
      BY <2>1 DEF IInv, TypeOK
    <3>2. \A s \in Busy \ {r} : at'[s] = at[s] /\ at[s] # at[r]
      BY <1>3, <2>1 DEF IInv, TypeOK, Busy, Holders
    <3> QED
      BY <1>1, <2>2, <3>1, <3>2 DEF Doing
  <2>5. nextIndex \in Todo /\ Todo' = Todo \ {nextIndex}
    BY <1>1, <1>2, <1>6 DEF Todo
  <2> QED
    BY <1>1, <1>4, <1>5, <2>3, <2>4, <2>5 DEF Map!End, Todo, Doing, Failed
<1>7. CASE ~(nextIndex < n)
  <2>1. at' = at /\ runner' = [runner EXCEPT ![r] = "returned"]
    BY <1>7 DEF WorkerReturns, TakeNext
  <2>2. Busy' = Busy \ {r} /\ Threw' = Threw
    BY <1>1, <2>1 DEF Busy, Threw, IInv, TypeOK
  <2>3. Failed' = Failed
    BY <2>1, <2>2 DEF Failed
  <2>4. Doing' = Doing \ {at[r]}
    BY <1>3, <2>1, <2>2 DEF Doing, Holders
  <2>5. Todo' = Todo
    BY <1>1, <1>2, <1>7 DEF Todo
  <2> QED
    BY <1>1, <1>4, <1>5, <2>3, <2>4, <2>5 DEF Map!End, Todo, Doing, Failed
<1> QED
  BY <1>6, <1>7

\* A worker that throws ends its item and no other begins.
LEMMA ThrowMaps ==
  ASSUME IInv, NEW r \in Runners, WorkerThrows(r), NEW i, i = at[r]
  PROVE  Map!End(i)
<1>1. /\ runner[r] = "busy" /\ r \in Busy
      /\ runner' = [runner EXCEPT ![r] = "threw"]
      /\ outcome' = outcome /\ n' = n /\ nextIndex' = nextIndex
      /\ at' = at /\ results' = results
  BY DEF WorkerThrows, Busy
<1>2. Busy' = Busy \ {r} /\ Threw' = Threw \cup {r}
  BY <1>1 DEF Busy, Threw, IInv, TypeOK
<1>3. \A s \in Busy : at[s] = at[r] => s = r
  BY <1>1 DEF IInv, HoldInv, Holders
<1>4. Doing' = Doing \ {at[r]}
  BY <1>1, <1>2, <1>3 DEF Doing
<1>5. Failed' = Failed \cup {at[r]}
  BY <1>1, <1>2 DEF Failed
<1>6. Todo' = Todo /\ Stored' = Stored
  BY <1>1 DEF Todo, Stored
<1>7. at[r] \in Doing
  BY <1>1 DEF Doing
<1> QED
  BY <1>1, <1>4, <1>5, <1>6, <1>7 DEF Map!End, Todo, Doing, Failed

\* The promise settles as the abstract list does.
LEMMA SettleMaps ==
  ASSUME IInv, Fulfill \/ Reject
  PROVE  Map!Fulfill \/ Map!Reject
<1>1. CASE Fulfill
  <2>1. Busy = {} /\ Threw = {} /\ outcome' = "fulfilled"
        /\ n' = n /\ nextIndex' = nextIndex /\ results' = results
        /\ at' = at /\ runner' = runner
    BY <1>1 DEF Fulfill
  <2>2. IInv'
    BY <1>1, SettleStep
  <2>3. nextIndex >= n
    BY <2>1, <2>2 DEF IInv, EndInv
  <2>4. Todo = {}
    BY <2>3, MaxItemsAssumption DEF Todo, IInv, TypeOK
  <2>5. Doing = {} /\ Failed = {}
    BY <2>1 DEF Doing, Failed
  <2>6. Todo' = Todo /\ Doing' = Doing /\ Failed' = Failed /\ Stored' = Stored
    BY <2>1 DEF Todo, Doing, Failed, Stored, Busy, Threw
  <2> QED
    BY <1>1, <2>1, <2>4, <2>5, <2>6 DEF Fulfill, Map!Fulfill, Todo, Doing, Failed
<1>2. CASE Reject
  <2>1. Failed # {}
    BY <1>2 DEF Reject, Failed
  <2>2. Todo' = Todo /\ Doing' = Doing /\ Failed' = Failed /\ Stored' = Stored
    BY <1>2 DEF Reject, Todo, Doing, Failed, Stored, Busy, Threw
  <2> QED
    BY <1>2, <2>1, <2>2 DEF Reject, Map!Reject, Todo, Doing, Failed
<1> QED
  BY <1>1, <1>2

\* The runners and their shared index implement a parallel map: each item begun
\* once, no more than Concurrency at a time, failures confined to their item.
THEOREM Refinement == Spec => ImplementsMap
<1>1. Init => Map!Init
  <2> SUFFICES ASSUME Init PROVE Map!Init
    OBVIOUS
  <2>1. Busy = {} /\ Threw = {}
    BY DEF Init, Busy, Threw
  <2>2. 0..(n - 1) = {}
    BY DEF Init
  <2> QED
    BY <2>1, <2>2 DEF Init, Map!Init, Stored
<1>2. IInv /\ [Next]_vars => [Map!Next]_Map!vars
  <2> SUFFICES ASSUME IInv, [Next]_vars PROVE [Map!Next]_Map!vars
    OBVIOUS
  <2>1. CASE UNCHANGED vars
    BY <2>1 DEF vars, Map!vars, Stored, Busy, Threw
  <2>2. \A r \in Runners : at[r] \in 0..(MaxItems - 1)
    BY DEF IInv, TypeOK, Indices
  <2>3. ASSUME NEW m \in 0..MaxItems, Call(m) PROVE Map!Next
    BY <2>3, CallMaps DEF Map!Next
  <2>4. ASSUME NEW r \in Runners, WorkerReturns(r) \/ WorkerThrows(r) PROVE Map!Next
    <3>1. PICK i \in 0..(MaxItems - 1) : i = at[r]
      BY <2>2
    <3>2. Map!End(i)
      BY <2>4, <3>1, ReturnMaps, ThrowMaps
    <3> QED
      BY <3>2 DEF Map!Next
  <2>5. CASE Fulfill \/ Reject
    BY <2>5, SettleMaps DEF Map!Next
  <2> QED
    BY <2>1, <2>3, <2>4, <2>5 DEF Next, Finished
<1> QED
  BY <1>1, <1>2, Inductive, PTL DEF Spec, ImplementsMap, Map!Spec
=============================================================================
