---------------------------- MODULE ParallelMap ----------------------------
(***************************************************************************)
(* What applying an asynchronous worker to every item of a list promises,  *)
(* however the work is spread: items are begun at most once, only so many  *)
(* are worked on at a time, and the promise of the whole list is fulfilled *)
(* when every item has been worked on and rejected only if some item       *)
(* failed.  Items that fail do not take others down with them.             *)
(***************************************************************************)
EXTENDS Integers, FiniteSets

CONSTANTS
  MaxItems,     \* the longest list
  Concurrency   \* how many items may be worked on at a time

VARIABLES
  outcome,   \* of the list: "none" before the call, "pending", "fulfilled", "rejected"
  todo,      \* items not begun
  doing,     \* items being worked on
  done,      \* items whose worker returned
  failed     \* items whose worker threw

vars == <<outcome, todo, doing, done, failed>>

Init ==
  /\ outcome = "none"
  /\ todo = {} /\ doing = {} /\ done = {} /\ failed = {}

\* The function is called with m items; work on some of them begins.
Call(m) ==
  /\ outcome = "none"
  /\ todo' \cup doing' = 0..(m - 1)
  /\ todo' \cap doing' = {}
  /\ Cardinality(doing') <= Concurrency
  /\ outcome' = IF m = 0 THEN "fulfilled" ELSE "pending"
  /\ UNCHANGED <<done, failed>>

\* Work on item i ends, and its worker may move on to an item not yet begun.
End(i) ==
  /\ i \in doing
  /\ \/ done' = done \cup {i} /\ UNCHANGED failed
     \/ failed' = failed \cup {i} /\ UNCHANGED done
  /\ \/ todo' = todo /\ doing' = doing \ {i}
     \/ \E j \in todo : todo' = todo \ {j} /\ doing' = (doing \ {i}) \cup {j}
  /\ UNCHANGED outcome

Fulfill ==
  /\ outcome = "pending"
  /\ todo = {} /\ doing = {} /\ failed = {}
  /\ outcome' = "fulfilled"
  /\ UNCHANGED <<todo, doing, done, failed>>

Reject ==
  /\ outcome = "pending"
  /\ failed # {}
  /\ outcome' = "rejected"
  /\ UNCHANGED <<todo, doing, done, failed>>

Next ==
  \/ \E m \in 0..MaxItems : Call(m)
  \/ \E i \in 0..(MaxItems - 1) : End(i)
  \/ Fulfill
  \/ Reject

Spec == Init /\ [][Next]_vars
=============================================================================
