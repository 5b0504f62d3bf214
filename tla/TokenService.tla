---------------------------- MODULE TokenService ----------------------------
(***************************************************************************)
(* What a source of ServiceNow access tokens promises to the code that     *)
(* awaits it, whichever way it obtains its tokens: a call is answered, at  *)
(* once or later, with a failure or with a token that belongs to the       *)
(* principal the call was made for and that stays valid long enough for    *)
(* the REST call it is about to authenticate.  TokenManager and            *)
(* OboTokenService implement this module; nothing here says how tokens are *)
(* cached, who asks for them or how many requests are made.                *)
(***************************************************************************)
EXTENDS Integers

CONSTANTS
  Callers,      \* calls of the service that can be pending at once
  Principals,   \* whom a call can be made for
  UsableFor,    \* how long an answered token still lives, at least
  Failed,       \* the answer of a call that was rejected
  Nobody        \* the principal of a call that is not pending

VARIABLES
  now,        \* the clock of the process
  pc,         \* per call: "idle", "waiting" for its promise, "done" (settled)
  principal,  \* per call: whom it is made for
  answer      \* per call: what it was answered with

vars == <<now, pc, principal, answer>>

\* A token says whose it is and until when the server that issued it accepts it.
Token == [owner : Principals, validUntil : Int]

\* What a call made for p at this moment may be answered with.
Acceptable(a, p) ==
  \/ a = Failed
  \/ a \in Token /\ a.owner = p /\ a.validUntil >= now + UsableFor

Init ==
  /\ now = 0
  /\ pc = [c \in Callers |-> "idle"]
  /\ principal = [c \in Callers |-> Nobody]
  /\ answer = [c \in Callers |-> Failed]

\* A call that cannot be answered at once starts to wait.
Ask(c, p) ==
  /\ pc[c] = "idle"
  /\ pc' = [pc EXCEPT ![c] = "waiting"]
  /\ principal' = [principal EXCEPT ![c] = p]
  /\ UNCHANGED <<now, answer>>

\* A call is answered at once.
AnswerAtOnce(c, p) ==
  /\ pc[c] = "idle"
  /\ pc' = [pc EXCEPT ![c] = "done"]
  /\ principal' = [principal EXCEPT ![c] = p]
  /\ answer' = [answer EXCEPT ![c] = answer'[c]]
  /\ Acceptable(answer'[c], p)
  /\ UNCHANGED now

\* Some of the waiting calls are answered together.
Settle(S) ==
  /\ \A c \in S : pc[c] = "waiting" /\ Acceptable(answer'[c], principal[c])
  /\ pc' = [c \in Callers |-> IF c \in S THEN "done" ELSE pc[c]]
  /\ answer' = [c \in Callers |-> IF c \in S THEN answer'[c] ELSE answer[c]]
  /\ UNCHANGED <<now, principal>>

\* The code that made the call goes on with its answer.
Resume(c) ==
  /\ pc[c] = "done"
  /\ pc' = [pc EXCEPT ![c] = "idle"]
  /\ principal' = [principal EXCEPT ![c] = Nobody]
  /\ answer' = [answer EXCEPT ![c] = Failed]
  /\ UNCHANGED now

\* Time passes, but not while an answer has yet to be consumed.
Tick ==
  /\ \A c \in Callers : pc[c] # "done"
  /\ now' = now + 1
  /\ UNCHANGED <<pc, principal, answer>>

Next ==
  \/ \E c \in Callers, p \in Principals : Ask(c, p) \/ AnswerAtOnce(c, p)
  \/ \E S \in SUBSET Callers : Settle(S)
  \/ \E c \in Callers : Resume(c)
  \/ Tick

Spec == Init /\ [][Next]_vars
=============================================================================
