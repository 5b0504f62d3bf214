-------------------------- MODULE MCOboTokenService --------------------------
(***************************************************************************)
(* The instance of OboTokenService that TLC checks: overlapping calls of   *)
(* two users, exchanges that take up to 10 s, and a token lifetime of      *)
(* 60 s, the shortest for which the 30 s of early refresh are kept whole.  *)
(***************************************************************************)
EXTENDS OboTokenService

CONSTANTS c1, c2, alice, bob

TwoCallers == {c1, c2}
TwoUsers == {alice, bob}
ShortestLong == {6}
=============================================================================
