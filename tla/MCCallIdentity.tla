--------------------------- MODULE MCCallIdentity ---------------------------
(***************************************************************************)
(* The instance of CallIdentity that TLC checks: one operation of either   *)
(* caller, in every context and under every configuration.  Operations     *)
(* share no state here, so one of them shows all there is.                 *)
(***************************************************************************)
EXTENDS CallIdentity

CONSTANTS op, alice, bob

OneOp == {op}
TwoUsers == {alice, bob}
=============================================================================
