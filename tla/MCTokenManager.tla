--------------------------- MODULE MCTokenManager ---------------------------
(***************************************************************************)
(* The instance of TokenManager that TLC checks: three overlapping calls,  *)
(* and tokens whose lifetimes lie on and above the boundary of the 30 s    *)
(* floor.                                                                  *)
(***************************************************************************)
EXTENDS TokenManager

CONSTANTS c1, c2, c3, integrationUser

ThreeCallers == {c1, c2, c3}

\* 60 s is the shortest lifetime for which the margin is taken off whole.
LongLifetimes == {6, 7}
=============================================================================
