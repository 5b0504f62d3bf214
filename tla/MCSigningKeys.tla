--------------------------- MODULE MCSigningKeys ---------------------------
(***************************************************************************)
(* The instance of SigningKeys that TLC checks: two tenants that use the   *)
(* same key id, an hour shrunk to two units and a fetch of up to one, so   *)
(* that entries expire, keys rotate while responses are on their way, and  *)
(* responses overtake one another.                                         *)
(***************************************************************************)
EXTENDS SigningKeys, TLC

CONSTANTS v1, v2, home, guest, kid

TwoValidations == {v1, v2}
TwoTenants == {home, guest}
OneKid == {kid}

\* Neither the validations nor the tenants are distinguished from one another.
ValidationAndTenantSymmetry == Permutations(TwoValidations) \cup Permutations(TwoTenants)
=============================================================================
