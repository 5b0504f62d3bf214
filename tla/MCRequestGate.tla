---------------------------- MODULE MCRequestGate ----------------------------
(***************************************************************************)
(* The instance of RequestGate that TLC checks: two overlapping requests   *)
(* of two users in two tenants, whose tokens are acceptable or have one    *)
(* defect, under each kind of configuration.                               *)
(***************************************************************************)
EXTENDS RequestGate

CONSTANTS r1, r2, home, guest, alice, bob

TwoRequests == {r1, r2}
TwoTenants == {home, guest}
TwoUsers == {alice, bob}
SomeAudiences == {"clientId", "override", "other"}
OwnAudiences == {"clientId"}

Issued(t, u) ==
  [readable |-> TRUE, tid |-> t, signedBy |-> t, exp |-> 1, nbf |-> 0, iss |-> t,
   aud |-> {"clientId"}, user |-> u]
OfAlice == Issued(home, alice)
OfBob == [Issued(guest, bob) EXCEPT !.nbf = None, !.aud = {"other", "override"}]
Defective ==
  {[OfAlice EXCEPT !.readable = FALSE], [OfAlice EXCEPT !.signedBy = guest],
   [OfAlice EXCEPT !.exp = None], [OfAlice EXCEPT !.exp = 0], [OfAlice EXCEPT !.nbf = 2],
   [OfAlice EXCEPT !.iss = None], [OfAlice EXCEPT !.iss = guest],
   [OfAlice EXCEPT !.aud = {"other"}]}

Post(route, token, snToken) ==
  [route |-> route, method |-> "POST", body |-> TRUE, token |-> token, snToken |-> snToken]

SomeInputs ==
  {Post("mcp", t, None) : t \in Defective \cup {OfAlice, OfBob, None}}
  \cup {Post("catalog", OfAlice, None), Post("mcp", OfAlice, alice), Post("catalog", OfBob, bob)}
  \cup {[Post(route, OfAlice, None) EXCEPT !.body = FALSE] : route \in {"mcp", "catalog"}}
  \cup {[Post(route, t, None) EXCEPT !.method = "GET"] :
          route \in {"mcp", "catalog"}, t \in {OfAlice, None}}
  \cup {[Post("mcp", None, None) EXCEPT !.method = "PUT"]}

Single == [disabled |-> FALSE, complete |-> TRUE, trusted |-> {}, allowAny |-> FALSE,
           audience |-> "override", allowed |-> {}]
SomeConfigs ==
  {Single, [Single EXCEPT !.trusted = {guest}],
   [Single EXCEPT !.allowAny = TRUE, !.audience = None, !.allowed = {"other"}],
   [Single EXCEPT !.complete = FALSE], [Single EXCEPT !.disabled = TRUE]}
=============================================================================
