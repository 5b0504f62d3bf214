----------------------------- MODULE MCDiscovery -----------------------------
(***************************************************************************)
(* The instances of Discovery that TLC checks: two overlapping requests,   *)
(* an hour shrunk to two units and a fetch of up to one, and the           *)
(* configurations that differ in what they announce.                       *)
(***************************************************************************)
EXTENDS Discovery

CONSTANTS r1, r2, home, guest, other, domain, token

TwoRequests == {r1, r2}
ThreeTenants == {home, guest, other}
AllNames == ThreeTenants \cup {domain}
Denotes == [n \in AllNames |-> IF n = domain THEN home ELSE n]
OneToken == {token}

Base ==
  [tenantId |-> home, clientId |-> TRUE, secret |-> TRUE, trusted |-> {}, allowAny |-> FALSE,
   dcrToken |-> token, dcrOpen |-> FALSE, scopes |-> {}]

\* One tenant, by GUID and by domain; a guest tenant besides; any tenant; and without
\* a tenant, a client id or a secret.
ManyConfigs ==
  {[Base EXCEPT !.tenantId = n, !.trusted = T] : n \in {home, domain}, T \in {{}, {home}, {guest}}}
    \cup {[Base EXCEPT !.allowAny = TRUE, !.dcrToken = None, !.dcrOpen = open] : open \in BOOLEAN}
    \cup {[Base EXCEPT !.secret = FALSE, !.scopes = {"User.Read"}],
          [Base EXCEPT !.tenantId = None], [Base EXCEPT !.clientId = FALSE]}

\* The configured tenant is given by its domain, as the comments allow.
DomainConfigs == {[Base EXCEPT !.tenantId = domain]}
=============================================================================
