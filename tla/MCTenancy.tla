------------------------------- MODULE MCTenancy -------------------------------
(* Two small tenants for TLC: alpha with a quota of 2, beta with a task of    *)
(* three phases and a quota of all it pins.                                   *)
EXTENDS Tenancy, TLC

CONSTANTS shared, a1, a2, a3, b1, b2, b3, b4

Lockfiles == ("alpha" :> {shared, a1, a2, a3}) @@ ("beta" :> {shared, b1, b2, b3, b4})
Quotas == ("alpha" :> 2) @@ ("beta" :> 5)
OthersKey == ("alpha" :> b1) @@ ("beta" :> a1)
WantedByAlpha == <<a1, a2, a3>>
BetaTask == <<[key |-> b1, phase |-> 1], [key |-> b2, phase |-> 1], [key |-> b3, phase |-> 2], [key |-> b4, phase |-> 3]>>
\* The public list, and one that names a tenant twice.
TenantLists == {Public, <<"alpha", "beta", "alpha">>}
=============================================================================
