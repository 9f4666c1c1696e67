---------------------------- MODULE MCAuditTrail ----------------------------
(***************************************************************************)
(* AuditTrail on a small instance: two requests of one organization, from  *)
(* the same account and client, on a route with two limits, and one of     *)
(* another organization on a route with none.                              *)
(***************************************************************************)
EXTENDS AuditTrail

CONSTANTS r1, r2, r3, t1, t2, a1, k1

RoutePolicies == [r \in Requests |-> IF r = r3 THEN <<>> ELSE <<"account", "client">>]
RequestKeys == [account |-> [r \in Requests |-> a1], client |-> [r \in Requests |-> k1]]
RouteLimits == [account |-> 1, client |-> 1]
RequestTenants == r1 :> t1 @@ r2 :> t1 @@ r3 :> t2
ClockLags == <<0, 1>>

=============================================================================
