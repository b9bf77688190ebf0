----------------------------- MODULE MCFailover -----------------------------
(* Instances of Failover: concurrent requests over two providers of one key each. *)
EXTENDS Failover, TLC

CONSTANTS k1, k2, p1, p2, m1

MCProviderOf == (k1 :> p1) @@ (k2 :> p2)

\* The order the planner gives: k1 is tried first.
MCOrders == {(<<k1, m1>> :> 1) @@ (<<k2, m1>> :> 2)}

Slots == Permutations(Requests)
=============================================================================
