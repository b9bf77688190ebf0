---------------------------- MODULE MCFailoverOne ----------------------------
(* Instances of Failover with one slot, two providers, and two keys on the first. *)
EXTENDS Failover, TLC

CONSTANTS k1, k2, k3, p1, p2, m1, m2

MCProviderOf == (k1 :> p1) @@ (k2 :> p1) @@ (k3 :> p2)

\* The other provider's key comes after, or between, the two that share one; and the name stands for
\* two models of the first provider, and is served by k1 for both.
MCOrders ==
    {(<<k1, m1>> :> 1) @@ (<<k2, m1>> :> 2) @@ (<<k3, m1>> :> 3),
     (<<k1, m1>> :> 1) @@ (<<k2, m1>> :> 3) @@ (<<k3, m1>> :> 2),
     (<<k1, m1>> :> 1) @@ (<<k1, m2>> :> 2) @@ (<<k3, m1>> :> 3)}
=============================================================================
