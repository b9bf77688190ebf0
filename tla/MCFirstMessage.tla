--------------------------- MODULE MCFirstMessage ---------------------------
(* FirstMessage with the code's own durations, in seconds, for one request. *)
EXTENDS FirstMessage, TLC

CONSTANTS k1, k2, p1, p2, m1

MCProviderOf == (k1 :> p1) @@ (k2 :> p2)

MCOrders == {(<<k1, m1>> :> 1) @@ (<<k2, m1>> :> 2)}
=============================================================================
