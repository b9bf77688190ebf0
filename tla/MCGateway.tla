------------------------------ MODULE MCGateway ------------------------------
(* Instances of Gateway. *)
EXTENDS Gateway, TLC

\* No liveness is checked, and connections are alike.
Symmetry == Permutations(Requests)
=============================================================================
