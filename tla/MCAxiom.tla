------------------------------ MODULE MCAxiom ------------------------------
(* AXIOM for TLC. *)
EXTENDS Axiom
=============================================================================
