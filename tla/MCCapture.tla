----------------------------- MODULE MCCapture -----------------------------
(* The capture queue for TLC. *)
EXTENDS Capture
=============================================================================
