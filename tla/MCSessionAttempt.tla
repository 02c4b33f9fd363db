-------------------------- MODULE MCSessionAttempt --------------------------
(* Instances of SessionAttempt for TLC: requests are model values, one to   *)
(* three of them under way, and one fault at most.                          *)
EXTENDS SessionAttempt
=============================================================================
