---------------------------- MODULE MCHostPipes ----------------------------
(* HostPipes with a few streams. *)
EXTENDS HostPipes
=============================================================================
