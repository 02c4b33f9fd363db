----------------------- MODULE MCProfileActivation -----------------------
(* Instances of ProfileActivation for TLC. *)
EXTENDS ProfileActivation, TLC

CONSTANTS a1, a2, b1, c1, ga, gb, gc, s1, s2, s3

\* Two builds under one generation id, and two under ids of their own.
Builds == (a1 :> ga) @@ (a2 :> ga) @@ (b1 :> gb) @@ (c1 :> gc)
Rebuilds == (a1 :> ga) @@ (a2 :> ga)
=============================================================================
