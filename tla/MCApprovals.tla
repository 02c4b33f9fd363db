---------------------------- MODULE MCApprovals ----------------------------
(* Approvals with a few waits and handlers, any of which may stand for another. *)
EXTENDS Approvals, TLC

Alike == Permutations(Waits) \cup Permutations(Calls)
=============================================================================
