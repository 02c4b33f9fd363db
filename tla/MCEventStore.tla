---------------------------- MODULE MCEventStore ----------------------------
(* Instances of EventStore for TLC. *)
EXTENDS EventStore, TLC

Symmetry == Permutations(Matters) \cup Permutations(AppendIds)
                \cup Permutations(EventIds)
=============================================================================
