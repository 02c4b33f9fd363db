-------------------------- MODULE MCBusinessMatter --------------------------
(* A small matter for TLC.  Identities are interchangeable, so each kind is  *)
(* a symmetry set; roles are not, the responsible one being named.           *)
EXTENDS BusinessMatter, TLC

Symmetry == Permutations(Revisions) \cup Permutations(Scopes)
            \cup Permutations(Decisions) \cup Permutations(Attempts)
            \cup Permutations(Artifacts) \cup Permutations(Receipts)
=============================================================================
