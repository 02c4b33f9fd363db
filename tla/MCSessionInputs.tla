--------------------------- MODULE MCSessionInputs ---------------------------
(* Small instances of SessionInputs.  Handlers and unbound sessions are         *)
(* interchangeable; the session bound at the start, when there is one, is not.  *)
EXTENDS SessionInputs, TLC

Symmetry == Permutations(Calls) \cup Permutations(Sessions \ Bound)
=============================================================================
