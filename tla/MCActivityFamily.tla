--------------------------- MODULE MCActivityFamily ---------------------------
(* Instances of ActivityFamily for TLC. *)
EXTENDS ActivityFamily, TLC

Symmetry == Permutations(Editors) \cup Permutations(Publishers)
=============================================================================
