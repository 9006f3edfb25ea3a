--------------------------- MODULE MCLearningOutbox ---------------------------
(* Instances of LearningOutbox for TLC. *)
EXTENDS LearningOutbox, TLC

Symmetry == Permutations(Rows) \cup Permutations(Dispatches)
=============================================================================
