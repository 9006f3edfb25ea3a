-------------------------- MODULE MCSubmissionRefinement --------------------------
(* Instances of SubmissionRefinement for TLC. *)
EXTENDS SubmissionRefinement, TLC

\* No definition tells one key, one tab or one desk from another.
Symmetry == Permutations(Keys) \cup Permutations(Tabs) \cup Permutations(Desks)
=============================================================================
