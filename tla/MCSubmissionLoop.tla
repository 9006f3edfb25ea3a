-------------------------- MODULE MCSubmissionLoop --------------------------
(* Instances of SubmissionLoop for TLC. *)
EXTENDS SubmissionLoop, TLC

\* No definition tells one key, one tab or one desk from another.
Symmetry == Permutations(Keys) \cup Permutations(Tabs) \cup Permutations(Desks)
=============================================================================
