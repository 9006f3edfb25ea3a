--------------------------- MODULE MCRecordRetention ---------------------------
(* Instances of RecordRetention for TLC. *)
EXTENDS RecordRetention, TLC

Symmetry == Permutations(Commands) \cup Permutations(Writers) \cup Permutations(Owners)
=============================================================================
