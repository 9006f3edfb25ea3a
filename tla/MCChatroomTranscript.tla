------------------------- MODULE MCChatroomTranscript -------------------------
(* Instances of ChatroomTranscript for TLC. *)
EXTENDS ChatroomTranscript, TLC

Symmetry == Permutations(Posts)

\* Without selects as SelectSeq does.
ASSUME WithoutSelects ==
  \A n \in 0..4 : \A s \in [1..n -> 1..3], gone \in SUBSET (1..3) :
    Without(s, gone) = SelectSeq(s, LAMBDA x : x \notin gone)
=============================================================================
