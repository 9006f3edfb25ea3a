---------------------------- MODULE MCCourseRoster ----------------------------
(* Instances of CourseRoster for TLC. *)
EXTENDS CourseRoster, TLC

CONSTANTS c1, c2, a1, a2, b1
TwoCourses == a1 :> c1 @@ a2 :> c1 @@ b1 :> c2

SomePatches == {[limit |-> 1, expires |-> 1, disabled |-> None],
                [limit |-> None, expires |-> None, disabled |-> TRUE]}

Symmetry == Permutations(Codes) \cup Permutations(Students) \cup Permutations(Groups)
              \cup Permutations(Workers)
=============================================================================
