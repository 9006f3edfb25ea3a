SPECIFICATION Spec
CONSTANTS
  c1 = c1
  c2 = c2
  a1 = a1
  a2 = a2
  b1 = b1
  Courses = {c1, c2}
  Classes = {a1, a2, b1}
  Codes = {k1, k2}
  Students = {s1, s2}
  Groups = {g1, g2}
  Workers = {w1, w2}
  CourseOf <- TwoCourses
  Patches <- SomePatches
  MaxAttempts = 2
  MaxRequests = 3
  None = None
SYMMETRY Symmetry
INVARIANTS
  CodeNamesOneClass
  RosterAgrees
PROPERTIES
  JoinsMeetPolicy
CHECK_DEADLOCK FALSE
