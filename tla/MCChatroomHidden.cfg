SPECIFICATION Spec
CONSTANTS
  Tabs = {s1, t1}
  TeacherTabs = {t1}
  Posts = {p1, p2}
  Moderators = {d1}
  MaxMessages = 2
  MaxAttempts = 2
  MaxVerdicts = 2
SYMMETRY Symmetry
PROPERTIES
  HiddenLeavesScreen
CHECK_DEADLOCK FALSE
