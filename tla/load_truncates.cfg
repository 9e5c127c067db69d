CONSTANTS
  Word = 32
  Field = 8
  Images <- SmallImages
  BadName = BadName
  Absent = Absent
SPECIFICATION Spec
INVARIANTS
  StoredReachesTarget
CHECK_DEADLOCK FALSE
