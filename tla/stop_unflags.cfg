CONSTANTS
  Threads = {th1}
  Tasks = {a, b, c}
  Mutexes = {m}
  Sems = {s}
  Procs = {k}
  None = None
  UsizeMax = 255
  CommitBound = 2
  OwnedBound = 1
  Takings = {1}
  Debug = TRUE
  OwnersOnly = FALSE
SPECIFICATION Spec
PROPERTIES
  ModifiedTreeFlagged
SYMMETRY Symmetry
CHECK_DEADLOCK FALSE
