CONSTANTS
  Threads = {th1, th2}
  Tasks = {a, b}
  Mutexes = {m}
  Sems = {}
  Procs = {k}
  None = None
  UsizeMax = 255
  CommitBound = 2
  OwnedBound = 1
  Takings = {}
  Debug = FALSE
  OwnersOnly = TRUE
SPECIFICATION Spec
PROPERTIES
  UnlockHandsOver
SYMMETRY Symmetry
CHECK_DEADLOCK FALSE
