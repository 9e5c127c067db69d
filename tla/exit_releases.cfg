CONSTANTS
  Threads = {th1}
  Tasks = {a}
  Mutexes = {m}
  Sems = {}
  Procs = {k}
  None = None
  UsizeMax = 255
  CommitBound = 2
  OwnedBound = 1
  Takings = {}
  Debug = FALSE
  OwnersOnly = TRUE
SPECIFICATION Spec
PROPERTIES
  ExitReleasesOverrides
CHECK_DEADLOCK FALSE
