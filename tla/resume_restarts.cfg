CONSTANTS
  Threads = {th1}
  Tasks = {a}
  Mutexes = {}
  Sems = {}
  Procs = {k}
  None = None
  UsizeMax = 255
  CommitBound = 2
  OwnedBound = 1
  Takings = {}
  Debug = FALSE
  OwnersOnly = TRUE
SPECIFICATION Spec
PROPERTIES
  ResumeRestartsTasks
CHECK_DEADLOCK FALSE
