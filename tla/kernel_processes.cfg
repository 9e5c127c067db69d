CONSTANTS
  Threads = {th1}
  Tasks = {a, b}
  Mutexes = {m}
  Sems = {s}
  Procs = {k, l}
  None = None
  UsizeMax = 2
  CommitBound = 2
  OwnedBound = 1
  Takings = {1}
  Debug = FALSE
  OwnersOnly = FALSE
SPECIFICATION Spec
INVARIANTS
  IdleWhileCommitOpen
  RunningIsSchedulable
  ActivesExact
  TasksCounted
  StoppedExact
  OverrideExact
SYMMETRY Symmetry
CHECK_DEADLOCK FALSE
