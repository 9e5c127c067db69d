CONSTANTS
  Threads = {th1, th2}
  Tasks = {a, b}
  Mutexes = {m}
  Sems = {s}
  Procs = {k}
  None = None
  UsizeMax = 255
  CommitBound = 2
  OwnedBound = 2
  Takings = {1, 2}
  Debug = TRUE
  OwnersOnly = TRUE
SPECIFICATION Spec
INVARIANTS
  TypeOK
  HistoryExact
  RunningIsSchedulable
  IdleWhileCommitOpen
  ThreadInv
  ActivesExact
  StoppedExact
  FlagsClimb
  GraphInv
  MutexExclusion
  SemTakersCounted
  NoLostWakeup
  OwnerCounterCovers
  LockInv
PROPERTIES
  NoPreemptionOutsideCommit
  OnlyItselfLeavesActives
  LockNotStolen
  LocksImplemented
SYMMETRY Symmetry
CHECK_DEADLOCK FALSE
