CONSTANTS
  Contexts = {c1, c2}
  Roots = {r}
  Subs = {s}
  Outsider = Outsider
  Garbage = Garbage
  None = None
  Unlocked = {c1}
SPECIFICATION Spec
INVARIANTS
  TypeOK
  FreeListExact
  NothingGivenIsLost
  RootsRecycledOnce
  WildHasCause
  PoolInv
PROPERTIES
  AbortStops
  PoolImplemented
CHECK_DEADLOCK FALSE
