CONSTANTS
  Contexts = {c}
  Roots = {r}
  Subs = {s}
  Outsider = Outsider
  Garbage = Garbage
  None = None
  Unlocked = {c}
SPECIFICATION Spec
PROPERTY ExecutesOnlyGiven
CHECK_DEADLOCK FALSE
