CONSTANTS
  Word = 32
  Field = 8
  Images <- SmallImages
  BadName = BadName
  Absent = Absent
SPECIFICATION FairSpec
INVARIANTS
  TypeOK
  SymbolsPlacedOnce
  QueriesAnswered
  RelocatedPrefix
  FitsAccepted
  NearReached
  LoadInv
PROPERTIES
  LoadEnds
CHECK_DEADLOCK FALSE
