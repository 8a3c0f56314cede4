SPECIFICATION Spec
CONSTANTS
  Items = {x, y}
  Null = Null
  Garbage = Garbage
  First = 2
  EmptyOutcomes = {TRUE, FALSE}
  ReallocOutcomes = {TRUE, FALSE}
  MaxLength = 3
INVARIANTS
  DynaTypeOK
  NullExplained
PROPERTIES
  ListKept
  ForwardVisitsAll
  BackwardVisitsAll
CHECK_DEADLOCK FALSE
