SPECIFICATION Spec
CONSTANTS
  Items = {x, y}
  Null = Null
  Garbage = Garbage
  First = 2
  EmptyOutcomes = {TRUE, FALSE}
  ReallocOutcomes = {TRUE}
  MaxLength = 3
INVARIANT ExitsOnlyOnFailure
CHECK_DEADLOCK FALSE
