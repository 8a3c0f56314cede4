SPECIFICATION FairSpec
CONSTANTS
  PageSize = 4096
  Pages = {17, 18}
  MprotectOutcomes = {TRUE}
  ReallocOutcomes = {TRUE, FALSE}
  FullLengths = {1}
  Sites <- GoodSites
  Length <- GoodLength
  Plain <- GoodSites
  Tested = {"f", "g"}
  Span <- GoodSpan
  Mode = 64
  Callees <- MCCallees
  Natives <- MCNatives
  Images <- GoodImages
  Entry <- MCEntry
  OffsetMax = 32767
  LowMax = 65535
  MockDefs <- GoodDefs
  None = None
  Mocks = {1, 2, 3}
  AllocOutcomes = {TRUE}
  Tests = {1, 2}
  Results = {"PASSED"}
  UserPoints = {"main", "function"}
  Relist = FALSE
  MaxSuite = 2
  MaxMocks = 3
  MaxRuns = 1
INVARIANTS
  CleanBetweenTests
  NoFault
  FirstCallsDiverted
  CleanupClosesAll
  IInv
PROPERTIES
  IsolationKept
  RestoreUndoesApply
  RunEnds
CHECK_DEADLOCK FALSE
