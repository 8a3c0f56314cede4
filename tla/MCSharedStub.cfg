SPECIFICATION Spec
CONSTANTS
  PageSize = 4096
  Pages = {17, 18}
  MprotectOutcomes = {TRUE}
  ReallocOutcomes = {TRUE}
  FullLengths = {0, 2}
  Sites <- GoodSites
  Length <- GoodLength
  Plain <- GoodSites
  Tested = {"f", "g"}
  Span <- GoodSpan
  Mode = 32
  Callees <- MCCallees
  Natives <- MCNatives
  Images <- GoodImages
  Entry <- MCEntry
  OffsetMax = 131071
  LowMax = 65535
  MockDefs <- SharedStubDefs
  None = None
  Mocks = {1, 2}
  AllocOutcomes = {TRUE}
  Tests = {1}
  Results = {"PASSED"}
  UserPoints = {"main", "function"}
  Relist = FALSE
  MaxSuite = 2
  MaxMocks = 2
  MaxRuns = 1
INVARIANT CleanBetweenTests
CHECK_DEADLOCK FALSE
