SPECIFICATION Spec
CONSTANTS
  PageSize = 4096
  Pages = {17, 18}
  MprotectOutcomes = {TRUE, FALSE}
  ReallocOutcomes = {TRUE}
  FullLengths = {0, 2}
  Sites <- HardSites
  Length <- HardLength
  Plain <- HardSites
  Tested = {"f", "g"}
  Span <- HardSpan
  Mode = 64
  Callees <- HardCallees
  Natives <- MCNatives
  Images <- HardImages
  Entry <- HardEntry
  OffsetMax = 32767
  LowMax = 65535
  MockDefs <- HardDefs
  None = None
  Mocks = {1, 2}
  AllocOutcomes = {TRUE, FALSE}
  Tests = {1, 2}
  Results = {"PASSED", "FAILED"}
  UserPoints = {"main", "teardown"}
  Relist = TRUE
  MaxSuite = 2
  MaxMocks = 2
  MaxRuns = 2
INVARIANTS
  MisuseInv
  OpenPagesListed
  CalleesConserved
  IsolatedIfStubsOwned
  NullCallExplained
  UnwritableExplained
  SecondUseExplained
  PassedExact
PROPERTY AlignedCallsWritable
CHECK_DEADLOCK FALSE
