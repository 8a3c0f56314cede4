SPECIFICATION Spec
CONSTANTS
  Archs = {"arm", "thumb", "aarch64"}
  ArmField = 16
  ArmLimit = 8
  A64Field = 16
  A64Limit = 16
  Imm10 = 2
  Imm11 = 2
  Space = 128
  Calls <- MCCalls
  Pointers <- MCPointers
INVARIANTS
  PatchArmInv
  AppliedReachesStub
  RestoredUnlessBlx
  ThumbGivesBack
  LostExplained
CHECK_DEADLOCK FALSE
