SPECIFICATION Spec
CONSTANTS
  Archs = {"arm"}
  ArmField = 16
  ArmLimit = 8
  A64Field = 16
  A64Limit = 16
  Imm10 = 2
  Imm11 = 2
  Space = 128
  Calls <- MCCalls
  Pointers <- MCPointers
INVARIANT RestoresContents
CHECK_DEADLOCK FALSE
