SPECIFICATION Spec
CONSTANTS
  NVars = 2
  NParams = 1
  Preset = {}
  Labels = {"L"}
  Profiles <- NestProfiles
  MaxLoop = 64
  MaxPreds = 8
  MaxKids = 8
  MaxVars = 128
  OpSlots = 4
  FakeBase = 65536
  MaxChase = 64
CHECK_DEADLOCK FALSE
INVARIANT FitsInPlace
