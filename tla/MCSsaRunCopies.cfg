SPECIFICATION Spec
CONSTANTS
  NVars = 3
  NParams = 1
  Preset = {2}
  Labels = {"L"}
  Profiles <- CopyProfiles
  MaxLoop = 64
  MaxPreds = 8
  MaxKids = 8
  MaxVars = 128
  OpSlots = 4
  FakeBase = 65536
  MaxChase = 64
CHECK_DEADLOCK FALSE
PROPERTY CopiesInParallel
