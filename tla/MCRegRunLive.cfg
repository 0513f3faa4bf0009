SPECIFICATION RegSpec
CONSTANTS
  NVars = 4
  NParams = 2
  Preset = {}
  Labels = {}
  Profiles <- LoopProfiles
  MaxLoop = 64
  MaxPreds = 8
  MaxKids = 8
  MaxVars = 128
  OpSlots = 4
  FakeBase = 65536
  MaxChase = 64
  BackEnds = {"x86"}
  Pool <- MCPool
  CalleeSaved <- MCCalleeSaved
  BitBase <- MCBitBase
  MaskWidth = 16
  ActMax = 16
CHECK_DEADLOCK FALSE
INVARIANT LiveCovered
