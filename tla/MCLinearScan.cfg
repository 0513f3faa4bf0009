SPECIFICATION FairSpec
CONSTANTS
  Pool <- MCPool
  CalleeSaved <- MCCalleeSaved
  BitBase <- MCBitBase
  MaskWidth = 3
  ActMax = 3
  Tables <- MCTables
INVARIANTS TypeOK NoClash ScanInv NoRegisterLost MasksComplete
PROPERTIES SpillsFurthest SpillsUnderPressureOnly KeepsPromise
CHECK_DEADLOCK FALSE
