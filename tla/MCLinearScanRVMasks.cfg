SPECIFICATION Spec
CONSTANTS
  Gprs = {17}
  Flts = {0}
  Pool <- RVPool
  CalleeSaved <- RVCalleeSaved
  BitBase <- RVBitBase
  MaskWidth = 16
  ActMax = 32
  Tables <- MCTables
CHECK_DEADLOCK FALSE
INVARIANT MasksComplete
