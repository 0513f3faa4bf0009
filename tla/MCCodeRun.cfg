SPECIFICATION Spec
CONSTANTS
  Programs <- MCPrograms
  BackEnds = {"x86", "rv"}
  XGprs = {3, 10, 11, 12}
  XXmms = {2, 5}
  RGprs = {9, 28}
  RFprs = {2, 28}
  MaxRegs = 2
CHECK_DEADLOCK FALSE
INVARIANTS TypeOK CodeRight InCode CalleeSaved CallAligned
PROPERTIES Finishes
