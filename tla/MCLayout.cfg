SPECIFICATION Spec
CONSTANTS
  WordSizes = {12, 16}
  Types <- MCTypes
  Positions = {0, 13}
  MaxFlds = 4
CHECK_DEADLOCK FALSE
INVARIANTS TypeOK NoOverlap InEntry WordAligned
