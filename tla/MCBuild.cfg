SPECIFICATION Spec
CONSTANTS
  Sources <- MCSources
  Orders <- MCOrders
  Limits <- MCLimits
CHECK_DEADLOCK FALSE
INVARIANTS TypeOK CutNoticed StatusLiterals
PROPERTIES KeepsPromise
