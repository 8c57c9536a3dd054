SPECIFICATION Spec
CONSTANTS
  Program <- Repeating
  ParamCounts = {0, 1, 2}
  MaxAge = 2
INVARIANT SlotPerNodeAndParam
