SPECIFICATION Spec
CONSTANTS
  Program <- Returning
  ParamCounts = {0, 1, 2}
  MaxAge = 2
INVARIANTS ContextInv WarmedFits GradientSlotsInRange
