SPECIFICATION Spec
CONSTANTS
  Periods = {2}
  Alphas <- MCAlphas
  Noises <- MCNoises
  Inputs <- MCInputs
  NaN = NaN
  MaxTicks = 4
CHECK_DEADLOCK FALSE
INVARIANTS EmaOfHistory CrossOncePerExcursion KalmanOfHistory
