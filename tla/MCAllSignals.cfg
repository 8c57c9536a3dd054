SPECIFICATION Spec
CONSTANTS
  Sources <- MCSources
  AllSignals = TRUE
  Inputs <- MCInputs
  Tolerance <- MCTolerance
  MaxInstruments = 2
  MaxTicks = 2
INVARIANT ScalarMatchesInterpreter
CHECK_DEADLOCK FALSE
