SPECIFICATION Spec
CONSTANTS
  Sources <- MCSources
  Tolerance <- MCTolerance
  AllSignals = FALSE
  Inputs <- MCInputs
  MaxInstruments = 2
  MaxTicks = 3
CHECK_DEADLOCK FALSE
INVARIANTS AcceptsExactly RoundTrips PreparedMeansSource ScalarMatchesInterpreter
  VecMatchesIfAliased GradientsOfSource StatelessGradientsAgree CalibrationGradient
