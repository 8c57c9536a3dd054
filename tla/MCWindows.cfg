SPECIFICATION WindowsSpec
CONSTANTS
  Periods = {1, 2, 3}
  Samples <- MCXs
  Xs <- MCXs
  Ys = {0, 1, 2}
  NaN = NaN
INVARIANTS SmaIsWindowMean StdIsWindowDeviation ZscoresAgree
  VwapIsWindowAverage PairStatsOfWindow LagIsPast
