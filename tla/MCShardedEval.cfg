SPECIFICATION Spec
CONSTANTS
  Sizes = {1, 2, 3, 4, 5, 7}
  ThreadCounts = {1, 2, 3, 4}
  MaxPasses = 2
INVARIANTS NoSharedSymbol ShardsTile AsSequential
