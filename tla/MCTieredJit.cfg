SPECIFICATION TierSpec
CONSTANTS
  Calls <- MCCalls
  Op <- MCOp
  Period <- MCPeriod
  Conditional <- MCConditional
  Evaluators = {e1, e2}
  MaxInt = 2147483647
SYMMETRY Symmetry
INVARIANTS IndInv SpecialisedOnlyWhenWarm TiersAgree
