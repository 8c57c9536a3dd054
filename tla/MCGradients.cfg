SPECIFICATION Spec
CONSTANTS
  Nodes <- MCNodes
  Inputs <- MCInputs
  MaxTicks <- MCMaxTicks
CHECK_DEADLOCK FALSE
INVARIANTS DequeInv ExtremaOfWindow WindowSensitivities RecurrenceSensitivities
