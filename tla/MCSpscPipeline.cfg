SPECIFICATION PipeSpec
CONSTANTS
  N = 4
  Laps = 2
  Total = 10
  Values <- MCValues
  NoValue = NoValue
INVARIANTS PipeInv IndInv SlotRaceFree NothingLost
PROPERTIES Refines PipelineEnds
