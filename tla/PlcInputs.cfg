SPECIFICATION Spec
CONSTANTS
  Inputs <- MCInputs
  DebounceTicks = 3
  MaxPackets = 3
INVARIANTS
  TypeOK
  LossAccounted
  TagsNotBehindInputs
PROPERTIES
  DebounceHolds
  LatestImageWins
