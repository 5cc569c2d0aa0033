SPECIFICATION Spec
CONSTANTS
  MaxUploads = 3
  RetiredDepth = 1
  UpdateModes <- MCUpdateModes
  SwapIsBrief = TRUE
INVARIANTS
  TypeOK
  SingleFlight
  CompiledProgramFindsSlotFree
  ProgramsOwnedOnce
PROPERTIES
  NoOldScanWhilePaused
  NoScanDuringTagUpdate
  ImplementsLifecycle
