SPECIFICATION Spec
CONSTANTS
  MaxUploads = 2
  RetiredDepth = 1
  UpdateModes <- MCLiveModes
  SwapIsBrief = TRUE
PROPERTIES
  CompilerIsReleased
  PendingIsActivated
  RetiredIsDestroyed
