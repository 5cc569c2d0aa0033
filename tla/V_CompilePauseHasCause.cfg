SPECIFICATION Spec
CONSTANTS
  MaxUploads = 2
  RetiredDepth = 1
  UpdateModes <- MCUpdateModes
  SwapIsBrief = TRUE
INVARIANT
  CompilePauseHasCause
