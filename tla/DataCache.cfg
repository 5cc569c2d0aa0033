SPECIFICATION Spec
CONSTANTS
  a = a
  b = b
  c = c
  Tags <- MCTags
  FlashTable <- MCFlashTable
  FlashVisible <- MCFlashVisible
  TagFiles <- MCTagFiles
  Declared <- MCDeclared
  MaxUploads = 1
  MaxPrograms = 1
  MaxReboots = 1
INVARIANTS
  TypeOK
  ValuesUnderTheirNames
  FittingValuesAreLabelled
  GenerationLayoutHasItsTags
PROPERTIES
  RebuildIsDone
  LayoutFollowsGeneration
  ValuesBecomeLive
