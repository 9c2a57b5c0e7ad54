SPECIFICATION Spec
CONSTANTS
  Files <- MCFiles
  Contents <- MCContents
  Metas <- MCMetas
  Names <- MCNames
  InitStates <- JustThree
  OptionSets <- OnlyDelete
  Events <- NoEvents
  MaxOps = 1
  MaxPush = 2
  MaxLog = 2
  MaxDepth = 5
PROPERTIES PushedTreeIsMerge
CHECK_DEADLOCK FALSE
