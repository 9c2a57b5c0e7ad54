SPECIFICATION Spec
CONSTANTS
  Files <- MCFiles
  Contents <- MCContents
  Metas <- MCMetas
  Names <- MCNames
  InitStates <- JustTwo
  OptionSets <- OnlyPush
  Events <- Interrupt
  MaxOps = 1
  MaxPush = 2
  MaxLog = 2
  MaxDepth = 5
PROPERTIES AllOrNothing
CHECK_DEADLOCK FALSE
