SPECIFICATION Spec
CONSTANTS
  Files <- MCFiles
  Contents <- MCContents
  Metas <- MCMetas
  Names <- MCNames
  InitStates <- TwoOrNone
  OptionSets <- AnyCommand
  Events <- NoEvents
  MaxOps = 2
  MaxPush = 2
  MaxLog = 2
  MaxDepth = 5
INVARIANTS TypeOK ListsPartitionPatches AppliedPatchesChained AssertionsHold HeadIsTop
CHECK_DEADLOCK FALSE
