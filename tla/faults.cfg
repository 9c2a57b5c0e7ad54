SPECIFICATION Spec
CONSTANTS
  Files <- MCFiles
  Contents <- MCContents
  Metas <- MCMetas
  Names <- MCNames
  InitStates <- TwoOrNone
  OptionSets <- Commands
  Events <- Faults
  MaxOps = 1
  MaxPush = 2
  MaxLog = 2
  MaxDepth = 5
INVARIANTS PatchRefsFollowState
PROPERTIES LocalChangesKept RollbackRestores ConflictLeftToUser CleanStaysClean
CHECK_DEADLOCK FALSE
