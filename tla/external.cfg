SPECIFICATION Spec
CONSTANTS
  Files <- MCFiles
  Contents <- MCContents
  Metas <- MCMetas
  Names <- MCNames
  InitStates <- AfterGitInit
  OptionSets <- AfterGit
  Events <- Git
  MaxOps = 1
  MaxPush = 1
  MaxLog = 3
  MaxDepth = 5
INVARIANTS AppliedPatchesChained
PROPERTIES ExternalHeadLogged
CHECK_DEADLOCK FALSE
